------------------------------ MODULE ShellProofs ------------------------------
(***************************************************************************)
(* The app shell with its room lists: types, the canvas that never         *)
(* dangles, the one strip, that a model shut down is offline, that lists   *)
(* come whole and of the current model, and that the indicator is true,    *)
(* for any number of connections, drops, refusals and requests.            *)
(*                                                                         *)
(* The invariants add what the actions owe to each other.  Of the shell:   *)
(* whose start() may be on its way (Starting), that models to come are     *)
(* untouched (Fresh), and that nothing comes of one that is being started  *)
(* (Untold).  Of the answers: an end that is on its way has all its rows   *)
(* before it, or in the accumulator (Gathers), so that a list posted is    *)
(* whole (Whole).  Of the views: what the letters of the current model     *)
(* under way will make of them (Indicated, Mirrored).                      *)
(***************************************************************************)
EXTENDS RoomList, TLAPS

USE ModelsAssumption, TroublesAssumption, AnnouncesAssumption, RequestsAssumption

\* Unless one was overtaken, only the current model is being started.
Starting ==
    overtaken = {} => \A m \in Models :
        stage[m] \in {"start", "setUp", "failed"} \/ session[m] = "dialling" => m = model

\* A model that was not made has no stage, session, strip or shutdown.
Fresh ==
    \A m \in Models : stage[m] # "none" \/ session[m] # "none" \/ isShutDown[m] => m <= made

IInv ==
    /\ TypeOK /\ CanvasNeverDangles /\ OneStrip /\ DownIsOffline
    /\ Starting /\ Fresh

LEMMA InitHolds == ListInit => IInv /\ ListTypeOK
<1> SUFFICES ASSUME ListInit PROVE IInv /\ ListTypeOK
  OBVIOUS
<1>1. TypeOK
  <2>1. mailbox \in Seq(Letters) /\ roomList \in Seq(Rows)
    BY DEF ListInit, Init
  <2>2. stream \in [Models -> Seq(Events)]
    BY DEF ListInit, Init
  <2>3. /\ made \in 0..MaxModels /\ model \in 0..made /\ canvas \in 0..made
        /\ troubles \in 0..MaxTroubles /\ overtaken \subseteq 1..made
    BY DEF ListInit, Init
  <2> QED BY <2>1, <2>2, <2>3 DEF ListInit, Init, TypeOK, Stages, Sessions
<1>2. CanvasNeverDangles /\ OneStrip /\ DownIsOffline /\ Starting /\ Fresh
  BY DEF ListInit, Init, CanvasNeverDangles, OneStrip, DownIsOffline, Starting, Fresh
<1>3. ListTypeOK
  BY DEF ListInit, ListTypeOK, Accums, Closed
<1> QED BY <1>1, <1>2, <1>3 DEF IInv

-----------------------------------------------------------------------------
(* Helpers.                                                                  *)

LEMMA FirstAndRest ==
  ASSUME NEW S, NEW s \in Seq(S), s # <<>>
  PROVE  Head(s) \in S /\ Tail(s) \in Seq(S)
  OBVIOUS

LEMMA PostTypes ==
  ASSUME mailbox \in Seq(Letters), NEW m \in Models,
         NEW says \in Indications \cup {"rejected"}, Posts(m, says)
  PROVE  mailbox' \in Seq(Letters)
<1>1. [from |-> m, says |-> says, rows |-> <<>>] \in Letters
  BY DEF Letters
<1> QED BY <1>1 DEF Posts

LEMMA YieldTypes ==
  ASSUME stream \in [Models -> Seq(Events)], NEW m \in Models, NEW e \in Events, Yields(m, e)
  PROVE  stream' \in [Models -> Seq(Events)]
<1>1. CASE isShutDown[m]
  BY <1>1 DEF Yields
<1>2. CASE ~isShutDown[m]
  <2>1. Append(stream[m], e) \in Seq(Events)
    OBVIOUS
  <2> QED BY <1>2, <2>1 DEF Yields
<1> QED BY <1>1, <1>2

LEMMA EndTypes ==
  ASSUME TypeOK, NEW m \in Models, Ends(m)
  PROVE  /\ isReconnecting' \in [Models -> BOOLEAN]
         /\ loop' \in [Models -> {"none", "head", "trying"}]
  BY DEF TypeOK, Ends

\* What shutdown() leaves behind.
LEMMA ShutDownEffects ==
  ASSUME TypeOK, NEW m \in Models, ShutsDown(m)
  PROVE  /\ isShutDown' = [isShutDown EXCEPT ![m] = TRUE]
         /\ isReconnecting' \in [Models -> BOOLEAN]
         /\ loop' \in [Models -> {"none", "head", "trying"}]
         /\ stream' \in [Models -> Seq(Events)]
         /\ session' = [session EXCEPT ![m] = "closed"]
         /\ box' = [box EXCEPT ![m] = FALSE] /\ canvas' = 0
<1>1. <<>> \in Seq(Events)
  OBVIOUS
<1> QED BY <1>1, EndTypes DEF TypeOK, ShutsDown, Disconnects, Releases

\* After the current model was shut down, be it none: types, no strip that is not
\* that of a model whose start() was overtaken, and who that may be.
LEMMA CurrentIsDown ==
  ASSUME IInv, ShutsDownCurrent
  PROVE  /\ isShutDown' \in [Models -> BOOLEAN] /\ isReconnecting' \in [Models -> BOOLEAN]
         /\ loop' \in [Models -> {"none", "head", "trying"}]
         /\ stream' \in [Models -> Seq(Events)] /\ session' \in [Models -> Sessions]
         /\ box' \in [Models -> BOOLEAN] /\ canvas' \in 0..made
         /\ overtaken' \subseteq 1..made
         /\ canvas' # 0 => box'[canvas']
         /\ \A m \in Models :
               /\ isShutDown'[m] /\ m \notin overtaken' =>
                     session'[m] = "closed" /\ stage[m] \notin {"start", "setUp"}
               /\ session'[m] # "none" \/ isShutDown'[m] => m <= made
         /\ overtaken' = {} => \A m \in Models :
               /\ ~box'[m] /\ session'[m] # "dialling"
               /\ stage[m] \notin {"start", "setUp", "failed"}
<1>1. CASE model = 0
  <2>1. UNCHANGED <<isShutDown, retry, stream, session, engine, overtaken>>
    BY <1>1 DEF ShutsDownCurrent
  <2>2. \A m \in Models : m # model
    BY <1>1 DEF Models
  <2> QED BY <2>1, <2>2 DEF IInv, TypeOK, CanvasNeverDangles, OneStrip, DownIsOffline,
                            Starting, Fresh, retry, engine
<1>2. CASE model # 0
  <2>1. /\ model \in Models /\ model \in 1..made
        /\ ShutsDown(model)
        /\ overtaken' = IF stage[model] \in {"start", "setUp", "failed"}
                        THEN overtaken \cup {model} ELSE overtaken
    BY <1>2 DEF IInv, TypeOK, Models, ShutsDownCurrent
  <2>2. /\ isShutDown' = [isShutDown EXCEPT ![model] = TRUE]
        /\ session' = [session EXCEPT ![model] = "closed"]
        /\ box' = [box EXCEPT ![model] = FALSE] /\ canvas' = 0
        /\ isReconnecting' \in [Models -> BOOLEAN]
        /\ loop' \in [Models -> {"none", "head", "trying"}]
        /\ stream' \in [Models -> Seq(Events)]
    BY <2>1, ShutDownEffects DEF IInv
  <2>3. /\ isShutDown' \in [Models -> BOOLEAN] /\ session' \in [Models -> Sessions]
        /\ box' \in [Models -> BOOLEAN] /\ canvas' \in 0..made
        /\ overtaken' \subseteq 1..made
    BY <2>1, <2>2 DEF IInv, TypeOK, Sessions
  <2>4. /\ canvas' # 0 => box'[canvas']
        /\ \A m \in Models :
              /\ isShutDown'[m] /\ m \notin overtaken' =>
                    session'[m] = "closed" /\ stage[m] \notin {"start", "setUp"}
              /\ session'[m] # "none" \/ isShutDown'[m] => m <= made
    BY <2>1, <2>2 DEF IInv, TypeOK, CanvasNeverDangles, DownIsOffline, Fresh, Models
  <2>5. overtaken' = {} => overtaken = {} /\ stage[model] \notin {"start", "setUp", "failed"}
    BY <2>1
  <2>6. overtaken = {} => \A m \in Models \ {model} :
           /\ ~box[m] /\ session[m] # "dialling"
           /\ stage[m] \notin {"start", "setUp", "failed"}
    BY DEF IInv, OneStrip, Starting
  <2>7. ~box'[model] /\ session'[model] # "dialling"
    BY <2>1, <2>2 DEF IInv, TypeOK
  <2>8. \A m \in Models \ {model} : box'[m] = box[m] /\ session'[m] = session[m]
    BY <2>2 DEF IInv, TypeOK
  <2> QED BY <2>2, <2>3, <2>4, <2>5, <2>6, <2>7, <2>8
<1> QED BY <1>1, <1>2

-----------------------------------------------------------------------------
(* The main actor.                                                           *)

LEMMA ConnectKeeps ==
  ASSUME IInv, Connect PROVE IInv'
<1>1. /\ made + 1 \in Models /\ made \in Nat
      /\ ShutsDownCurrent /\ reconnectState' = "none" /\ roomList' = <<>>
      /\ made' = made + 1 /\ model' = made + 1
      /\ stage' = [stage EXCEPT ![made + 1] = "start"]
      /\ UNCHANGED <<mailbox, troubles, late>>
  BY DEF Connect, TearsDownFirst, Clears, IInv, TypeOK, Models
<1>2. TypeOK'
  <2>1. /\ isShutDown' \in [Models -> BOOLEAN] /\ isReconnecting' \in [Models -> BOOLEAN]
        /\ loop' \in [Models -> {"none", "head", "trying"}]
        /\ stream' \in [Models -> Seq(Events)] /\ session' \in [Models -> Sessions]
        /\ box' \in [Models -> BOOLEAN] /\ canvas' \in 0..made'
        /\ overtaken' \subseteq 1..made'
    BY <1>1, CurrentIsDown DEF IInv, TypeOK
  <2>2. /\ made' \in 0..MaxModels /\ model' \in 0..made'
        /\ stage' \in [Models -> Stages] /\ <<>> \in Seq(Rows)
    BY <1>1 DEF IInv, TypeOK, Models, Stages
  <2> QED BY <1>1, <2>1, <2>2 DEF IInv, TypeOK
<1>3. /\ stage'[made + 1] = "start" /\ ~isShutDown'[made + 1]
      /\ \A m \in Models \ {made + 1} : stage'[m] = stage[m]
      /\ \A m \in Models : stage'[m] # "none" => m <= made'
  <2>1. /\ stage'[made + 1] = "start"
        /\ \A m \in Models \ {made + 1} : stage'[m] = stage[m]
    BY <1>1 DEF IInv, TypeOK
  <2>2. \A m \in Models : isShutDown'[m] => m <= made
    BY <1>1, CurrentIsDown
  <2>3. ~isShutDown'[made + 1]
    BY <1>1, <2>2
  <2>4. \A m \in Models : stage[m] # "none" => m <= made
    BY DEF IInv, Fresh
  <2> QED BY <1>1, <2>1, <2>3, <2>4 DEF Models
<1>4. CanvasNeverDangles' /\ DownIsOffline' /\ Fresh'
  BY <1>1, <1>3, CurrentIsDown DEF CanvasNeverDangles, DownIsOffline, Fresh, Models
<1>5. OneStrip' /\ Starting'
  BY <1>1, <1>3, CurrentIsDown DEF OneStrip, Starting
<1> QED BY <1>2, <1>4, <1>5 DEF IInv

\* Leave/Disconnect, and the answer to a rejected nick.
LEMMA NilKeeps ==
  ASSUME IInv, ShutsDownCurrent, Clears, model' = 0, UNCHANGED <<made, stage, troubles>>,
         mailbox' \in Seq(Letters), late' \in BOOLEAN
  PROVE  IInv'
<1>1. TypeOK'
  BY CurrentIsDown DEF IInv, TypeOK, Clears
<1>2. CanvasNeverDangles' /\ DownIsOffline' /\ Fresh'
  BY CurrentIsDown DEF IInv, CanvasNeverDangles, DownIsOffline, Fresh
<1>3. OneStrip' /\ Starting'
  BY CurrentIsDown DEF OneStrip, Starting
<1> QED BY <1>1, <1>2, <1>3 DEF IInv

LEMMA DisconnectKeeps ==
  ASSUME IInv, Disconnect PROVE IInv'
  BY NilKeeps DEF Disconnect, IInv, TypeOK

LEMMA FailedKeeps ==
  ASSUME IInv, NEW m \in Models, Failed(m) PROVE IInv'
<1>1. /\ stage[m] = "failed" /\ stage' = [stage EXCEPT ![m] = "done"]
      /\ model' = 0
      /\ UNCHANGED <<made, reconnectState, roomList, mailbox, troubles, overtaken, late>>
  BY DEF Failed, history
<1>2. /\ isShutDown' = [isShutDown EXCEPT ![m] = TRUE]
      /\ session' = [session EXCEPT ![m] = "closed"]
      /\ box' = [box EXCEPT ![m] = FALSE] /\ canvas' = 0
      /\ isReconnecting' \in [Models -> BOOLEAN]
      /\ loop' \in [Models -> {"none", "head", "trying"}]
      /\ stream' \in [Models -> Seq(Events)]
  BY ShutDownEffects DEF Failed, IInv
<1>3. TypeOK'
  BY <1>1, <1>2 DEF IInv, TypeOK, Stages, Sessions
<1>4. CanvasNeverDangles' /\ DownIsOffline' /\ Fresh'
  BY <1>1, <1>2 DEF IInv, TypeOK, CanvasNeverDangles, DownIsOffline, Fresh
<1>5. ASSUME overtaken = {}
      PROVE  \A n \in Models : /\ ~box'[n] /\ session'[n] # "dialling"
                               /\ stage'[n] \notin {"start", "setUp", "failed"}
  <2>1. m = model
    BY <1>1, <1>5 DEF IInv, Starting
  <2> QED BY <1>1, <1>2, <1>5, <2>1 DEF IInv, TypeOK, OneStrip, Starting
<1>6. OneStrip' /\ Starting'
  BY <1>1, <1>5 DEF OneStrip, Starting
<1> QED BY <1>3, <1>4, <1>6 DEF IInv

LEMMA DeliverKeeps ==
  ASSUME IInv, Deliver PROVE IInv'
<1> DEFINE letter == Head(mailbox)
<1>1. letter \in Letters /\ mailbox' \in Seq(Letters)
  BY FirstAndRest DEF Deliver, IInv, TypeOK
<1>2. /\ late' = (late \/ letter.from # model) /\ late' \in BOOLEAN
      /\ UNCHANGED <<made, stage, troubles>>
  BY DEF Deliver, IInv, TypeOK
<1>3. CASE letter.says = "rejected"
  BY <1>1, <1>2, <1>3, NilKeeps DEF Deliver
<1>4. CASE letter.says # "rejected"
  <2>1. /\ IF letter.says = "roomList"
           THEN roomList' = letter.rows /\ UNCHANGED reconnectState
           ELSE reconnectState' = letter.says /\ UNCHANGED roomList
        /\ UNCHANGED <<model, isShutDown, retry, stream, session, engine, overtaken>>
    BY <1>4 DEF Deliver
  <2> HIDE DEF letter
  <2>2. roomList' \in Seq(Rows) /\ reconnectState' \in Indications \cup {"none"}
    BY <1>1, <1>4, <2>1 DEF IInv, TypeOK, Letters
  <2>3. TypeOK'
    BY <1>1, <1>2, <2>1, <2>2 DEF IInv, TypeOK, retry, engine
  <2>4. UNCHANGED <<CanvasNeverDangles, OneStrip, DownIsOffline, Starting, Fresh>>
    BY <1>2, <2>1 DEF CanvasNeverDangles, OneStrip, DownIsOffline, Starting, Fresh, engine
  <2> QED BY <2>3, <2>4 DEF IInv
<1> QED BY <1>3, <1>4

-----------------------------------------------------------------------------
(* start() and the session.                                                  *)

\* Steps of a model that was made, and that touch neither strip nor shutdown.
LEMMA SetUpKeeps ==
  ASSUME IInv, NEW m \in Models, SetUp(m) PROVE IInv'
<1>1. /\ stage[m] = "start"
      /\ box' = [box EXCEPT ![m] = TRUE] /\ canvas' = m
      /\ UNCHANGED <<main, mailbox, session, isShutDown, retry, stream, troubles, history>>
  BY DEF SetUp
<1>2. PICK s \in {"setUp", "failed"} : stage' = [stage EXCEPT ![m] = s]
  BY DEF SetUp
<1>3. m \in 1..made
  BY <1>1 DEF IInv, TypeOK, Fresh, Models
<1>4. TypeOK'
  BY <1>1, <1>2, <1>3 DEF IInv, TypeOK, Stages, main, retry, history
<1>5. CanvasNeverDangles' /\ DownIsOffline' /\ Fresh'
  BY <1>1, <1>2, <1>3 DEF IInv, TypeOK, CanvasNeverDangles, DownIsOffline, Fresh, main, history
<1>6. overtaken = {} => m = model
  BY <1>1 DEF IInv, Starting
<1>7. OneStrip' /\ Starting'
  BY <1>1, <1>2, <1>6 DEF IInv, TypeOK, OneStrip, Starting, main, history
<1> QED BY <1>4, <1>5, <1>7 DEF IInv

LEMMA DialKeeps ==
  ASSUME IInv, NEW m \in Models, Dial(m) PROVE IInv'
<1> USE DEF Dial, IInv, main, retry, engine, history
<1>1. TypeOK'
  BY DEF TypeOK, Stages, Sessions
<1>2. m \in overtaken \/ ~isShutDown[m]
  BY DEF DownIsOffline
<1>3. CanvasNeverDangles' /\ DownIsOffline' /\ Fresh'
  BY <1>2 DEF TypeOK, CanvasNeverDangles, DownIsOffline, Fresh
<1>4. OneStrip' /\ Starting'
  BY DEF TypeOK, OneStrip, Starting
<1> QED BY <1>1, <1>3, <1>4

LEMMA DialEndsKeeps ==
  ASSUME IInv, NEW m \in Models, DialEnds(m) PROVE IInv'
<1> USE DEF DialEnds, IInv, main, retry, engine, history
<1>1. TypeOK'
  BY DEF TypeOK, Stages, Sessions
<1>2. CanvasNeverDangles' /\ DownIsOffline' /\ Fresh'
  BY DEF TypeOK, CanvasNeverDangles, DownIsOffline, Fresh
<1>3. OneStrip' /\ Starting'
  BY DEF TypeOK, OneStrip, Starting
<1> QED BY <1>1, <1>2, <1>3

\* A session that goes from one of its stages to another, neither of them a dial.
LEMMA SessionKeeps ==
  ASSUME IInv, TypeOK', NEW m \in Models, NEW s \in {"up", "lost", "closed"},
         session' = [session EXCEPT ![m] = s],
         session[m] \in {"socket", "up", "lost"},
         UNCHANGED <<model, made, stage, isShutDown, box, canvas, overtaken>>
  PROVE  IInv'
<1>1. CanvasNeverDangles' /\ DownIsOffline' /\ Fresh'
  BY DEF IInv, TypeOK, CanvasNeverDangles, DownIsOffline, Fresh
<1>2. OneStrip' /\ Starting'
  BY DEF IInv, TypeOK, OneStrip, Starting
<1> QED BY <1>1, <1>2 DEF IInv

\* A step that leaves sessions and strips alone.
LEMMA QuietKeeps ==
  ASSUME IInv, TypeOK',
         UNCHANGED <<model, made, stage, session, isShutDown, box, canvas, overtaken>>
  PROVE  IInv'
  BY DEF IInv, CanvasNeverDangles, DownIsOffline, Fresh, OneStrip, Starting

LEMMA LogsInKeeps ==
  ASSUME IInv, NEW m \in Models, LogsIn(m) PROVE IInv'
<1> USE DEF LogsIn, main, retry, engine, history
<1>1. TypeOK'
  BY DEF IInv, TypeOK, Sessions
<1> QED BY <1>1, SessionKeeps

LEMMA TroubleTypes ==
  ASSUME TypeOK, Troubles PROVE troubles' \in 0..MaxTroubles
  BY DEF TypeOK, Troubles

LEMMA RejectsNickKeeps ==
  ASSUME IInv, NEW m \in Models, RejectsNick(m) PROVE IInv'
<1> USE DEF RejectsNick, main, retry, engine, history
<1>1. stream' \in [Models -> Seq(Events)] /\ troubles' \in 0..MaxTroubles
  BY YieldTypes, TroubleTypes DEF IInv, TypeOK, Events
<1>2. TypeOK'
  BY <1>1 DEF IInv, TypeOK
<1> QED BY <1>2, QuietKeeps

LEMMA DropsKeeps ==
  ASSUME IInv, NEW m \in Models, Drops(m) PROVE IInv'
<1> USE DEF Drops, main, retry, engine, history
<1>1. stream' \in [Models -> Seq(Events)] /\ troubles' \in 0..MaxTroubles
  BY YieldTypes, TroubleTypes DEF IInv, TypeOK, Events
<1>2. TypeOK'
  BY <1>1 DEF IInv, TypeOK, Sessions
<1> QED BY <1>2, SessionKeeps

-----------------------------------------------------------------------------
(* The engine queue and the loop.                                            *)

LEMMA HandleKeeps ==
  ASSUME IInv, NEW m \in Models, Handle(m) PROVE IInv'
<1> USE DEF main, engine, history
<1>1. /\ HandlesEvent(m)
      /\ UNCHANGED <<main, stage, session, isShutDown, engine, troubles, history>>
  BY DEF Handle
<1>2. stream' \in [Models -> Seq(Events)]
  <2>1. stream[m] \in Seq(Events) /\ stream[m] # <<>>
    BY DEF Handle, IInv, TypeOK
  <2>2. Tail(stream[m]) \in Seq(Events)
    BY <2>1, FirstAndRest
  <2> QED BY <2>2 DEF Handle, IInv, TypeOK
<1>3. /\ mailbox' \in Seq(Letters) /\ isReconnecting' \in [Models -> BOOLEAN]
      /\ loop' \in [Models -> {"none", "head", "trying"}]
  <2>1. mailbox \in Seq(Letters) /\ TypeOK
    BY DEF IInv, TypeOK
  <2>2. CASE Ends(m) /\ Posts(m, "connected")
    BY <2>1, <2>2, EndTypes, PostTypes DEF Indications
  <2>3. CASE /\ isReconnecting' = [isReconnecting EXCEPT ![m] = TRUE]
             /\ loop' = [loop EXCEPT ![m] = "head"]
             /\ UNCHANGED mailbox
    BY <2>1, <2>3 DEF TypeOK
  <2>4. CASE Posts(m, "rejected") /\ UNCHANGED retry
    BY <2>1, <2>4, PostTypes DEF TypeOK, retry
  <2>5. CASE UNCHANGED <<mailbox, retry>>
    BY <2>1, <2>5 DEF TypeOK, retry
  <2> QED BY <1>1, <2>2, <2>3, <2>4, <2>5 DEF HandlesEvent
<1>4. TypeOK'
  BY <1>1, <1>2, <1>3 DEF IInv, TypeOK
<1> QED BY <1>1, <1>4, QuietKeeps

LEMMA AnnouncesKeeps ==
  ASSUME IInv, NEW m \in Models, Announces(m) PROVE IInv'
<1> USE DEF Announces, main, retry, engine
<1>1. mailbox' \in Seq(Letters)
  BY PostTypes DEF IInv, TypeOK, Indications
<1>2. TypeOK'
  BY <1>1 DEF IInv, TypeOK
<1> QED BY <1>2, QuietKeeps

LEMMA ReattemptsKeeps ==
  ASSUME IInv, NEW m \in Models, Reattempts(m) PROVE IInv'
<1> USE DEF Reattempts, main, retry, engine, history
<1>1. stream' \in [Models -> Seq(Events)]
  BY YieldTypes DEF IInv, TypeOK, Events
<1>2. TypeOK'
  BY <1>1 DEF IInv, TypeOK, Sessions
<1> QED BY <1>2, SessionKeeps

LEMMA TimesOutKeeps ==
  ASSUME IInv, NEW m \in Models, TimesOut(m) PROVE IInv'
<1> USE DEF TimesOut, main, engine, history
<1>1. troubles' \in 0..MaxTroubles
  BY TroubleTypes DEF IInv
<1>2. TypeOK'
  BY <1>1 DEF IInv, TypeOK
<1> QED BY <1>2, QuietKeeps

LEMMA GivesUpKeeps ==
  ASSUME IInv, NEW m \in Models, GivesUp(m) PROVE IInv'
<1> USE DEF GivesUp, Disconnects, main, engine, history
<1>1. mailbox' \in Seq(Letters)
  BY PostTypes DEF IInv, TypeOK, Indications
<1>2. /\ isReconnecting' \in [Models -> BOOLEAN]
      /\ loop' \in [Models -> {"none", "head", "trying"}]
  BY EndTypes DEF IInv
<1>3. TypeOK'
  BY <1>1, <1>2 DEF IInv, TypeOK, Sessions
<1> QED BY <1>3, SessionKeeps

LEMMA ShellKeeps ==
  ASSUME IInv, ShellNext PROVE IInv'
<1>1. CASE MainActs
  BY <1>1, ConnectKeeps, DisconnectKeeps, DeliverKeeps, FailedKeeps DEF MainActs
<1>2. ASSUME NEW m \in Models, Starts(m) PROVE IInv'
  BY <1>2, SetUpKeeps, DialKeeps, DialEndsKeeps DEF Starts
<1>3. ASSUME NEW m \in Models, Networks(m) PROVE IInv'
  BY <1>3, LogsInKeeps, RejectsNickKeeps, DropsKeeps DEF Networks
<1>4. ASSUME NEW m \in Models, Reconnects(m) PROVE IInv'
  BY <1>4, AnnouncesKeeps, ReattemptsKeeps, TimesOutKeeps, GivesUpKeeps DEF Reconnects
<1> QED BY <1>1, <1>2, <1>3, <1>4, HandleKeeps DEF ShellNext

-----------------------------------------------------------------------------
(* The lists.                                                                *)

Answered(m) == \E k \in 1..Len(answers[m]) : answers[m][k].is \in {"end", "error"}

\* A request in flight has its Task, its answer, or has lost it.
Pending ==
    \A m \in Models : roomListRequestInFlight[m] /\ ~isShutDown[m] =>
        asking[m] # 0 \/ lostAnswer[m] \/ Answered(m)

Inv == IInv /\ ListTypeOK /\ Pending

LEMMA InitInv == ListInit => Inv
<1>1. ListInit => Pending
  BY DEF ListInit, Pending
<1> QED BY <1>1, InitHolds DEF Inv

LEMMA LineTypes ==
  /\ [is |-> "begin"] \in Lines /\ [is |-> "end"] \in Lines /\ [is |-> "error"] \in Lines
  /\ \A m \in Models, n \in Nat : Row(m, n) \in Lines
  BY DEF Lines, Row, Rows

LEMMA ConcatFacts ==
  ASSUME NEW S, NEW s \in Seq(S), NEW t \in Seq(S)
  PROVE  /\ s \o t \in Seq(S) /\ Len(s \o t) = Len(s) + Len(t) /\ Len(s) \in Nat
         /\ \A k \in 1..Len(t) : Len(s) + k \in 1..Len(s \o t) /\ (s \o t)[Len(s) + k] = t[k]
         /\ \A k \in 1..Len(s) : k \in 1..Len(s \o t) /\ (s \o t)[k] = s[k]
  OBVIOUS

EndsWithEnd(s) == s # <<>> /\ s[Len(s)].is = "end"

LEMMA AnswerEnds ==
  ASSUME NEW m \in Models, NEW n \in Nat
  PROVE  Answer(m, n) \in Seq(Lines) /\ EndsWithEnd(Answer(m, n))
<1> DEFINE t == <<Row(m, n), Row(m, n), [is |-> "end"]>>
           b == Begin
<1>1. b \in Seq(Lines)
  BY LineTypes DEF Begin
<1>2. t \in Seq(Lines) /\ Len(t) = 3 /\ t[3].is = "end"
  BY LineTypes
<1>3. Answer(m, n) = b \o t
  BY DEF Answer
<1> HIDE DEF t, b
<1>4. /\ b \o t \in Seq(Lines) /\ Len(b \o t) = Len(b) + 3
      /\ Len(b) \in Nat /\ (b \o t)[Len(b) + 3] = t[3]
  <2>1. 3 \in 1..Len(t) /\ t \in Seq(Lines)
    BY <1>2
  <2>2. /\ b \o t \in Seq(Lines) /\ Len(b \o t) = Len(b) + Len(t) /\ Len(b) \in Nat
        /\ \A k \in 1..Len(t) : (b \o t)[Len(b) + k] = t[k]
    BY <1>1, <2>1, ConcatFacts
  <2> QED BY <1>2, <2>1, <2>2
<1>5. b \o t # <<>>
  BY <1>4
<1> QED BY <1>2, <1>3, <1>4, <1>5 DEF EndsWithEnd

LEMMA AnswerTypes ==
  ASSUME NEW m \in Models, NEW n \in Nat, NEW s \in Seq(Lines)
  PROVE  /\ s \o Answer(m, n) \in Seq(Lines)
         /\ \E k \in 1..Len(s \o Answer(m, n)) : (s \o Answer(m, n))[k].is \in {"end", "error"}
<1> DEFINE a == Answer(m, n)
<1>1. a \in Seq(Lines) /\ a # <<>> /\ a[Len(a)].is = "end"
  BY AnswerEnds DEF EndsWithEnd
<1> HIDE DEF a
<1>2. Len(a) \in 1..Len(a)
  BY <1>1
<1>3. /\ s \o a \in Seq(Lines) /\ Len(s) + Len(a) \in 1..Len(s \o a)
      /\ (s \o a)[Len(s) + Len(a)] = a[Len(a)]
  BY <1>1, <1>2, ConcatFacts
<1> QED BY <1>1, <1>3 DEF a

LEMMA AppendErrorTypes ==
  ASSUME NEW s \in Seq(Lines)
  PROVE  /\ Append(s, [is |-> "error"]) \in Seq(Lines)
         /\ \E k \in 1..Len(Append(s, [is |-> "error"])) :
               Append(s, [is |-> "error"])[k].is \in {"end", "error"}
<1> DEFINE t == Append(s, [is |-> "error"])
<1>1. t \in Seq(Lines) /\ Len(s) + 1 \in 1..Len(t) /\ t[Len(s) + 1] = [is |-> "error"]
  BY LineTypes
<1> QED BY <1>1

\* What was pending for a model still is, when neither its flag is set nor its
\* Task, its answers or the note of a loss go, and it does not come up again.
LEMMA PendingStays ==
  ASSUME Pending, UNCHANGED <<asking, answers, lostAnswer, roomListRequestInFlight>>,
         \A m \in Models : isShutDown[m] => isShutDown'[m]
  PROVE  Pending'
  BY DEF Pending, Answered

LEMMA SameListTypes ==
  ASSUME ListTypeOK, UNCHANGED listVars PROVE ListTypeOK'
  BY DEF ListTypeOK, listVars

LEMMA ElsewhereKeeps ==
  ASSUME Inv, NEW m \in Models, Elsewhere(m) PROVE Inv'
<1>1. ShellNext /\ UNCHANGED isShutDown /\ UNCHANGED listVars
  BY DEF Elsewhere, ShellNext, Starts, Networks, Reconnects, SetUp, Dial, DialEnds, LogsIn,
         RejectsNick, Announces, Reattempts, TimesOut
<1> QED BY <1>1, ShellKeeps, SameListTypes, PendingStays DEF Inv, listVars

LEMMA ListHandleKeeps ==
  ASSUME Inv, NEW m \in Models, ListHandle(m) PROVE Inv'
<1>1. ShellNext /\ UNCHANGED isShutDown /\ UNCHANGED listVars
  BY DEF ListHandle, ShellNext, Handle
<1> QED BY <1>1, ShellKeeps, SameListTypes, PendingStays DEF Inv, listVars

\* A cut either leaves all of the answers or is noted.
LEMMA CutsKeep ==
  ASSUME Inv, NEW m \in Models, Cuts(m), UNCHANGED isShutDown
  PROVE  ListTypeOK' /\ Pending'
<1>1. PICK k \in 0..Len(answers[m]) :
        /\ answers' = [answers EXCEPT ![m] = SubSeq(@, 1, k)]
        /\ lostAnswer' = [lostAnswer EXCEPT ![m] = @ \/ k < Len(answers[m])]
        /\ UNCHANGED <<roomListRequestInFlight, roomListAccum, asking, requests>>
  BY DEF Cuts
<1>2. answers[m] \in Seq(Lines) /\ answers \in [Models -> Seq(Lines)]
      /\ lostAnswer \in [Models -> BOOLEAN]
  BY DEF Inv, ListTypeOK
<1>3. SubSeq(answers[m], 1, k) \in Seq(Lines)
      /\ (k = Len(answers[m]) => SubSeq(answers[m], 1, k) = answers[m])
  BY <1>2
<1>4. ListTypeOK'
  BY <1>1, <1>2, <1>3 DEF Inv, ListTypeOK
<1>5. CASE k = Len(answers[m])
  <2>1. answers' = answers
    BY <1>1, <1>2, <1>3, <1>5
  <2>2. lostAnswer' = lostAnswer
    BY <1>1, <1>2, <1>5
  <2> QED BY <1>1, <1>4, <2>1, <2>2, PendingStays DEF Inv
<1>6. CASE k # Len(answers[m])
  <2>1. /\ lostAnswer'[m] = (lostAnswer[m] \/ k < Len(answers[m]))
        /\ \A n \in Models \ {m} :
              answers'[n] = answers[n] /\ lostAnswer'[n] = lostAnswer[n]
    BY <1>1, <1>2
  <2>3. k < Len(answers[m])
    BY <1>2, <1>6
  <2>4. lostAnswer'[m]
    BY <2>1, <2>3
  <2>2. Pending'
    BY <1>1, <2>1, <2>4 DEF Inv, Pending, Answered
  <2> QED BY <1>4, <2>2
<1> QED BY <1>5, <1>6

LEMMA ListDropsKeeps ==
  ASSUME Inv, NEW m \in Models, ListDrops(m) PROVE Inv'
<1>1. ShellNext /\ UNCHANGED isShutDown /\ Cuts(m)
  BY DEF ListDrops, ShellNext, Networks, Drops
<1> QED BY <1>1, ShellKeeps, CutsKeep DEF Inv

LEMMA ListGivesUpKeeps ==
  ASSUME Inv, NEW m \in Models, ListGivesUp(m) PROVE Inv'
<1>1. ShellNext /\ UNCHANGED isShutDown
  BY DEF ListGivesUp, ShellNext, Reconnects, GivesUp
<1>2. CASE Cuts(m)
  BY <1>1, <1>2, ShellKeeps, CutsKeep DEF Inv
<1>3. CASE UNCHANGED listVars
  BY <1>1, <1>3, ShellKeeps, SameListTypes, PendingStays DEF Inv, listVars
<1> QED BY <1>2, <1>3 DEF ListGivesUp

\* shutdown() is never undone.
LEMMA DownStaysDown ==
  ASSUME TypeOK, MainActs PROVE \A m \in Models : isShutDown[m] => isShutDown'[m]
<1>1. ASSUME ShutsDownCurrent PROVE \A m \in Models : isShutDown[m] => isShutDown'[m]
  BY <1>1 DEF ShutsDownCurrent, ShutsDown, TypeOK
<1>2. CASE Connect
  BY <1>1, <1>2 DEF Connect, TearsDownFirst
<1>3. CASE Disconnect
  BY <1>1, <1>3 DEF Disconnect
<1>4. CASE Deliver
  BY <1>1, <1>4 DEF Deliver
<1>5. ASSUME NEW n \in Models, Failed(n)
      PROVE  \A m \in Models : isShutDown[m] => isShutDown'[m]
  BY <1>5 DEF Failed, ShutsDown, TypeOK
<1> QED BY <1>2, <1>3, <1>4, <1>5 DEF MainActs

LEMMA ListMainActsKeeps ==
  ASSUME Inv, ListMainActs PROVE Inv'
<1>1. IInv' /\ MainActs
  BY ShellKeeps DEF Inv, ListMainActs, ShellNext
<1>2. \A m \in Models : isShutDown[m] => isShutDown'[m]
  BY <1>1, DownStaysDown DEF Inv, IInv
<1>3. /\ answers' = [m \in Models |-> IF isShutDown'[m] THEN <<>> ELSE answers[m]]
      /\ UNCHANGED <<roomListRequestInFlight, roomListAccum, asking, requests, lostAnswer>>
  BY DEF ListMainActs, DownDropsAnswers
<1>4. <<>> \in Seq(Lines)
  OBVIOUS
<1>5. ListTypeOK'
  BY <1>3, <1>4 DEF Inv, ListTypeOK
<1>6. Pending'
  BY <1>2, <1>3 DEF Inv, Pending, Answered
<1> QED BY <1>1, <1>5, <1>6 DEF Inv

-----------------------------------------------------------------------------
(* Requests and their answers.                                               *)

LEMMA RequestStartsKeeps ==
  ASSUME Inv, RequestStarts PROVE Inv'
<1>1. /\ model \in Models /\ UNCHANGED shellVars /\ UNCHANGED <<roomListAccum, answers>>
      /\ requests' = requests + 1 /\ requests < MaxRequests
      /\ roomListRequestInFlight' = [roomListRequestInFlight EXCEPT ![model] = TRUE]
      /\ asking' = [asking EXCEPT ![model] = @ + 1]
      /\ lostAnswer' = [lostAnswer EXCEPT ![model] = FALSE]
  BY DEF RequestStarts, Inv, IInv, TypeOK, Models
<1>2. TypeOK'
  BY <1>1 DEF Inv, IInv, TypeOK, shellVars, main, retry, engine, history
<1>3. IInv'
  BY <1>1, <1>2, QuietKeeps DEF Inv, shellVars, main, engine, history
<1>4. ListTypeOK'
  BY <1>1 DEF Inv, ListTypeOK
<1>5. Pending'
  <2>1. asking'[model] # 0
    BY <1>1 DEF Inv, ListTypeOK
  <2>2. \A m \in Models \ {model} :
          /\ roomListRequestInFlight'[m] = roomListRequestInFlight[m]
          /\ asking'[m] = asking[m] /\ lostAnswer'[m] = lostAnswer[m]
    BY <1>1 DEF Inv, ListTypeOK
  <2> QED BY <1>1, <2>1, <2>2 DEF Inv, Pending, Answered, shellVars
<1> QED BY <1>3, <1>4, <1>5 DEF Inv

\* A step of the lists leaves the shell alone, but for its mailbox and troubles.
LEMMA ShellStays ==
  ASSUME IInv,
         UNCHANGED <<main, stage, session, isShutDown, retry, stream, engine, history>>,
         mailbox' \in Seq(Letters), troubles' \in 0..MaxTroubles
  PROVE  IInv'
<1>1. TypeOK'
  BY DEF IInv, TypeOK, main, retry, engine, history
<1> QED BY <1>1, QuietKeeps DEF main, engine, history

LEMMA RequestSendsKeeps ==
  ASSUME Inv, NEW m \in Models, RequestSends(m) PROVE Inv'
<1>1. /\ asking[m] > 0 /\ asking' = [asking EXCEPT ![m] = @ - 1]
      /\ UNCHANGED <<shellButTroubles, roomListRequestInFlight, roomListAccum, requests>>
  BY DEF RequestSends
<1>2. requests \in Nat /\ answers[m] \in Seq(Lines) /\ answers \in [Models -> Seq(Lines)]
      /\ asking \in [Models -> Nat] /\ lostAnswer \in [Models -> BOOLEAN]
      /\ troubles \in 0..MaxTroubles /\ mailbox \in Seq(Letters)
  BY DEF Inv, IInv, TypeOK, ListTypeOK
<1>3. asking' \in [Models -> Nat] /\ \A n \in Models \ {m} : asking'[n] = asking[n]
  BY <1>1, <1>2
<1>4. ASSUME answers' \in [Models -> Seq(Lines)], lostAnswer' \in [Models -> BOOLEAN],
             troubles' \in 0..MaxTroubles,
             lostAnswer'[m] \/ Answered(m)',
             \A n \in Models \ {m} : answers'[n] = answers[n] /\ lostAnswer'[n] = lostAnswer[n]
      PROVE  Inv'
  <2>1. IInv'
    BY <1>1, <1>2, <1>4, ShellStays DEF Inv, shellButTroubles
  <2>2. ListTypeOK'
    BY <1>1, <1>3, <1>4 DEF Inv, ListTypeOK
  <2>3. Pending'
    BY <1>1, <1>3, <1>4 DEF Inv, Pending, Answered, shellButTroubles
  <2> QED BY <2>1, <2>2, <2>3 DEF Inv
<1>5. CASE /\ answers' = [answers EXCEPT ![m] = @ \o Answer(m, requests)]
           /\ UNCHANGED <<troubles, lostAnswer>>
  <2> DEFINE s == answers[m] \o Answer(m, requests)
  <2>1. s \in Seq(Lines) /\ \E k \in 1..Len(s) : s[k].is \in {"end", "error"}
    BY <1>2, AnswerTypes
  <2> HIDE DEF s
  <2>2. answers' = [answers EXCEPT ![m] = s]
    BY <1>5 DEF s
  <2>3. /\ answers' \in [Models -> Seq(Lines)] /\ answers'[m] = s
        /\ \A n \in Models \ {m} : answers'[n] = answers[n]
    BY <1>2, <2>1, <2>2
  <2>4. Answered(m)'
    BY <2>1, <2>3 DEF Answered
  <2> QED BY <1>2, <1>4, <1>5, <2>3, <2>4
<1>6. CASE /\ Troubles
           /\ answers' = [answers EXCEPT ![m] = Append(@, [is |-> "error"])]
           /\ UNCHANGED lostAnswer
  <2> DEFINE s == Append(answers[m], [is |-> "error"])
  <2>1. s \in Seq(Lines) /\ \E k \in 1..Len(s) : s[k].is \in {"end", "error"}
    BY <1>2, AppendErrorTypes
  <2> HIDE DEF s
  <2>2. answers' = [answers EXCEPT ![m] = s]
    BY <1>6 DEF s
  <2>3. /\ answers' \in [Models -> Seq(Lines)] /\ answers'[m] = s
        /\ \A n \in Models \ {m} : answers'[n] = answers[n]
    BY <1>2, <2>1, <2>2
  <2>4. Answered(m)'
    BY <2>1, <2>3 DEF Answered
  <2>5. troubles' \in 0..MaxTroubles
    BY <1>6, TroubleTypes DEF Inv, IInv
  <2> QED BY <1>2, <1>4, <1>6, <2>3, <2>4, <2>5
<1>7. CASE lostAnswer' = [lostAnswer EXCEPT ![m] = TRUE] /\ UNCHANGED <<answers, troubles>>
  BY <1>2, <1>4, <1>7
<1>8. CASE Troubles /\ lostAnswer' = [lostAnswer EXCEPT ![m] = TRUE] /\ UNCHANGED answers
  <2>1. troubles' \in 0..MaxTroubles
    BY <1>8, TroubleTypes DEF Inv, IInv
  <2> QED BY <1>2, <1>4, <1>8, <2>1
<1> QED BY <1>5, <1>6, <1>7, <1>8 DEF RequestSends

LEMMA ErrsKeeps ==
  ASSUME Inv, NEW m \in Models, Errs(m) PROVE Inv'
<1> DEFINE s == Append(answers[m], [is |-> "error"])
<1>1. answers \in [Models -> Seq(Lines)] /\ answers[m] \in Seq(Lines)
      /\ mailbox \in Seq(Letters)
  BY DEF Inv, IInv, TypeOK, ListTypeOK
<1>2. s \in Seq(Lines) /\ \E k \in 1..Len(s) : s[k].is \in {"end", "error"}
  BY <1>1, AppendErrorTypes
<1>3. /\ Troubles /\ answers' = [answers EXCEPT ![m] = s]
      /\ UNCHANGED <<shellButTroubles, roomListRequestInFlight, roomListAccum, asking,
                     requests, lostAnswer>>
  BY DEF Errs
<1> HIDE DEF s
<1>4. /\ answers' \in [Models -> Seq(Lines)] /\ answers'[m] = s
      /\ \A n \in Models \ {m} : answers'[n] = answers[n]
  BY <1>1, <1>2, <1>3
<1>5. IInv'
  BY <1>1, <1>3, TroubleTypes, ShellStays DEF Inv, IInv, shellButTroubles
<1>6. ListTypeOK'
  BY <1>3, <1>4 DEF Inv, ListTypeOK
<1>7. Pending'
  BY <1>2, <1>3, <1>4 DEF Inv, Pending, Answered, shellButTroubles
<1> QED BY <1>5, <1>6, <1>7 DEF Inv

\* The first of the lines that came is handled: unless it is an end or an error,
\* what answers the request is still to come.
LEMMA RestAnswers ==
  ASSUME NEW s \in Seq(Lines), s # <<>>, Head(s).is \notin {"end", "error"},
         NEW k \in 1..Len(s), s[k].is \in {"end", "error"}
  PROVE  \E i \in 1..Len(Tail(s)) : Tail(s)[i].is \in {"end", "error"}
<1>1. k # 1
  OBVIOUS
<1>2. k - 1 \in 1..Len(Tail(s)) /\ Tail(s)[k - 1] = s[k]
  BY <1>1
<1> QED BY <1>2

\* What HandlesLine() leaves of the accumulators, the flags and the mailbox.
LEMMA LineEffects ==
  ASSUME Inv, NEW m \in Models, NEW line \in Lines, HandlesLine(m, line)
  PROVE  /\ roomListAccum' \in [Models -> Accums] /\ mailbox' \in Seq(Letters)
         /\ \/ Frees(m)
            \/ line.is \notin {"end", "error"} /\ UNCHANGED roomListRequestInFlight
<1>1. /\ roomListAccum \in [Models -> Accums] /\ roomListAccum[m] \in Accums
      /\ roomListAccum[m].items \in Seq(Rows) /\ mailbox \in Seq(Letters)
  BY DEF Inv, IInv, TypeOK, ListTypeOK, Accums
<1>2. Closed \in Accums /\ [open |-> TRUE, items |-> <<>>] \in Accums
  BY DEF Closed, Accums
<1>3. CASE line.is = "begin" /\ ListBegins(m)
  BY <1>1, <1>2, <1>3 DEF ListBegins
<1>4. CASE line.is = "item" /\ ListAdds(m, line.row)
  <2>1. line.row \in Rows
    BY <1>4 DEF Lines
  <2>2. Append(roomListAccum[m].items, line.row) \in Seq(Rows)
    BY <1>1, <2>1
  <2>3. [roomListAccum[m] EXCEPT !.items = Append(@, line.row)] \in Accums
    BY <1>1, <2>2 DEF Accums
  <2> QED BY <1>1, <1>4, <2>3 DEF ListAdds
<1>5. CASE line.is = "end" /\ ListEnds(m)
  <2>1. [from |-> m, says |-> "roomList", rows |-> roomListAccum[m].items] \in Letters
    BY <1>1 DEF Letters
  <2> QED BY <1>1, <1>2, <1>5, <2>1 DEF ListEnds
<1>6. CASE line.is = "error" /\ ListErrs(m)
  BY <1>1, <1>6 DEF ListErrs
<1> QED BY <1>3, <1>4, <1>5, <1>6 DEF HandlesLine

LEMMA HandleListKeeps ==
  ASSUME Inv, NEW m \in Models, HandleList(m) PROVE Inv'
<1> DEFINE line == Head(answers[m])
           rest == Tail(answers[m])
<1>1. /\ answers[m] # <<>> /\ answers' = [answers EXCEPT ![m] = rest]
      /\ HandlesLine(m, line)
      /\ UNCHANGED <<main, stage, session, isShutDown, retry, stream, engine, troubles,
                     history, asking, requests, lostAnswer>>
  BY DEF HandleList
<1>2. /\ answers \in [Models -> Seq(Lines)] /\ answers[m] \in Seq(Lines)
      /\ roomListRequestInFlight \in [Models -> BOOLEAN] /\ troubles \in 0..MaxTroubles
  BY DEF Inv, IInv, TypeOK, ListTypeOK
<1>3. line \in Lines /\ rest \in Seq(Lines)
  BY <1>1, <1>2, FirstAndRest
<1>4. ASSUME Answered(m), line.is \notin {"end", "error"}
      PROVE  \E i \in 1..Len(rest) : rest[i].is \in {"end", "error"}
  BY <1>1, <1>2, <1>4, RestAnswers DEF Answered
<1> HIDE DEF line, rest
<1>5. /\ roomListAccum' \in [Models -> Accums] /\ mailbox' \in Seq(Letters)
      /\ \/ Frees(m)
         \/ line.is \notin {"end", "error"} /\ UNCHANGED roomListRequestInFlight
  BY <1>1, <1>3, LineEffects
<1>6. IInv'
  BY <1>1, <1>2, <1>5, ShellStays DEF Inv
<1>7. /\ answers' \in [Models -> Seq(Lines)] /\ answers'[m] = rest
      /\ \A n \in Models \ {m} : answers'[n] = answers[n]
  BY <1>1, <1>2, <1>3
<1>8. ListTypeOK'
  BY <1>1, <1>2, <1>5, <1>7 DEF Inv, ListTypeOK, Frees
<1>9. Pending'
  <2>1. CASE Frees(m)
    BY <1>1, <1>2, <1>7, <2>1 DEF Inv, Pending, Answered, Frees
  <2>2. CASE line.is \notin {"end", "error"} /\ UNCHANGED roomListRequestInFlight
    BY <1>1, <1>4, <1>7, <2>2 DEF Inv, Pending, Answered
  <2> QED BY <1>5, <2>1, <2>2
<1> QED BY <1>6, <1>8, <1>9 DEF Inv

LEMMA NextKeeps == Inv /\ [Next]_vars => Inv'
<1> SUFFICES ASSUME Inv, [Next]_vars PROVE Inv'
  OBVIOUS
<1>1. CASE UNCHANGED vars
  <2>1. TypeOK'
    BY <1>1 DEF Inv, IInv, TypeOK, vars, shellVars, main, retry, engine, history
  <2>2. IInv'
    BY <1>1, <2>1, QuietKeeps DEF Inv, vars, shellVars, main, engine, history
  <2> QED BY <1>1, <2>2, SameListTypes, PendingStays DEF Inv, vars, shellVars, listVars
<1> QED BY <1>1, ListMainActsKeeps, RequestStartsKeeps, RequestSendsKeeps, ErrsKeeps,
           HandleListKeeps, ListDropsKeeps, ListHandleKeeps, ListGivesUpKeeps,
           ElsewhereKeeps DEF Next

LEMMA Invariance == Spec => []Inv
  BY InitInv, NextKeeps, PTL DEF Spec

-----------------------------------------------------------------------------
(* Whole answers, whatever is handled, cut off or added behind.              *)

\* The k-th line of s ends an answer all of whose rows are there: in s, or already
\* in the accumulator.
AnswerEndsAt(m, n, a, s, k) ==
    \/ k >= 4 /\ s[k - 3].is = "begin" /\ s[k - 2] = Row(m, n) /\ s[k - 1] = Row(m, n)
    \/ /\ k <= 3 /\ a.open /\ Len(a.items) = 3 - k
       /\ \A i \in 1..Len(a.items) : a.items[i] = [of |-> m, list |-> n]
       /\ \A i \in 1..(k - 1) : s[i] = Row(m, n)

EndsWhole(m, a, s) ==
    \A k \in 1..Len(s) : s[k].is = "end" =>
        \E n \in 1..MaxRequests : AnswerEndsAt(m, n, a, s, k)

\* Without a beginning, no row is ever kept.
Gathers(m, a, s) ==
    /\ a.open \/ a.items = <<>>
    /\ IF AnnouncesList THEN EndsWhole(m, a, s)
                        ELSE ~a.open /\ \A k \in 1..Len(s) : s[k].is # "begin"

OwnList(m, rows) ==
    rows = <<>> \/ \E n \in 1..MaxRequests : rows = [k \in 1..2 |-> [of |-> m, list |-> n]]

\* u is s followed by t.
Joined(s, t, u) ==
    /\ Len(u) = Len(s) + Len(t) /\ Len(s) \in Nat
    /\ \A k \in 1..Len(t) : u[Len(s) + k] = t[k]
    /\ \A k \in 1..Len(s) : u[k] = s[k]

LEMMA ConcatIsJoined ==
  ASSUME NEW S, NEW s \in Seq(S), NEW t \in Seq(S)
  PROVE  s \o t \in Seq(S) /\ Joined(s, t, s \o t)
  BY ConcatFacts DEF Joined

LEMMA AnswerKept ==
  ASSUME NEW m, NEW n, NEW a, NEW s, NEW t, NEW k \in Nat \ {0},
         \A i \in 1..(k - 1) : t[i] = s[i], AnswerEndsAt(m, n, a, s, k)
  PROVE  AnswerEndsAt(m, n, a, t, k)
<1>1. CASE k >= 4 /\ s[k - 3].is = "begin" /\ s[k - 2] = Row(m, n) /\ s[k - 1] = Row(m, n)
  <2>1. k - 3 \in 1..(k - 1) /\ k - 2 \in 1..(k - 1) /\ k - 1 \in 1..(k - 1)
    BY <1>1
  <2> QED BY <1>1, <2>1 DEF AnswerEndsAt
<1>2. CASE /\ k <= 3 /\ a.open /\ Len(a.items) = 3 - k
           /\ \A i \in 1..Len(a.items) : a.items[i] = [of |-> m, list |-> n]
           /\ \A i \in 1..(k - 1) : s[i] = Row(m, n)
  <2>1. \A i \in 1..(k - 1) : t[i] = Row(m, n)
    BY <1>2
  <2> QED BY <1>2, <2>1 DEF AnswerEndsAt
<1> QED BY <1>1, <1>2 DEF AnswerEndsAt

\* What the first line of s was, if an answer ends after it and t is the rest.
Moved(m, n, a, s, t, k) ==
    \/ \A b : AnswerEndsAt(m, n, b, t, k)
    \/ k = 3 /\ s[1].is = "begin" /\ \A i \in 1..2 : t[i] = Row(m, n)
    \/ /\ k <= 2 /\ a.open /\ Len(a.items) = 2 - k /\ s[1] = Row(m, n)
       /\ \A i \in 1..Len(a.items) : a.items[i] = [of |-> m, list |-> n]
       /\ \A i \in 1..(k - 1) : t[i] = Row(m, n)

LEMMA AnswerMoves ==
  ASSUME NEW m, NEW n, NEW a, NEW s, NEW t, NEW k \in Nat \ {0},
         \A i \in 1..k : t[i] = s[i + 1], AnswerEndsAt(m, n, a, s, k + 1)
  PROVE  Moved(m, n, a, s, t, k)
<1> USE DEF Moved
<1>1. CASE k + 1 >= 4 /\ s[k - 2].is = "begin" /\ s[k - 1] = Row(m, n) /\ s[k] = Row(m, n)
  <2>1. CASE k >= 4
    <3>1. /\ k - 3 \in 1..k /\ k - 2 \in 1..k /\ k - 1 \in 1..k
          /\ k - 3 + 1 = k - 2 /\ k - 2 + 1 = k - 1 /\ k - 1 + 1 = k
      BY <2>1
    <3>2. t[k - 3].is = "begin" /\ t[k - 2] = Row(m, n) /\ t[k - 1] = Row(m, n)
      BY <1>1, <3>1
    <3> QED BY <2>1, <3>2 DEF AnswerEndsAt
  <2>2. CASE k = 3
    <3>1. s[1].is = "begin" /\ s[2] = Row(m, n) /\ s[3] = Row(m, n)
      BY <1>1, <2>2
    <3>2. t[1] = s[1 + 1] /\ t[2] = s[2 + 1]
      BY <2>2
    <3>3. \A i \in 1..2 : i = 1 \/ i = 2
      OBVIOUS
    <3> QED BY <2>2, <3>1, <3>2, <3>3
  <2> QED BY <1>1, <2>1, <2>2
<1>2. CASE /\ k + 1 <= 3 /\ a.open /\ Len(a.items) = 3 - (k + 1)
           /\ \A i \in 1..Len(a.items) : a.items[i] = [of |-> m, list |-> n]
           /\ \A i \in 1..k : s[i] = Row(m, n)
  <2>1. s[1] = Row(m, n) /\ k <= 2 /\ Len(a.items) = 2 - k
    BY <1>2
  <2>2. \A i \in 1..(k - 1) : t[i] = Row(m, n)
    <3> SUFFICES ASSUME NEW i \in 1..(k - 1) PROVE t[i] = Row(m, n)
      OBVIOUS
    <3>1. i \in 1..k /\ i + 1 \in 1..k
      OBVIOUS
    <3> QED BY <1>2, <3>1
  <2> QED BY <1>2, <2>1, <2>2
<1>3. /\ k + 1 - 3 = k - 2 /\ k + 1 - 2 = k - 1 /\ k + 1 - 1 = k
  OBVIOUS
<1> QED BY <1>1, <1>2, <1>3 DEF AnswerEndsAt

LEMMA GathersCut ==
  ASSUME NEW m \in Models, NEW a \in Accums, NEW s \in Seq(Lines), Gathers(m, a, s),
         NEW k \in 0..Len(s)
  PROVE  Gathers(m, a, SubSeq(s, 1, k))
<1> DEFINE t == SubSeq(s, 1, k)
<1>1. Len(t) = k /\ k <= Len(s) /\ \A i \in 1..k : t[i] = s[i]
  OBVIOUS
<1> HIDE DEF t
<1>2. CASE AnnouncesList
  <2>1. ASSUME NEW j \in 1..Len(t), t[j].is = "end"
        PROVE  \E n \in 1..MaxRequests : AnswerEndsAt(m, n, a, t, j)
    <3>1. PICK n \in 1..MaxRequests : AnswerEndsAt(m, n, a, s, j)
      BY <1>1, <1>2, <2>1 DEF Gathers, EndsWhole
    <3>2. AnswerEndsAt(m, n, a, t, j)
      BY <1>1, <2>1, <3>1, AnswerKept
    <3> QED BY <3>2
  <2> QED BY <1>2, <2>1 DEF Gathers, EndsWhole, t
<1>3. CASE ~AnnouncesList
  BY <1>1, <1>3 DEF Gathers, t
<1> QED BY <1>2, <1>3

LEMMA GathersAppended ==
  ASSUME NEW m \in Models, NEW a \in Accums, NEW s \in Seq(Lines), Gathers(m, a, s),
         NEW line \in Lines, line.is = "error"
  PROVE  Gathers(m, a, Append(s, line))
<1> DEFINE t == Append(s, line)
<1>1. /\ Len(t) = Len(s) + 1 /\ Len(s) \in Nat /\ \A i \in 1..Len(s) : t[i] = s[i]
      /\ t[Len(s) + 1] = line
  OBVIOUS
<1> HIDE DEF t
<1>2. CASE AnnouncesList
  <2>1. ASSUME NEW j \in 1..Len(t), t[j].is = "end"
        PROVE  \E n \in 1..MaxRequests : AnswerEndsAt(m, n, a, t, j)
    <3>0. j \in 1..Len(s)
      BY <1>1, <2>1
    <3>1. PICK n \in 1..MaxRequests : AnswerEndsAt(m, n, a, s, j)
      BY <1>1, <1>2, <2>1, <3>0 DEF Gathers, EndsWhole
    <3>2. AnswerEndsAt(m, n, a, t, j)
      BY <1>1, <3>0, <3>1, AnswerKept
    <3> QED BY <3>2
  <2> QED BY <1>2, <2>1 DEF Gathers, EndsWhole, t
<1>3. CASE ~AnnouncesList
  BY <1>1, <1>3 DEF Gathers, t
<1> QED BY <1>2, <1>3

LEMMA GathersAnswer ==
  ASSUME NEW m \in Models, NEW a \in Accums, NEW s \in Seq(Lines), Gathers(m, a, s),
         NEW n \in 1..MaxRequests
  PROVE  Gathers(m, a, s \o Answer(m, n))
<1> DEFINE b == Answer(m, n)
           t == s \o b
<1>1. n \in Nat
  OBVIOUS
<1>2. CASE AnnouncesList
  <2>1. /\ Len(b) = 4 /\ b[1].is = "begin" /\ b[2] = Row(m, n) /\ b[3] = Row(m, n)
    <3> DEFINE g == Begin
               c == <<Row(m, n), Row(m, n), [is |-> "end"]>>
    <3>1. g = <<[is |-> "begin"]>> /\ b = g \o c
      BY <1>2 DEF Begin, Answer
    <3>2. g \in Seq(Lines) /\ Len(g) = 1 /\ g[1].is = "begin"
      BY <3>1, LineTypes
    <3>3. c \in Seq(Lines) /\ Len(c) = 3 /\ c[1] = Row(m, n) /\ c[2] = Row(m, n)
      BY <1>1, LineTypes
    <3> HIDE DEF g, c, b
    <3>4. Joined(g, c, g \o c)
      BY <3>2, <3>3, ConcatIsJoined
    <3>5. 1 \in 1..1 /\ 1 \in 1..3 /\ 2 \in 1..3
      OBVIOUS
    <3> QED BY <3>1, <3>2, <3>3, <3>4, <3>5 DEF Joined
  <2>2. b \in Seq(Lines)
    BY <1>1, AnswerEnds
  <2>4. b[2].is # "end" /\ b[3].is # "end" /\ b[1].is # "end"
    BY <2>1 DEF Row
  <2> HIDE DEF b
  <2>5. /\ t \in Seq(Lines) /\ Len(t) = Len(s) + 4 /\ Len(s) \in Nat
        /\ \A k \in 1..4 : t[Len(s) + k] = b[k]
        /\ \A k \in 1..Len(s) : t[k] = s[k]
    <3>1. s \o b \in Seq(Lines) /\ Joined(s, b, s \o b)
      BY <2>2, ConcatIsJoined
    <3> QED BY <2>1, <3>1 DEF Joined
  <2> HIDE DEF t
  <2>6. ASSUME NEW j \in 1..Len(t), t[j].is = "end"
        PROVE  \E i \in 1..MaxRequests : AnswerEndsAt(m, i, a, t, j)
    <3>1. CASE j <= Len(s)
      <4>1. PICK i \in 1..MaxRequests : AnswerEndsAt(m, i, a, s, j)
        BY <1>2, <2>5, <2>6, <3>1 DEF Gathers, EndsWhole
      <4>2. j \in Nat \ {0} /\ \A k \in 1..(j - 1) : t[k] = s[k]
        BY <2>5, <3>1
      <4>3. AnswerEndsAt(m, i, a, t, j)
        BY <4>1, <4>2, AnswerKept
      <4> QED BY <4>3
    <3>2. CASE j > Len(s)
      <4>0. j = Len(s) + 1 \/ j = Len(s) + 2 \/ j = Len(s) + 3 \/ j = Len(s) + 4
        BY <2>5, <3>2
      <4>1. t[Len(s) + 1] = b[1] /\ t[Len(s) + 2] = b[2] /\ t[Len(s) + 3] = b[3]
        BY <2>5
      <4>2. j = Len(s) + 4
        BY <2>4, <2>6, <4>0, <4>1
      <4>3. j - 3 = Len(s) + 1 /\ j - 2 = Len(s) + 2 /\ j - 1 = Len(s) + 3 /\ j >= 4
        BY <2>5, <4>2
      <4>4. AnswerEndsAt(m, n, a, t, j)
        BY <2>1, <4>1, <4>3 DEF AnswerEndsAt
      <4> QED BY <4>4
    <3> QED BY <2>5, <3>1, <3>2
  <2> QED BY <1>2, <2>6 DEF Gathers, EndsWhole, t, b
<1>3. CASE ~AnnouncesList
  <2> DEFINE c == <<Row(m, n), Row(m, n), [is |-> "end"]>>
  <2>1. c \in Seq(Lines) /\ Len(c) = 3 /\ \A k \in 1..3 : c[k].is # "begin"
    <3>1. \A k \in 1..3 : k = 1 \/ k = 2 \/ k = 3
      OBVIOUS
    <3> QED BY <1>1, <3>1, LineTypes DEF Row
  <2>2. b = c
    <3>1. Begin = <<>>
      BY <1>3 DEF Begin
    <3>2. Begin \o c = c
      BY <2>1, <3>1
    <3> QED BY <3>2 DEF Answer
  <2> HIDE DEF b, c
  <2>3. /\ Len(t) = Len(s) + 3 /\ Len(s) \in Nat
        /\ \A k \in 1..3 : t[Len(s) + k] = c[k]
        /\ \A k \in 1..Len(s) : t[k] = s[k]
    <3>1. Joined(s, c, s \o c)
      BY <2>1, ConcatIsJoined
    <3> QED BY <2>1, <2>2, <3>1 DEF Joined
  <2> HIDE DEF t
  <2>4. ASSUME NEW k \in 1..Len(t) PROVE t[k].is # "begin"
    <3>1. CASE k <= Len(s)
      BY <1>3, <2>3, <3>1 DEF Gathers
    <3>2. CASE k > Len(s)
      <4>1. k - Len(s) \in 1..3 /\ Len(s) + (k - Len(s)) = k
        BY <2>3, <3>2
      <4>2. t[Len(s) + (k - Len(s))] = c[k - Len(s)]
        BY <2>3, <4>1
      <4> QED BY <2>1, <4>1, <4>2
    <3> QED BY <2>3, <3>1, <3>2
  <2> QED BY <1>3, <2>4 DEF Gathers, t, b
<1> QED BY <1>2, <1>3

\* The first line is handled.
LEMMA GathersLine ==
  ASSUME NEW m \in Models, NEW a \in Accums, NEW s \in Seq(Lines), s # <<>>, Gathers(m, a, s)
  PROVE  /\ Head(s).is = "begin" => Gathers(m, [open |-> TRUE, items |-> <<>>], Tail(s))
         /\ Head(s).is = "item" =>
               Gathers(m, IF a.open THEN [a EXCEPT !.items = Append(@, Head(s).row)] ELSE a,
                       Tail(s))
         /\ Head(s).is = "end" => Gathers(m, Closed, Tail(s)) /\ OwnList(m, a.items)
         /\ Head(s).is = "error" => Gathers(m, a, Tail(s))
<1> DEFINE t == Tail(s)
           b == [open |-> TRUE, items |-> <<>>]
           c == IF a.open THEN [a EXCEPT !.items = Append(@, Head(s).row)] ELSE a
<1>1. /\ s[1] = Head(s) /\ Len(t) = Len(s) - 1 /\ Len(s) \in Nat \ {0} /\ s[1] \in Lines
      /\ \A k \in 1..(Len(s) - 1) : t[k] = s[k + 1]
  OBVIOUS
<1>2. /\ a.items \in Seq(Rows) /\ a.open \in BOOLEAN
      /\ a = [open |-> a.open, items |-> a.items]
      /\ Len(a.items) \in Nat
  BY DEF Accums
<1>3. /\ s[1].is = "item" /\ a.open => /\ c.open /\ Len(c.items) = Len(a.items) + 1
                                       /\ c.items[Len(a.items) + 1] = s[1].row
                                       /\ \A i \in 1..Len(a.items) : c.items[i] = a.items[i]
      /\ ~a.open => c = a
  <2>1. s[1].is = "item" => s[1].row \in Rows
    BY <1>1 DEF Lines
  <2> QED BY <1>1, <1>2, <2>1
<1>4. b.open /\ b.items = <<>> /\ Len(b.items) = 0
  OBVIOUS
<1> HIDE DEF t, b, c
<1>5. CASE AnnouncesList
  <2>0. \A k \in 1..Len(s) : s[k].is = "end" =>
           \E n \in 1..MaxRequests : AnswerEndsAt(m, n, a, s, k)
    BY <1>5 DEF Gathers, EndsWhole
  <2>1. ASSUME s[1].is = "begin" PROVE EndsWhole(m, b, t)
    <3> SUFFICES ASSUME NEW k \in 1..Len(t), t[k].is = "end"
                 PROVE  \E n \in 1..MaxRequests : AnswerEndsAt(m, n, b, t, k)
      BY DEF EndsWhole
    <3>1. PICK n \in 1..MaxRequests : AnswerEndsAt(m, n, a, s, k + 1)
      BY <1>1, <2>0
    <3>2. AnswerEndsAt(m, n, b, t, k)
      <4>1. k \in Nat \ {0} /\ \A i \in 1..k : t[i] = s[i + 1]
        BY <1>1
      <4>2. \/ AnswerEndsAt(m, n, b, t, k)
            \/ k = 3 /\ \A i \in 1..2 : t[i] = Row(m, n)
        <5>1. Moved(m, n, a, s, t, k)
          BY <3>1, <4>1, AnswerMoves
        <5> QED BY <2>1, <5>1 DEF Moved, Row
      <4> QED BY <1>4, <4>2 DEF AnswerEndsAt
    <3> QED BY <3>2
  <2>2. ASSUME s[1].is = "item" PROVE EndsWhole(m, c, t)
    <3> SUFFICES ASSUME NEW k \in 1..Len(t), t[k].is = "end"
                 PROVE  \E n \in 1..MaxRequests : AnswerEndsAt(m, n, c, t, k)
      BY DEF EndsWhole
    <3>1. PICK n \in 1..MaxRequests : AnswerEndsAt(m, n, a, s, k + 1)
      BY <1>1, <2>0
    <3>2. AnswerEndsAt(m, n, c, t, k)
      <4>1. k \in Nat \ {0} /\ \A i \in 1..k : t[i] = s[i + 1]
        BY <1>1
      <4>2. \/ AnswerEndsAt(m, n, c, t, k)
            \/ /\ k <= 2 /\ a.open /\ Len(a.items) = 2 - k /\ s[1] = Row(m, n)
               /\ \A i \in 1..Len(a.items) : a.items[i] = [of |-> m, list |-> n]
               /\ \A i \in 1..(k - 1) : t[i] = Row(m, n)
        <5>1. Moved(m, n, a, s, t, k)
          BY <3>1, <4>1, AnswerMoves
        <5>2. s[1].is # "begin"
          BY <2>2
        <5> QED BY <5>1, <5>2 DEF Moved
      <4>3. CASE /\ k <= 2 /\ a.open /\ Len(a.items) = 2 - k /\ s[1] = Row(m, n)
                 /\ \A i \in 1..Len(a.items) : a.items[i] = [of |-> m, list |-> n]
                 /\ \A i \in 1..(k - 1) : t[i] = Row(m, n)
        <5>1. s[1].row = [of |-> m, list |-> n]
          BY <4>3 DEF Row
        <5>2. c.open /\ Len(c.items) = 3 - k
          BY <1>3, <2>2, <4>3
        <5>3. \A i \in 1..Len(c.items) : c.items[i] = [of |-> m, list |-> n]
          <6>1. c.items[Len(a.items) + 1] = [of |-> m, list |-> n]
            BY <1>3, <2>2, <4>3, <5>1
          <6>2. \A i \in 1..Len(a.items) : c.items[i] = a.items[i]
            BY <1>3, <2>2, <4>3
          <6>3. Len(c.items) = Len(a.items) + 1
            BY <1>3, <2>2, <4>3
          <6>4. \A i \in 1..Len(c.items) : i \in 1..Len(a.items) \/ i = Len(a.items) + 1
            BY <1>2, <6>3
          <6> QED BY <4>3, <6>1, <6>2, <6>4
        <5> QED BY <4>1, <4>3, <5>2, <5>3 DEF AnswerEndsAt
      <4> QED BY <4>2, <4>3
    <3> QED BY <3>2
  <2>3. ASSUME s[1].is = "end" PROVE EndsWhole(m, Closed, t) /\ OwnList(m, a.items)
    <3>1. EndsWhole(m, Closed, t)
      <4> SUFFICES ASSUME NEW k \in 1..Len(t), t[k].is = "end"
                   PROVE  \E n \in 1..MaxRequests : AnswerEndsAt(m, n, Closed, t, k)
        BY DEF EndsWhole
      <4>1. PICK n \in 1..MaxRequests : AnswerEndsAt(m, n, a, s, k + 1)
        BY <1>1, <2>0
      <4>2. AnswerEndsAt(m, n, Closed, t, k)
        <5>1. k \in Nat \ {0} /\ \A i \in 1..k : t[i] = s[i + 1]
          BY <1>1
        <5>2. Moved(m, n, a, s, t, k)
          BY <4>1, <5>1, AnswerMoves
        <5> QED BY <2>3, <5>2 DEF Moved, Row
      <4> QED BY <4>2
    <3>2. PICK n \in 1..MaxRequests : AnswerEndsAt(m, n, a, s, 1)
      BY <1>1, <2>0, <2>3
    <3>3. Len(a.items) = 2 /\ \A i \in 1..2 : a.items[i] = [of |-> m, list |-> n]
      BY <3>2 DEF AnswerEndsAt
    <3>4. a.items = [k \in 1..2 |-> [of |-> m, list |-> n]]
      BY <1>2, <3>3
    <3> QED BY <3>1, <3>4 DEF OwnList
  <2>4. ASSUME s[1].is = "error" PROVE EndsWhole(m, a, t)
    <3> SUFFICES ASSUME NEW k \in 1..Len(t), t[k].is = "end"
                 PROVE  \E n \in 1..MaxRequests : AnswerEndsAt(m, n, a, t, k)
      BY DEF EndsWhole
    <3>1. PICK n \in 1..MaxRequests : AnswerEndsAt(m, n, a, s, k + 1)
      BY <1>1, <2>0
    <3>2. AnswerEndsAt(m, n, a, t, k)
      <4>1. k \in Nat \ {0} /\ \A i \in 1..k : t[i] = s[i + 1]
        BY <1>1
      <4>2. Moved(m, n, a, s, t, k)
        BY <3>1, <4>1, AnswerMoves
      <4> QED BY <2>4, <4>2 DEF Moved, Row
    <3> QED BY <3>2
  <2> QED BY <1>1, <1>3, <1>4, <1>5, <2>1, <2>2, <2>3, <2>4 DEF Gathers, Closed, b, c, t
<1>6. CASE ~AnnouncesList
  <2>1. ~a.open /\ a.items = <<>> /\ \A k \in 1..Len(s) : s[k].is # "begin"
    BY <1>6 DEF Gathers
  <2>2. s[1].is # "begin" /\ \A k \in 1..Len(t) : t[k].is # "begin"
    BY <1>1, <2>1
  <2>3. c = a
    BY <1>3, <2>1
  <2> QED BY <1>1, <1>6, <2>1, <2>2, <2>3 DEF Gathers, Closed, OwnList, c, t
<1> QED BY <1>5, <1>6

-----------------------------------------------------------------------------
(* What is posted is whole.                                                  *)

Asked == \A m \in Models : asking[m] > 0 => requests > 0

EndsAreWhole == \A m \in Models : Gathers(m, roomListAccum[m], answers[m])

WholeLetter(l) == l.says = "roomList" => OwnList(l.from, l.rows)

PostsAreWhole ==
    /\ \E m \in Models : OwnList(m, roomList)
    /\ \A k \in 1..Len(mailbox) : WholeLetter(mailbox[k])

Whole == Asked /\ EndsAreWhole /\ PostsAreWhole

\* A post that is not a list, or none.
Says(m) ==
    \/ UNCHANGED mailbox
    \/ \E says \in Indications \cup {"rejected"} : Posts(m, says)

LEMMA PostedIs ==
  ASSUME NEW S, NEW s \in Seq(S), NEW l \in S
  PROVE  /\ Len(Append(s, l)) = Len(s) + 1 /\ Len(s) \in Nat
         /\ Append(s, l)[Len(s) + 1] = l
         /\ \A k \in 1..Len(s) : Append(s, l)[k] = s[k]
  OBVIOUS

LEMMA WholePosted ==
  ASSUME TypeOK, PostsAreWhole, NEW l \in Letters, WholeLetter(l),
         mailbox' = Append(mailbox, l), UNCHANGED roomList
  PROVE  PostsAreWhole'
<1>1. mailbox \in Seq(Letters)
  BY DEF TypeOK
<1>2. /\ Len(mailbox') = Len(mailbox) + 1 /\ Len(mailbox) \in Nat
      /\ mailbox'[Len(mailbox) + 1] = l
      /\ \A k \in 1..Len(mailbox) : mailbox'[k] = mailbox[k]
  BY <1>1
<1>3. ASSUME NEW k \in 1..Len(mailbox') PROVE WholeLetter(mailbox'[k])
  BY <1>2 DEF PostsAreWhole
<1> QED BY <1>3 DEF PostsAreWhole, WholeLetter

LEMMA SaysKeeps ==
  ASSUME TypeOK, PostsAreWhole, NEW m \in Models, Says(m), UNCHANGED roomList
  PROVE  PostsAreWhole'
<1>1. CASE UNCHANGED mailbox
  BY <1>1 DEF PostsAreWhole, WholeLetter
<1>2. ASSUME NEW says \in Indications \cup {"rejected"}, Posts(m, says)
      PROVE  PostsAreWhole'
  <2> DEFINE l == [from |-> m, says |-> says, rows |-> <<>>]
  <2>1. l \in Letters /\ WholeLetter(l)
    BY DEF Letters, WholeLetter, Indications
  <2>2. mailbox' = Append(mailbox, l)
    BY <1>2 DEF Posts
  <2> HIDE DEF l
  <2> QED BY <2>1, <2>2, WholePosted
<1> QED BY <1>1, <1>2 DEF Says

LEMMA ShellSays ==
  ASSUME NEW m \in Models, Starts(m) \/ Networks(m) \/ Handle(m) \/ Reconnects(m)
  PROVE  Says(m) /\ UNCHANGED <<model, made, reconnectState, roomList, isShutDown, overtaken>>
<1> USE DEF main, history, engine, retry
<1>1. CASE Starts(m)
  BY <1>1 DEF Starts, SetUp, Dial, DialEnds, Says
<1>2. CASE Networks(m)
  BY <1>2 DEF Networks, LogsIn, RejectsNick, Drops, Says
<1>3. CASE Handle(m)
  BY <1>3 DEF Handle, HandlesEvent, Says, Indications
<1>4. CASE Reconnects(m)
  BY <1>4 DEF Reconnects, Announces, Reattempts, TimesOut, GivesUp, Says, Indications
<1> QED BY <1>1, <1>2, <1>3, <1>4

\* One model's answers or accumulator are touched.
LEMMA OneGathers ==
  ASSUME EndsAreWhole, NEW m \in Models,
         \A n \in Models \ {m} :
            answers'[n] = answers[n] /\ roomListAccum'[n] = roomListAccum[n],
         Gathers(m, roomListAccum[m], answers[m])
            => Gathers(m, roomListAccum'[m], answers'[m])
  PROVE  EndsAreWhole'
<1>1. ASSUME NEW n \in Models PROVE Gathers(n, roomListAccum'[n], answers'[n])
  <2>1. CASE n = m
    BY <2>1 DEF EndsAreWhole
  <2>2. CASE n # m
    <3>1. answers'[n] = answers[n] /\ roomListAccum'[n] = roomListAccum[n]
      BY <2>2
    <3>2. Gathers(n, roomListAccum[n], answers[n])
      BY DEF EndsAreWhole
    <3> QED BY <3>1, <3>2
  <2> QED BY <2>1, <2>2
<1> QED BY <1>1 DEF EndsAreWhole, Gathers, EndsWhole, AnswerEndsAt

LEMMA NoneGathers ==
  ASSUME EndsAreWhole, UNCHANGED <<answers, roomListAccum>> PROVE EndsAreWhole'
  BY DEF EndsAreWhole, Gathers, EndsWhole, AnswerEndsAt

LEMMA GathersNothing ==
  ASSUME NEW m \in Models, NEW a \in Accums, NEW s \in Seq(Lines), Gathers(m, a, s)
  PROVE  Gathers(m, a, <<>>)
  BY DEF Gathers, EndsWhole

LEMMA CutsWhole ==
  ASSUME Inv, Whole, NEW m \in Models, Cuts(m), Says(m), UNCHANGED roomList PROVE Whole'
<1>1. PICK k \in 0..Len(answers[m]) :
        /\ answers' = [answers EXCEPT ![m] = SubSeq(@, 1, k)]
        /\ UNCHANGED <<roomListAccum, asking, requests>>
  BY DEF Cuts
<1>2. /\ answers[m] \in Seq(Lines) /\ answers \in [Models -> Seq(Lines)]
      /\ roomListAccum[m] \in Accums
  BY DEF Inv, ListTypeOK
<1> DEFINE s == SubSeq(answers[m], 1, k)
<1>3. Gathers(m, roomListAccum[m], answers[m]) => Gathers(m, roomListAccum[m], s)
  BY <1>2, GathersCut
<1>4. answers' = [answers EXCEPT ![m] = s]
  BY <1>1
<1> HIDE DEF s
<1>5. answers'[m] = s /\ \A n \in Models \ {m} : answers'[n] = answers[n]
  BY <1>2, <1>4
<1>6. EndsAreWhole'
  BY <1>1, <1>3, <1>5, OneGathers DEF Whole
<1>7. PostsAreWhole'
  BY SaysKeeps DEF Whole, Inv, IInv
<1>8. Asked'
  BY <1>1 DEF Whole, Asked
<1> QED BY <1>6, <1>7, <1>8 DEF Whole

LEMMA QuietWhole ==
  ASSUME Inv, Whole, NEW m \in Models, Says(m), UNCHANGED roomList, UNCHANGED listVars
  PROVE  Whole'
<1>1. PostsAreWhole'
  BY SaysKeeps DEF Whole, Inv, IInv
<1>2. EndsAreWhole' /\ Asked'
  BY NoneGathers DEF Whole, Asked, listVars
<1> QED BY <1>1, <1>2 DEF Whole

LEMMA ElsewhereWhole ==
  ASSUME Inv, Whole, NEW m \in Models,
         Elsewhere(m) \/ ListDrops(m) \/ ListHandle(m) \/ ListGivesUp(m)
  PROVE  Whole'
<1>1. Starts(m) \/ Networks(m) \/ Handle(m) \/ Reconnects(m)
  BY DEF Elsewhere, ListDrops, ListHandle, ListGivesUp, Networks, Reconnects
<1>2. Says(m) /\ UNCHANGED roomList
  BY <1>1, ShellSays
<1>3. Cuts(m) \/ UNCHANGED listVars
  BY DEF Elsewhere, ListDrops, ListHandle, ListGivesUp
<1> QED BY <1>2, <1>3, CutsWhole, QuietWhole

LEMMA MainActsWhole ==
  ASSUME Inv, Whole, ListMainActs PROVE Whole'
<1>1. /\ answers' = [m \in Models |-> IF isShutDown'[m] THEN <<>> ELSE answers[m]]
      /\ UNCHANGED <<roomListAccum, asking, requests>> /\ MainActs
  BY DEF ListMainActs, DownDropsAnswers
<1>2. ASSUME NEW m \in Models PROVE Gathers(m, roomListAccum'[m], answers'[m])
  <2>1. /\ roomListAccum[m] \in Accums /\ answers[m] \in Seq(Lines)
        /\ Gathers(m, roomListAccum[m], answers[m])
    BY DEF Inv, ListTypeOK, Whole, EndsAreWhole
  <2>2. Gathers(m, roomListAccum[m], <<>>)
    BY <2>1, GathersNothing
  <2>3. answers'[m] = <<>> \/ answers'[m] = answers[m]
    BY <1>1
  <2> QED BY <1>1, <2>1, <2>2, <2>3
<1>3. EndsAreWhole'
  BY <1>2 DEF EndsAreWhole, Gathers, EndsWhole, AnswerEndsAt
<1>4. PostsAreWhole'
  <2>1. \A rows : rows = <<>> => \E m \in Models : OwnList(m, rows)
    <3>1. 1 \in Models
      BY DEF Models
    <3> QED BY <3>1 DEF OwnList
  <2>2. ASSUME UNCHANGED mailbox, roomList' = <<>> \/ UNCHANGED roomList
        PROVE  PostsAreWhole'
    <3>1. \E m \in Models : OwnList(m, roomList')
      BY <2>1, <2>2 DEF Whole, PostsAreWhole
    <3> QED BY <2>2, <3>1 DEF Whole, PostsAreWhole, OwnList, WholeLetter
  <2>3. CASE Connect \/ Disconnect
    BY <2>2, <2>3 DEF Connect, Disconnect, Clears
  <2>4. ASSUME NEW m \in Models, Failed(m) PROVE PostsAreWhole'
    BY <2>2, <2>4 DEF Failed
  <2>5. CASE Deliver
    <3> DEFINE l == Head(mailbox)
               rest == Tail(mailbox)
    <3>1. /\ mailbox # <<>> /\ mailbox' = rest
          /\ IF l.says = "rejected" THEN Clears
             ELSE IF l.says = "roomList" THEN roomList' = l.rows ELSE UNCHANGED roomList
      BY <2>5 DEF Deliver
    <3>2. mailbox \in Seq(Letters)
      BY DEF Inv, IInv, TypeOK
    <3>3. /\ l = mailbox[1] /\ 1 \in 1..Len(mailbox) /\ l \in Letters
          /\ Len(rest) = Len(mailbox) - 1 /\ Len(mailbox) \in Nat
          /\ \A k \in 1..Len(rest) : rest[k] = mailbox[k + 1]
      BY <3>1, <3>2
    <3> HIDE DEF l, rest
    <3>4. WholeLetter(l) /\ \A k \in 1..Len(mailbox) : WholeLetter(mailbox[k])
      BY <3>3 DEF Whole, PostsAreWhole
    <3>5. \A k \in 1..Len(rest) : WholeLetter(rest[k])
      BY <3>3, <3>4
    <3>6. \E m \in Models : OwnList(m, roomList')
      <4>1. CASE l.says = "rejected"
        BY <2>1, <3>1, <4>1 DEF Clears
      <4>2. CASE l.says = "roomList"
        <5>1. l.from \in Models
          BY <3>3 DEF Letters
        <5> QED BY <3>1, <3>4, <4>2, <5>1 DEF WholeLetter
      <4>3. CASE l.says # "rejected" /\ l.says # "roomList"
        BY <3>1, <4>3 DEF Whole, PostsAreWhole
      <4> QED BY <4>1, <4>2, <4>3
    <3> QED BY <3>1, <3>5, <3>6 DEF PostsAreWhole, WholeLetter, OwnList
  <2> QED BY <1>1, <2>3, <2>4, <2>5 DEF MainActs
<1>5. Asked'
  BY <1>1 DEF Whole, Asked
<1> QED BY <1>3, <1>4, <1>5 DEF Whole

LEMMA RequestStartsWhole ==
  ASSUME Inv, Whole, RequestStarts PROVE Whole'
<1>1. /\ UNCHANGED <<roomListAccum, answers, mailbox, roomList>>
      /\ requests' = requests + 1 /\ requests \in Nat
  BY DEF RequestStarts, shellVars, main, Inv, ListTypeOK
<1>2. EndsAreWhole'
  BY <1>1, NoneGathers DEF Whole
<1>3. PostsAreWhole'
  BY <1>1 DEF Whole, PostsAreWhole, WholeLetter, OwnList
<1>4. Asked'
  BY <1>1 DEF Asked
<1> QED BY <1>2, <1>3, <1>4 DEF Whole

LEMMA ErrorGathers ==
  ASSUME Inv, Whole, NEW m \in Models, UNCHANGED roomListAccum,
         answers' = [answers EXCEPT ![m] = Append(@, [is |-> "error"])]
  PROVE  EndsAreWhole'
<1> DEFINE s == Append(answers[m], [is |-> "error"])
<1>1. /\ answers[m] \in Seq(Lines) /\ answers \in [Models -> Seq(Lines)]
      /\ roomListAccum[m] \in Accums /\ [is |-> "error"] \in Lines
  BY LineTypes DEF Inv, ListTypeOK
<1>2. Gathers(m, roomListAccum[m], answers[m]) => Gathers(m, roomListAccum[m], s)
  BY <1>1, GathersAppended
<1>3. answers' = [answers EXCEPT ![m] = s]
  OBVIOUS
<1> HIDE DEF s
<1>4. answers'[m] = s /\ \A n \in Models \ {m} : answers'[n] = answers[n]
  BY <1>1, <1>3
<1> QED BY <1>2, <1>4, OneGathers DEF Whole

LEMMA RequestSendsWhole ==
  ASSUME Inv, Whole, NEW m \in Models, RequestSends(m) PROVE Whole'
<1>1. /\ asking[m] > 0 /\ asking' = [asking EXCEPT ![m] = @ - 1]
      /\ UNCHANGED <<roomListAccum, requests, mailbox, roomList>>
  BY DEF RequestSends, shellButTroubles, main
<1>2. /\ requests \in 0..MaxRequests /\ asking \in [Models -> Nat]
      /\ answers[m] \in Seq(Lines) /\ answers \in [Models -> Seq(Lines)]
      /\ roomListAccum[m] \in Accums
  BY DEF Inv, ListTypeOK
<1>3. requests \in 1..MaxRequests
  BY <1>1, <1>2 DEF Whole, Asked
<1>4. Asked'
  BY <1>1, <1>3 DEF Asked
<1>5. PostsAreWhole'
  BY <1>1 DEF Whole, PostsAreWhole, WholeLetter, OwnList
<1>6. EndsAreWhole'
  <2>1. CASE UNCHANGED answers
    BY <1>1, <2>1, NoneGathers DEF Whole
  <2>2. CASE answers' = [answers EXCEPT ![m] = Append(@, [is |-> "error"])]
    BY <1>1, <2>2, ErrorGathers
  <2>3. CASE answers' = [answers EXCEPT ![m] = @ \o Answer(m, requests)]
    <3> DEFINE s == answers[m] \o Answer(m, requests)
    <3>1. Gathers(m, roomListAccum[m], answers[m]) => Gathers(m, roomListAccum[m], s)
      BY <1>2, <1>3, GathersAnswer
    <3>2. answers' = [answers EXCEPT ![m] = s]
      BY <2>3
    <3> HIDE DEF s
    <3>3. answers'[m] = s /\ \A n \in Models \ {m} : answers'[n] = answers[n]
      BY <1>2, <3>2
    <3> QED BY <1>1, <3>1, <3>3, OneGathers DEF Whole
  <2> QED BY <2>1, <2>2, <2>3 DEF RequestSends
<1> QED BY <1>4, <1>5, <1>6 DEF Whole

LEMMA ErrsWhole ==
  ASSUME Inv, Whole, NEW m \in Models, Errs(m) PROVE Whole'
<1>1. /\ answers' = [answers EXCEPT ![m] = Append(@, [is |-> "error"])]
      /\ UNCHANGED <<roomListAccum, asking, requests, mailbox, roomList>>
  BY DEF Errs, shellButTroubles, main
<1>2. EndsAreWhole'
  BY <1>1, ErrorGathers
<1>3. PostsAreWhole'
  BY <1>1 DEF Whole, PostsAreWhole, WholeLetter, OwnList
<1>4. Asked'
  BY <1>1 DEF Whole, Asked
<1> QED BY <1>2, <1>3, <1>4 DEF Whole

LEMMA HandleListWhole ==
  ASSUME Inv, Whole, NEW m \in Models, HandleList(m) PROVE Whole'
<1> DEFINE s == answers[m]
           a == roomListAccum[m]
           added == IF a.open THEN [a EXCEPT !.items = Append(@, Head(s).row)] ELSE a
           begun == [open |-> TRUE, items |-> <<>>]
<1>1. /\ s # <<>> /\ answers' = [answers EXCEPT ![m] = Tail(s)]
      /\ HandlesLine(m, Head(s))
      /\ UNCHANGED <<roomList, asking, requests>>
  BY DEF HandleList, main
<1>2. /\ s \in Seq(Lines) /\ answers \in [Models -> Seq(Lines)]
      /\ a \in Accums /\ roomListAccum \in [Models -> Accums] /\ a.items \in Seq(Rows)
      /\ Gathers(m, a, s) /\ TypeOK /\ PostsAreWhole
  BY DEF Inv, IInv, ListTypeOK, Whole, EndsAreWhole, Accums
<1>3. /\ Head(s).is = "begin" => Gathers(m, begun, Tail(s))
      /\ Head(s).is = "item" => Gathers(m, added, Tail(s))
      /\ Head(s).is = "end" => Gathers(m, Closed, Tail(s)) /\ OwnList(m, a.items)
      /\ Head(s).is = "error" => Gathers(m, a, Tail(s))
  BY <1>1, <1>2, GathersLine
<1>4. CASE Head(s).is = "begin" /\ ListBegins(m)
  <2>1. roomListAccum' = [roomListAccum EXCEPT ![m] = begun] /\ UNCHANGED mailbox
    BY <1>4 DEF ListBegins
  <2>2. Gathers(m, begun, Tail(s))
    BY <1>3, <1>4
  <2> HIDE DEF begun
  <2>3. EndsAreWhole'
    BY <1>1, <1>2, <2>1, <2>2, OneGathers DEF Whole
  <2> QED BY <1>1, <2>1, <2>3 DEF Whole, Asked, PostsAreWhole, WholeLetter, OwnList
<1>5. CASE Head(s).is = "item" /\ ListAdds(m, Head(s).row)
  <2>1. /\ roomListAccum' = IF a.open
                            THEN [roomListAccum EXCEPT ![m].items = Append(@, Head(s).row)]
                            ELSE roomListAccum
        /\ UNCHANGED mailbox
    BY <1>5 DEF ListAdds
  <2>2. Gathers(m, added, Tail(s))
    BY <1>3, <1>5
  <2>3. roomListAccum' = [roomListAccum EXCEPT ![m] = added]
    BY <1>2, <2>1
  <2> HIDE DEF added
  <2>4. EndsAreWhole'
    BY <1>1, <1>2, <2>2, <2>3, OneGathers DEF Whole
  <2> QED BY <1>1, <2>1, <2>4 DEF Whole, Asked, PostsAreWhole, WholeLetter, OwnList
<1>6. CASE Head(s).is = "end" /\ ListEnds(m)
  <2> DEFINE l == [from |-> m, says |-> "roomList", rows |-> a.items]
  <2>1. /\ roomListAccum' = [roomListAccum EXCEPT ![m] = Closed]
        /\ mailbox' = Append(mailbox, l)
    BY <1>6 DEF ListEnds
  <2>2. Gathers(m, Closed, Tail(s)) /\ OwnList(m, a.items)
    BY <1>3, <1>6
  <2>3. l \in Letters /\ WholeLetter(l)
    BY <1>2, <2>2 DEF Letters, WholeLetter
  <2> HIDE DEF l
  <2>4. EndsAreWhole'
    BY <1>1, <1>2, <2>1, <2>2, OneGathers DEF Whole
  <2>5. PostsAreWhole'
    BY <1>1, <1>2, <2>1, <2>3, WholePosted
  <2> QED BY <1>1, <2>4, <2>5 DEF Whole, Asked
<1>7. CASE Head(s).is = "error" /\ ListErrs(m)
  <2>1. UNCHANGED <<roomListAccum, mailbox>> /\ Gathers(m, a, Tail(s))
    BY <1>3, <1>7 DEF ListErrs
  <2>2. EndsAreWhole'
    BY <1>1, <1>2, <2>1, OneGathers DEF Whole
  <2> QED BY <1>1, <2>1, <2>2 DEF Whole, Asked, PostsAreWhole, WholeLetter, OwnList
<1> QED BY <1>1, <1>4, <1>5, <1>6, <1>7 DEF HandlesLine

LEMMA WholeStays == Inv /\ Whole /\ [Next]_vars => Whole'
<1> SUFFICES ASSUME Inv, Whole, [Next]_vars PROVE Whole'
  OBVIOUS
<1>1. CASE UNCHANGED vars
  <2>1. EndsAreWhole'
    BY <1>1, NoneGathers DEF Whole, vars, listVars
  <2> QED BY <1>1, <2>1 DEF Whole, Asked, PostsAreWhole, WholeLetter, OwnList, vars, listVars,
                            shellVars, main
<1> QED BY <1>1, MainActsWhole, RequestStartsWhole, RequestSendsWhole, ErrsWhole,
           HandleListWhole, ElsewhereWhole DEF Next

LEMMA InitWhole == ListInit => Whole
<1> SUFFICES ASSUME ListInit PROVE Whole
  OBVIOUS
<1>1. 1 \in Models
  BY DEF Models
<1>2. PostsAreWhole
  BY <1>1 DEF ListInit, Init, PostsAreWhole, OwnList
<1>3. EndsAreWhole /\ Asked
  BY DEF ListInit, EndsAreWhole, Gathers, EndsWhole, Closed, Asked
<1> QED BY <1>2, <1>3 DEF Whole

LEMMA WholeAlways == Spec => []Whole
  BY InitWhole, WholeStays, Invariance, PTL DEF Spec

-----------------------------------------------------------------------------
(* Nothing of a model arrives before it is started.                          *)

\* Nothing has come of a model before its start() is over.
Untold ==
    \A m \in Models :
        /\ session[m] = "dialling" => stage[m] = "dial"
        /\ stage[m] # "done" =>
              /\ session[m] \notin {"socket", "up", "lost"}
              /\ stream[m] = <<>> /\ answers[m] = <<>>
              /\ ~isReconnecting[m] /\ loop[m] = "none"
              /\ \A k \in 1..Len(mailbox) : mailbox[k].from # m

\* Of a model that is shut down nothing more comes than what was posted.
LEMMA DownUntold ==
  ASSUME Inv, Untold, NEW m \in Models, ShutsDown(m)
  PROVE  \A n \in Models :
            /\ session'[n] = "dialling" => stage[n] = "dial"
            /\ stage[n] # "done" =>
                  /\ session'[n] \notin {"socket", "up", "lost"}
                  /\ stream'[n] = <<>>
                  /\ ~isReconnecting'[n] /\ loop'[n] = "none"
<1>1. /\ isReconnecting' = [isReconnecting EXCEPT ![m] = FALSE]
      /\ loop' = [loop EXCEPT ![m] = IF @ = "head" THEN "head" ELSE "none"]
      /\ stream' = [stream EXCEPT ![m] = <<>>]
      /\ session' = [session EXCEPT ![m] = "closed"]
  BY DEF ShutsDown, Ends, Disconnects
<1> QED BY <1>1 DEF Inv, IInv, TypeOK, Untold

LEMMA CurrentUntold ==
  ASSUME Inv, Untold, ShutsDownCurrent
  PROVE  \A n \in Models :
            /\ session'[n] = "dialling" => stage[n] = "dial"
            /\ stage[n] # "done" =>
                  /\ session'[n] \notin {"socket", "up", "lost"}
                  /\ stream'[n] = <<>>
                  /\ ~isReconnecting'[n] /\ loop'[n] = "none"
<1>1. CASE model = 0
  BY <1>1 DEF ShutsDownCurrent, Untold, retry
<1>2. CASE model # 0
  <2>1. model \in Models
    BY <1>2 DEF Inv, IInv, TypeOK, Models
  <2> QED BY <1>2, <2>1, DownUntold DEF ShutsDownCurrent
<1> QED BY <1>1, <1>2

LEMMA MainActsUntold ==
  ASSUME Inv, Untold, ListMainActs PROVE Untold'
<1>1. MainActs /\ answers' = [m \in Models |-> IF isShutDown'[m] THEN <<>> ELSE answers[m]]
  BY DEF ListMainActs, DownDropsAnswers
<1>2. \A m \in Models : answers[m] = <<>> => answers'[m] = <<>>
  BY <1>1
<1>3. CASE Connect
  <2>1. /\ ShutsDownCurrent /\ UNCHANGED mailbox /\ made + 1 \in Models
        /\ stage' = [stage EXCEPT ![made + 1] = "start"]
    BY <1>3 DEF Connect, TearsDownFirst, Inv, IInv, TypeOK, Models
  <2>2. stage[made + 1] = "none"
    BY <2>1 DEF Inv, IInv, Fresh, TypeOK
  <2>3. \A n \in Models : /\ stage[n] # "done" <=> stage'[n] # "done"
                          /\ stage[n] = "dial" => stage'[n] = "dial"
    BY <2>1, <2>2 DEF Inv, IInv, TypeOK
  <2> QED BY <1>2, <2>1, <2>3, CurrentUntold DEF Untold
<1>4. CASE Disconnect
  <2>1. ShutsDownCurrent /\ UNCHANGED <<mailbox, stage>>
    BY <1>4 DEF Disconnect
  <2> QED BY <1>2, <2>1, CurrentUntold DEF Untold
<1>5. CASE Deliver
  <2>1. /\ \A n \in Models :
            /\ session'[n] = "dialling" => stage[n] = "dial"
            /\ stage[n] # "done" =>
                  /\ session'[n] \notin {"socket", "up", "lost"}
                  /\ stream'[n] = <<>>
                  /\ ~isReconnecting'[n] /\ loop'[n] = "none"
        /\ UNCHANGED stage /\ mailbox' = Tail(mailbox) /\ mailbox # <<>>
    <3>1. ShutsDownCurrent \/ UNCHANGED <<retry, stream, session>>
      BY <1>5 DEF Deliver
    <3>2. UNCHANGED stage /\ mailbox' = Tail(mailbox) /\ mailbox # <<>>
      BY <1>5 DEF Deliver
    <3> QED BY <3>1, <3>2, CurrentUntold DEF Untold, retry
  <2>2. /\ Len(mailbox) \in Nat /\ Len(mailbox') = Len(mailbox) - 1
        /\ \A k \in 1..Len(mailbox') : mailbox'[k] = mailbox[k + 1]
    <3>1. mailbox \in Seq(Letters)
      BY DEF Inv, IInv, TypeOK
    <3> QED BY <2>1, <3>1
  <2>3. ASSUME NEW n \in Models, stage[n] # "done", NEW k \in 1..Len(mailbox')
        PROVE  mailbox'[k].from # n
    <3>1. k + 1 \in 1..Len(mailbox)
      BY <2>2
    <3> QED BY <2>2, <2>3, <3>1 DEF Untold
  <2> QED BY <1>2, <2>1, <2>3 DEF Untold
<1>6. ASSUME NEW m \in Models, Failed(m) PROVE Untold'
  <2>1. /\ stage[m] = "failed" /\ stage' = [stage EXCEPT ![m] = "done"]
        /\ ShutsDown(m) /\ UNCHANGED mailbox
    BY <1>6 DEF Failed
  <2>2. session'[m] = "closed"
    BY <2>1 DEF ShutsDown, Disconnects, Inv, IInv, TypeOK
  <2>3. \A n \in Models : n # m => stage'[n] = stage[n]
    BY <2>1
  <2>4. stage'[m] = "done"
    BY <2>1 DEF Inv, IInv, TypeOK
  <2> QED BY <1>2, <2>1, <2>2, <2>3, <2>4, DownUntold DEF Untold
<1> QED BY <1>1, <1>3, <1>4, <1>5, <1>6 DEF MainActs

LEMMA PostUntold ==
  ASSUME TypeOK, NEW m \in Models, NEW n \in Models, n # m, Says(m),
         \A k \in 1..Len(mailbox) : mailbox[k].from # n
  PROVE  \A k \in 1..Len(mailbox') : mailbox'[k].from # n
<1>1. CASE UNCHANGED mailbox
  BY <1>1
<1>2. ASSUME NEW says \in Indications \cup {"rejected"}, Posts(m, says)
      PROVE  \A k \in 1..Len(mailbox') : mailbox'[k].from # n
  <2> DEFINE l == [from |-> m, says |-> says, rows |-> <<>>]
  <2>1. l \in Letters /\ l.from # n
    BY DEF Letters
  <2>2. mailbox' = Append(mailbox, l) /\ mailbox \in Seq(Letters)
    BY <1>2 DEF Posts, TypeOK
  <2> HIDE DEF l
  <2>3. /\ Len(mailbox') = Len(mailbox) + 1 /\ Len(mailbox) \in Nat
        /\ mailbox'[Len(mailbox) + 1] = l
        /\ \A k \in 1..Len(mailbox) : mailbox'[k] = mailbox[k]
    BY <2>1, <2>2, PostedIs
  <2> QED BY <2>1, <2>3
<1> QED BY <1>1, <1>2 DEF Says

\* What the other models do is not told in the name of one that is being started.
LEMMA OthersUntold ==
  ASSUME Inv, Untold, NEW m \in Models, NEW n \in Models, n # m, stage[n] # "done",
         Elsewhere(m) \/ ListDrops(m) \/ ListHandle(m) \/ ListGivesUp(m)
  PROVE  /\ stage'[n] = stage[n] /\ session'[n] = session[n] /\ stream'[n] = stream[n]
         /\ answers'[n] = answers[n]
         /\ isReconnecting'[n] = isReconnecting[n] /\ loop'[n] = loop[n]
         /\ \A k \in 1..Len(mailbox') : mailbox'[k].from # n
<1>1. Starts(m) \/ Networks(m) \/ Handle(m) \/ Reconnects(m)
  BY DEF Elsewhere, ListDrops, ListHandle, ListGivesUp, Networks, Reconnects
<1>2. answers'[n] = answers[n]
  <2>1. Cuts(m) \/ UNCHANGED listVars
    BY DEF Elsewhere, ListDrops, ListHandle, ListGivesUp
  <2> QED BY <2>1 DEF Cuts, listVars, Inv, ListTypeOK
<1>3. \A k \in 1..Len(mailbox') : mailbox'[k].from # n
  BY <1>1, ShellSays, PostUntold DEF Inv, IInv, Untold
<1>4. /\ stage'[n] = stage[n] /\ session'[n] = session[n] /\ stream'[n] = stream[n]
      /\ isReconnecting'[n] = isReconnecting[n] /\ loop'[n] = loop[n]
  <2> USE DEF retry, Inv, IInv, TypeOK
  <2>1. CASE Starts(m)
    BY <2>1 DEF Starts, SetUp, Dial, DialEnds
  <2>2. CASE Networks(m)
    BY <2>2 DEF Networks, LogsIn, RejectsNick, Drops, Yields
  <2>3. CASE Handle(m)
    BY <2>3 DEF Handle, HandlesEvent, Ends
  <2>4. CASE Reconnects(m)
    BY <2>4 DEF Reconnects, Announces, Reattempts, TimesOut, GivesUp, Yields, Ends, Disconnects
  <2> QED BY <1>1, <2>1, <2>2, <2>3, <2>4
<1> QED BY <1>2, <1>3, <1>4

LEMMA SelfUntold ==
  ASSUME Inv, Untold, NEW m \in Models,
         Elsewhere(m) \/ ListDrops(m) \/ ListHandle(m) \/ ListGivesUp(m)
  PROVE  /\ session'[m] = "dialling" => stage'[m] = "dial"
         /\ stage'[m] # "done" =>
               /\ session'[m] \notin {"socket", "up", "lost"}
               /\ stream'[m] = <<>> /\ answers'[m] = <<>>
               /\ ~isReconnecting'[m] /\ loop'[m] = "none"
               /\ \A k \in 1..Len(mailbox') : mailbox'[k].from # m
<1> USE DEF retry, Inv, IInv, TypeOK
<1>1. CASE Starts(m) /\ UNCHANGED listVars
  <2>1. stage[m] # "done"
    BY <1>1 DEF Starts, SetUp, Dial, DialEnds, Untold
  <2>2. /\ session[m] = "dialling" => stage[m] = "dial"
        /\ session[m] \notin {"socket", "up", "lost"}
        /\ stream[m] = <<>> /\ answers[m] = <<>>
        /\ ~isReconnecting[m] /\ loop[m] = "none"
        /\ \A k \in 1..Len(mailbox) : mailbox[k].from # m
    BY <2>1 DEF Untold
  <2>3. UNCHANGED <<stream, answers, isReconnecting, loop, mailbox>>
    BY <1>1 DEF Starts, SetUp, Dial, DialEnds, listVars
  <2>4. /\ session'[m] = "dialling" => stage'[m] = "dial"
        /\ stage'[m] # "done" => session'[m] \notin {"socket", "up", "lost"}
    BY <1>1, <2>2 DEF Starts, SetUp, Dial, DialEnds
  <2> QED BY <2>2, <2>3, <2>4
<1>2. CASE Networks(m) \/ Handle(m) \/ Reconnects(m)
  <2>1. stage[m] = "done"
    BY <1>2 DEF Networks, LogsIn, RejectsNick, Drops, Handle, Reconnects, Announces,
                Reattempts, TimesOut, GivesUp, Untold
  <2>2. UNCHANGED stage
    BY <1>2 DEF Networks, LogsIn, RejectsNick, Drops, Handle, Reconnects, Announces,
                Reattempts, TimesOut, GivesUp
  <2>3. session'[m] # "dialling"
    <3>1. session[m] # "dialling"
      BY <2>1 DEF Untold
    <3>2. CASE Networks(m)
      BY <3>1, <3>2 DEF Networks, LogsIn, RejectsNick, Drops
    <3>3. CASE Handle(m)
      BY <3>1, <3>3 DEF Handle
    <3>4. CASE Reconnects(m)
      BY <3>1, <3>4 DEF Reconnects, Announces, Reattempts, TimesOut, GivesUp, Disconnects
    <3> QED BY <1>2, <3>2, <3>3, <3>4
  <2> QED BY <2>1, <2>2, <2>3
<1> QED BY <1>1, <1>2 DEF Elsewhere, ListDrops, ListHandle, ListGivesUp, Networks, Reconnects

LEMMA ElsewhereUntold ==
  ASSUME Inv, Untold, NEW m \in Models,
         Elsewhere(m) \/ ListDrops(m) \/ ListHandle(m) \/ ListGivesUp(m)
  PROVE  Untold'
<1>1. ASSUME NEW n \in Models, n # m
      PROVE  /\ session'[n] = "dialling" => stage'[n] = "dial"
             /\ stage'[n] # "done" =>
                   /\ session'[n] \notin {"socket", "up", "lost"}
                   /\ stream'[n] = <<>> /\ answers'[n] = <<>>
                   /\ ~isReconnecting'[n] /\ loop'[n] = "none"
                   /\ \A k \in 1..Len(mailbox') : mailbox'[k].from # n
  <2>1. stage'[n] = stage[n] /\ session'[n] = session[n]
    <3>1. Starts(m) \/ Networks(m) \/ Handle(m) \/ Reconnects(m)
      BY DEF Elsewhere, ListDrops, ListHandle, ListGivesUp, Networks, Reconnects
    <3> USE DEF Inv, IInv, TypeOK
    <3>2. CASE Starts(m)
      BY <1>1, <3>2 DEF Starts, SetUp, Dial, DialEnds
    <3>3. CASE Networks(m)
      BY <1>1, <3>3 DEF Networks, LogsIn, RejectsNick, Drops
    <3>4. CASE Handle(m)
      BY <3>4 DEF Handle
    <3>5. CASE Reconnects(m)
      BY <1>1, <3>5 DEF Reconnects, Announces, Reattempts, TimesOut, GivesUp, Disconnects
    <3> QED BY <3>1, <3>2, <3>3, <3>4, <3>5
  <2>2. CASE stage[n] = "done"
    BY <2>1, <2>2 DEF Untold
  <2>3. CASE stage[n] # "done"
    BY <1>1, <2>3, OthersUntold DEF Untold
  <2> QED BY <2>2, <2>3
<1> QED BY <1>1, SelfUntold DEF Untold

LEMMA ListsUntold ==
  ASSUME Inv, Untold, RequestStarts \/ \E m \in Models : RequestSends(m) \/ Errs(m)
  PROVE  Untold'
<1>1. UNCHANGED <<mailbox, stage, session, isReconnecting, loop, stream>>
  BY DEF RequestStarts, RequestSends, Errs, shellVars, shellButTroubles, retry
<1>2. ASSUME NEW n \in Models, stage[n] # "done" PROVE answers'[n] = answers[n]
  <2>1. session[n] # "up"
    BY <1>2 DEF Untold
  <2>2. CASE RequestStarts
    BY <2>2 DEF RequestStarts
  <2>3. ASSUME NEW m \in Models, RequestSends(m) PROVE answers'[n] = answers[n]
    BY <2>1, <2>3 DEF RequestSends, Inv, ListTypeOK
  <2>4. ASSUME NEW m \in Models, Errs(m) PROVE answers'[n] = answers[n]
    BY <2>1, <2>4 DEF Errs, Inv, ListTypeOK
  <2> QED BY <2>2, <2>3, <2>4
<1> QED BY <1>1, <1>2 DEF Untold

\* A line handled posts, if anything, a list in the name of its model.
LEMMA LinePosts ==
  ASSUME Inv, NEW m \in Models, HandleList(m)
  PROVE  \/ UNCHANGED mailbox
         \/ \E l \in Letters : /\ l.from = m /\ l.says = "roomList"
                              /\ mailbox' = Append(mailbox, l)
<1>1. CASE ListEnds(m)
  <2> DEFINE l == [from |-> m, says |-> "roomList", rows |-> roomListAccum[m].items]
  <2>1. roomListAccum[m].items \in Seq(Rows)
    BY DEF Inv, ListTypeOK, Accums
  <2>2. l \in Letters /\ l.from = m /\ l.says = "roomList"
    BY <2>1 DEF Letters
  <2>3. mailbox' = Append(mailbox, l)
    BY <1>1 DEF ListEnds
  <2> HIDE DEF l
  <2> QED BY <2>2, <2>3
<1>2. CASE ~ListEnds(m)
  BY <1>2 DEF HandleList, HandlesLine, ListBegins, ListAdds, ListErrs
<1> QED BY <1>1, <1>2

LEMMA HandleListUntold ==
  ASSUME Inv, Untold, NEW m \in Models, HandleList(m) PROVE Untold'
<1>1. /\ UNCHANGED <<stage, session, isReconnecting, loop, stream>>
      /\ answers[m] # <<>> /\ answers' = [answers EXCEPT ![m] = Tail(@)]
  BY DEF HandleList, retry
<1>2. stage[m] = "done"
  BY <1>1 DEF Untold
<1>3. ASSUME NEW n \in Models, stage[n] # "done"
      PROVE  answers'[n] = answers[n] /\ \A k \in 1..Len(mailbox') : mailbox'[k].from # n
  <2>1. n # m /\ \A k \in 1..Len(mailbox) : mailbox[k].from # n
    BY <1>2, <1>3 DEF Untold
  <2>2. answers'[n] = answers[n]
    BY <1>1, <2>1 DEF Inv, ListTypeOK
  <2>3. ASSUME NEW l \in Letters, l.from = m, mailbox' = Append(mailbox, l)
        PROVE  \A k \in 1..Len(mailbox') : mailbox'[k].from # n
    <3>1. mailbox \in Seq(Letters)
      BY DEF Inv, IInv, TypeOK
    <3>2. /\ Len(mailbox') = Len(mailbox) + 1 /\ Len(mailbox) \in Nat
          /\ mailbox'[Len(mailbox) + 1] = l
          /\ \A k \in 1..Len(mailbox) : mailbox'[k] = mailbox[k]
      BY <2>3, <3>1, PostedIs
    <3> QED BY <2>1, <2>3, <3>2
  <2> QED BY <2>1, <2>2, <2>3, LinePosts
<1> QED BY <1>1, <1>3 DEF Untold

LEMMA UntoldStays == Inv /\ Untold /\ [Next]_vars => Untold'
<1> SUFFICES ASSUME Inv, Untold, [Next]_vars PROVE Untold'
  OBVIOUS
<1>1. CASE UNCHANGED vars
  BY <1>1 DEF Untold, vars, shellVars, retry, listVars
<1> QED BY <1>1, MainActsUntold, ListsUntold, HandleListUntold, ElsewhereUntold DEF Next

-----------------------------------------------------------------------------
(* What the views show, once all that was posted has arrived.                *)

\* The indicator after the letters s, from where it is now.
Indicated(s, state) ==
    \/ \E k \in 1..Len(s) : /\ s[k].says = "reconnecting"
                            /\ \A i \in (k + 1)..Len(s) : s[i].says \notin Indications
    \/ state = "reconnecting" /\ \A k \in 1..Len(s) : s[k].says \notin Indications

AllFrom(s, m) == \A k \in 1..Len(s) : s[k].from = m

Reconnecting == model # 0 /\ isReconnecting[model]
Announced == model # 0 /\ loop[model] = "head"

\* Before anything has come of the current model the views are as connect() left them;
\* the list is that of the model; the indicator will be right.
Unspoken == model = 0 \/ stage[model] # "done" => roomList = <<>> /\ reconnectState = "none"
OwnRows == \A k \in 1..Len(roomList) : roomList[k].of = model
Tells == AllFrom(mailbox, model) =>
            Announced \/ (Indicated(mailbox, reconnectState) <=> Reconnecting)

Mirrored == ~late /\ overtaken = {} => Unspoken /\ OwnRows /\ Tells

LEMMA IndicatedPost ==
  ASSUME NEW s \in Seq(Letters), NEW l \in Letters, NEW state
  PROVE  /\ l.says \notin Indications =>
               (Indicated(Append(s, l), state) <=> Indicated(s, state))
         /\ l.says \in Indications =>
               (Indicated(Append(s, l), state) <=> l.says = "reconnecting")
<1> DEFINE t == Append(s, l)
<1>1. /\ Len(t) = Len(s) + 1 /\ Len(s) \in Nat /\ t[Len(s) + 1] = l
      /\ \A k \in 1..Len(s) : t[k] = s[k]
  BY PostedIs
<1> HIDE DEF t
<1>2. \A k \in 1..Len(t) : k \in 1..Len(s) \/ k = Len(s) + 1
  BY <1>1
<1>3. Len(s) + 1 \in 1..Len(t) /\ \A k \in 1..Len(s) : k \in 1..Len(t) /\ k # Len(s) + 1
  BY <1>1
<1>4. \A k \in 1..Len(s) : Len(s) + 1 \in (k + 1)..Len(t)
  BY <1>1
<1>5. ASSUME l.says \in Indications PROVE Indicated(t, state) <=> l.says = "reconnecting"
  <2>1. ASSUME l.says = "reconnecting" PROVE Indicated(t, state)
    <3>1. \A i \in (Len(s) + 1 + 1)..Len(t) : FALSE
      BY <1>1
    <3> QED BY <1>1, <1>3, <2>1, <3>1 DEF Indicated
  <2>2. ASSUME Indicated(t, state) PROVE l.says = "reconnecting"
    <3>1. t[Len(s) + 1].says \in Indications
      BY <1>1, <1>5
    <3>2. PICK k \in 1..Len(t) : /\ t[k].says = "reconnecting"
                                 /\ \A i \in (k + 1)..Len(t) : t[i].says \notin Indications
      BY <1>3, <2>2, <3>1 DEF Indicated
    <3>3. k = Len(s) + 1
      BY <1>2, <1>4, <3>1, <3>2
    <3> QED BY <1>1, <3>2, <3>3
  <2> QED BY <2>1, <2>2
<1>6. ASSUME l.says \notin Indications PROVE Indicated(t, state) <=> Indicated(s, state)
  <2>0. t[Len(s) + 1].says \notin Indications /\ t[Len(s) + 1].says # "reconnecting"
    BY <1>1, <1>6 DEF Indications
  <2>1. (\A k \in 1..Len(s) : s[k].says \notin Indications)
           <=> (\A k \in 1..Len(t) : t[k].says \notin Indications)
    BY <1>1, <1>2, <1>3, <2>0
  <2>2. ASSUME NEW k \in 1..Len(s)
        PROVE  (\A i \in (k + 1)..Len(s) : s[i].says \notin Indications)
                  <=> (\A i \in (k + 1)..Len(t) : t[i].says \notin Indications)
    <3>1. \A i \in (k + 1)..Len(t) : i \in (k + 1)..Len(s) \/ i = Len(s) + 1
      BY <1>1
    <3>2. \A i \in (k + 1)..Len(s) : i \in (k + 1)..Len(t) /\ t[i] = s[i]
      BY <1>1
    <3> QED BY <2>0, <3>1, <3>2
  <2>3. (\E k \in 1..Len(s) : /\ s[k].says = "reconnecting"
                              /\ \A i \in (k + 1)..Len(s) : s[i].says \notin Indications)
        <=> (\E k \in 1..Len(t) : /\ t[k].says = "reconnecting"
                                  /\ \A i \in (k + 1)..Len(t) : t[i].says \notin Indications)
    BY <1>1, <1>2, <1>3, <2>0, <2>2
  <2> QED BY <2>1, <2>3 DEF Indicated
<1> QED BY <1>5, <1>6 DEF t

LEMMA IndicatedRest ==
  ASSUME NEW s \in Seq(Letters), s # <<>>, NEW state
  PROVE  /\ Head(s).says \notin Indications =>
               (Indicated(s, state) <=> Indicated(Tail(s), state))
         /\ Head(s).says \in Indications =>
               (Indicated(s, state) <=> Indicated(Tail(s), Head(s).says))
<1> DEFINE t == Tail(s)
           h == Head(s)
<1>1. /\ Len(s) = Len(t) + 1 /\ Len(t) \in Nat /\ s[1] = h
      /\ \A k \in 1..Len(t) : s[k + 1] = t[k]
  OBVIOUS
<1> HIDE DEF t, h
<1>2. \A k \in 1..Len(s) : k = 1 \/ (k - 1 \in 1..Len(t) /\ k - 1 + 1 = k /\ s[k] = t[k - 1])
  BY <1>1
<1>3. /\ 1 \in 1..Len(s)
      /\ \A k \in 1..Len(t) : k + 1 \in 1..Len(s) /\ k + 1 # 1 /\ s[k + 1] = t[k]
  BY <1>1
<1>4. (\A k \in 1..Len(t) : t[k].says \notin Indications)
         <=> (\A k \in (1 + 1)..Len(s) : s[k].says \notin Indications)
  <2>1. \A k \in (1 + 1)..Len(s) : k - 1 \in 1..Len(t) /\ s[k] = t[k - 1]
    BY <1>1
  <2>2. \A k \in 1..Len(t) : k + 1 \in (1 + 1)..Len(s) /\ s[k + 1] = t[k]
    BY <1>1
  <2> QED BY <2>1, <2>2
<1>5. ASSUME NEW k \in 1..Len(t)
      PROVE  (\A i \in (k + 1)..Len(t) : t[i].says \notin Indications)
                <=> (\A i \in (k + 1 + 1)..Len(s) : s[i].says \notin Indications)
  <2>1. \A i \in (k + 1 + 1)..Len(s) : i - 1 \in (k + 1)..Len(t) /\ s[i] = t[i - 1]
    BY <1>1
  <2>2. \A i \in (k + 1)..Len(t) : i + 1 \in (k + 1 + 1)..Len(s) /\ s[i + 1] = t[i]
    BY <1>1
  <2> QED BY <2>1, <2>2
<1> DEFINE Last(k) == /\ s[k].says = "reconnecting"
                      /\ \A i \in (k + 1)..Len(s) : s[i].says \notin Indications
<1>6. (\E k \in 1..Len(t) : /\ t[k].says = "reconnecting"
                            /\ \A i \in (k + 1)..Len(t) : t[i].says \notin Indications)
      <=> \E k \in 1..Len(t) : Last(k + 1)
  BY <1>1, <1>5
<1> HIDE DEF Last
<1>7. (\E k \in 1..Len(s) : Last(k)) <=> Last(1) \/ \E k \in 1..Len(t) : Last(k + 1)
  BY <1>2, <1>3
<1>8. (\A k \in 1..Len(s) : s[k].says \notin Indications)
         <=> h.says \notin Indications /\ \A k \in 1..Len(t) : t[k].says \notin Indications
  <2>1. ASSUME \A k \in 1..Len(s) : s[k].says \notin Indications
        PROVE  h.says \notin Indications /\ \A k \in 1..Len(t) : t[k].says \notin Indications
    BY <1>1, <1>3, <2>1
  <2>2. ASSUME h.says \notin Indications /\ \A k \in 1..Len(t) : t[k].says \notin Indications
        PROVE  \A k \in 1..Len(s) : s[k].says \notin Indications
    BY <1>1, <1>2, <2>2
  <2> QED BY <2>1, <2>2
<1>9. Last(1) <=> h.says = "reconnecting" /\ \A k \in 1..Len(t) : t[k].says \notin Indications
  BY <1>1, <1>4 DEF Last
<1>10. Indicated(s, state) <=> \/ \E k \in 1..Len(s) : Last(k)
                               \/ /\ state = "reconnecting"
                                  /\ \A k \in 1..Len(s) : s[k].says \notin Indications
  BY DEF Indicated, Last
<1>11. ASSUME NEW x
       PROVE  Indicated(t, x) <=> \/ \E k \in 1..Len(t) : Last(k + 1)
                                  \/ /\ x = "reconnecting"
                                     /\ \A k \in 1..Len(t) : t[k].says \notin Indications
  BY <1>6 DEF Indicated
<1>12. ASSUME h.says \notin Indications PROVE Indicated(s, state) <=> Indicated(t, state)
  <2>1. h.says # "reconnecting"
    BY <1>12 DEF Indications
  <2> QED BY <1>7, <1>8, <1>9, <1>10, <1>11, <1>12, <2>1
<1>13. ASSUME h.says \in Indications PROVE Indicated(s, state) <=> Indicated(t, h.says)
  BY <1>7, <1>8, <1>9, <1>10, <1>11, <1>13
<1> QED BY <1>12, <1>13 DEF t, h

LEMMA IndicatedNothing ==
  ASSUME NEW state PROVE Indicated(<<>>, state) <=> state = "reconnecting"
  BY DEF Indicated

LEMMA NothingFrom ==
  ASSUME NEW s \in Seq(Letters), NEW m, AllFrom(s, m),
         \A k \in 1..Len(s) : s[k].from # m
  PROVE  s = <<>>
<1>1. Len(s) \in Nat /\ ~(1 \in 1..Len(s))
  BY DEF AllFrom
<1> QED BY <1>1

\* Leave/Disconnect, and the answer to a rejected nick.
LEMMA NilMirrored ==
  ASSUME Clears, model' = 0, mailbox' \in Seq(Letters)
  PROVE  Mirrored'
<1>1. roomList' = <<>> /\ reconnectState' = "none"
  BY DEF Clears
<1>2. Unspoken' /\ OwnRows'
  BY <1>1 DEF Unspoken, OwnRows
<1>3. ASSUME AllFrom(mailbox', model') PROVE ~Indicated(mailbox', reconnectState')
  <2> DEFINE s == mailbox'
  <2>1. s \in Seq(Letters) /\ AllFrom(s, 0)
    BY <1>3
  <2> HIDE DEF s
  <2>2. \A k \in 1..Len(s) : s[k] \in Letters
    BY <2>1
  <2>3. \A k \in 1..Len(s) : s[k].from # 0
    BY <2>2 DEF Letters, Models
  <2>4. s = <<>>
    BY <2>1, <2>3, NothingFrom
  <2>5. ~Indicated(s, "none")
    BY <2>4, IndicatedNothing
  <2> QED BY <1>1, <2>5 DEF s
<1>4. Tells'
  BY <1>3 DEF Tells, AllFrom, Indicated, Reconnecting
<1> QED BY <1>2, <1>4 DEF Mirrored

LEMMA ConnectMirrored ==
  ASSUME Inv, Untold, Connect PROVE Mirrored'
<1> DEFINE n == made + 1
<1>1. /\ ShutsDownCurrent /\ UNCHANGED mailbox /\ n \in Models
      /\ reconnectState' = "none" /\ roomList' = <<>>
      /\ model' = n /\ stage' = [stage EXCEPT ![n] = "start"]
  BY DEF Connect, TearsDownFirst, Clears, Inv, IInv, TypeOK, Models
<1>2. stage[n] = "none"
  BY <1>1 DEF Inv, IInv, Fresh, TypeOK
<1> HIDE DEF n
<1>3. ~isReconnecting'[n] /\ \A k \in 1..Len(mailbox) : mailbox[k].from # n
  BY <1>1, <1>2, CurrentUntold DEF Untold
<1>4. Unspoken' /\ OwnRows'
  BY <1>1 DEF Unspoken, OwnRows
<1>5. ASSUME AllFrom(mailbox, n) PROVE ~Indicated(mailbox, "none")
  <2>1. mailbox = <<>>
    BY <1>3, <1>5, NothingFrom DEF Inv, IInv, TypeOK
  <2> QED BY <2>1, IndicatedNothing
<1>6. Tells'
  BY <1>1, <1>3, <1>5 DEF Tells, AllFrom, Indicated, Reconnecting
<1> QED BY <1>4, <1>6 DEF Mirrored

LEMMA FailedMirrored ==
  ASSUME Inv, Untold, Mirrored, NEW m \in Models, Failed(m) PROVE Mirrored'
<1> SUFFICES ASSUME ~late', overtaken' = {} PROVE Mirrored'
  BY DEF Mirrored
<1>1. /\ stage[m] = "failed" /\ model' = 0
      /\ UNCHANGED <<reconnectState, roomList, mailbox, late, overtaken>>
  BY DEF Failed, history
<1>2. m = model
  BY <1>1 DEF Inv, IInv, Starting
<1>3. roomList = <<>> /\ reconnectState = "none"
  BY <1>1, <1>2 DEF Mirrored, Unspoken
<1>4. Clears
  BY <1>1, <1>3 DEF Clears
<1>5. mailbox' \in Seq(Letters)
  BY <1>1 DEF Inv, IInv, TypeOK
<1> QED BY <1>1, <1>4, <1>5, NilMirrored

LEMMA DeliverMirrored ==
  ASSUME Inv, Untold, Whole, Mirrored, Deliver PROVE Mirrored'
<1> SUFFICES ASSUME ~late', overtaken' = {} PROVE Mirrored'
  BY DEF Mirrored
<1> DEFINE l == Head(mailbox)
           rest == Tail(mailbox)
<1>1. /\ mailbox # <<>> /\ mailbox' = rest /\ late' = (late \/ l.from # model)
      /\ UNCHANGED stage
  BY DEF Deliver
<1>2. mailbox \in Seq(Letters)
  BY DEF Inv, IInv, TypeOK
<1>3. /\ l = mailbox[1] /\ 1 \in 1..Len(mailbox) /\ l \in Letters /\ rest \in Seq(Letters)
      /\ \A k \in 1..Len(mailbox) :
            k = 1 \/ (k - 1 \in 1..Len(rest) /\ mailbox[k] = rest[k - 1])
  BY <1>1, <1>2
<1>4. CASE l.says = "rejected"
  <2>1. Clears /\ model' = 0
    BY <1>4 DEF Deliver
  <2> QED BY <1>1, <1>3, <2>1, NilMirrored
<1>5. CASE l.says # "rejected"
  <2>1. /\ IF l.says = "roomList" THEN roomList' = l.rows /\ UNCHANGED reconnectState
                                  ELSE reconnectState' = l.says /\ UNCHANGED roomList
        /\ UNCHANGED <<model, isReconnecting, loop, overtaken>>
    BY <1>5 DEF Deliver, retry
  <2>2. l.from = model /\ ~late
    BY <1>1
  <2>3. Unspoken /\ OwnRows /\ Tells
    BY <2>1, <2>2 DEF Mirrored
  <2>4. /\ l.says \notin Indications =>
              (Indicated(mailbox, reconnectState) <=> Indicated(rest, reconnectState))
        /\ l.says \in Indications =>
              (Indicated(mailbox, reconnectState) <=> Indicated(rest, l.says))
    BY <1>1, <1>2, IndicatedRest
  <2> HIDE DEF l, rest
  <2>5. model \in Models /\ stage[model] = "done"
    <3>1. model \in Models
      BY <1>3, <2>2 DEF Letters
    <3> QED BY <1>3, <2>2, <3>1 DEF Untold
  <2>6. Unspoken'
    BY <1>1, <2>1, <2>5 DEF Unspoken, Models
  <2>7. OwnRows'
    <3>1. CASE l.says = "roomList"
      <4>1. OwnList(model, l.rows)
        BY <1>3, <2>2, <3>1 DEF Whole, PostsAreWhole, WholeLetter
      <4>2. \A k \in 1..Len(l.rows) : l.rows[k].of = model
        BY <4>1 DEF OwnList
      <4> QED BY <2>1, <3>1, <4>2 DEF OwnRows
    <3>2. CASE l.says # "roomList"
      BY <2>1, <2>3, <3>2 DEF OwnRows
    <3> QED BY <3>1, <3>2
  <2>8. Tells'
    <3>1. ASSUME AllFrom(rest, model) PROVE AllFrom(mailbox, model)
      BY <1>3, <2>2, <3>1 DEF AllFrom
    <3>2. Indicated(mailbox, reconnectState) <=> Indicated(rest, reconnectState')
      BY <1>3, <1>5, <2>1, <2>4 DEF Letters, Indications
    <3>3. ASSUME AllFrom(rest, model)
          PROVE  Announced \/ (Indicated(rest, reconnectState') <=> Reconnecting)
      BY <2>3, <3>1, <3>2, <3>3 DEF Tells
    <3> QED BY <1>1, <2>1, <3>3 DEF Tells, AllFrom, Indicated, Reconnecting, Announced
  <2> QED BY <2>6, <2>7, <2>8 DEF Mirrored
<1> QED BY <1>4, <1>5

LEMMA MainActsMirrored ==
  ASSUME Inv, Untold, Whole, Mirrored, ListMainActs PROVE Mirrored'
<1>1. CASE Disconnect
  <2>1. Clears /\ model' = 0 /\ UNCHANGED mailbox
    BY <1>1 DEF Disconnect
  <2> QED BY <2>1, NilMirrored DEF Inv, IInv, TypeOK
<1> QED BY <1>1, ConnectMirrored, FailedMirrored, DeliverMirrored DEF ListMainActs, MainActs

-----------------------------------------------------------------------------
(* The steps of a model.                                                     *)

\* A letter behind the others.
LEMMA TellsPosted ==
  ASSUME TypeOK, Tells, UNCHANGED <<model, reconnectState>>,
         NEW l \in Letters, mailbox' = Append(mailbox, l),
         \/ l.from # model
         \/ Announced'
         \/ l.says \notin Indications /\ UNCHANGED <<Reconnecting, Announced>>
         \/ l.says \in Indications /\ (l.says = "reconnecting" <=> Reconnecting')
  PROVE  Tells'
<1> DEFINE s == Append(mailbox, l)
<1>1. mailbox \in Seq(Letters)
  BY DEF TypeOK
<1>2. /\ l.says \notin Indications =>
            (Indicated(s, reconnectState) <=> Indicated(mailbox, reconnectState))
      /\ l.says \in Indications =>
            (Indicated(s, reconnectState) <=> l.says = "reconnecting")
  BY <1>1, IndicatedPost
<1>3. /\ Len(s) = Len(mailbox) + 1 /\ Len(mailbox) \in Nat /\ s[Len(mailbox) + 1] = l
      /\ \A k \in 1..Len(mailbox) : s[k] = mailbox[k]
  BY <1>1, PostedIs
<1>4. mailbox' = s
  OBVIOUS
<1> HIDE DEF s
<1>5. ASSUME AllFrom(s, model) PROVE l.from = model /\ AllFrom(mailbox, model)
  <2>1. Len(mailbox) + 1 \in 1..Len(s) /\ \A k \in 1..Len(mailbox) : k \in 1..Len(s)
    BY <1>3
  <2> QED BY <1>3, <1>5, <2>1 DEF AllFrom
<1>6. ASSUME AllFrom(s, model)
      PROVE  Announced' \/ (Indicated(s, reconnectState) <=> Reconnecting')
  BY <1>2, <1>5, <1>6 DEF Tells
<1> QED BY <1>4, <1>6 DEF Tells, AllFrom, Indicated

LEMMA TellsUnposted ==
  ASSUME Tells, UNCHANGED <<model, reconnectState, mailbox>>,
         Announced' \/ UNCHANGED <<Reconnecting, Announced>>
  PROVE  Tells'
  BY DEF Tells, AllFrom, Indicated

LEMMA PostsTells ==
  ASSUME TypeOK, Tells, UNCHANGED <<model, reconnectState>>,
         NEW m \in Models, NEW says \in Indications \cup {"rejected"}, Posts(m, says),
         \/ m # model
         \/ Announced'
         \/ says = "rejected" /\ UNCHANGED <<Reconnecting, Announced>>
         \/ says \in Indications /\ (says = "reconnecting" <=> Reconnecting')
  PROVE  Tells'
<1> DEFINE l == [from |-> m, says |-> says, rows |-> <<>>]
<1>1. l \in Letters /\ l.from = m /\ l.says = says
  BY DEF Letters
<1>2. mailbox' = Append(mailbox, l)
  BY DEF Posts
<1> HIDE DEF l
<1>3. "rejected" \notin Indications
  BY DEF Indications
<1> QED BY <1>1, <1>2, <1>3, TellsPosted

\* The reconnect of the current model is over.
LEMMA EndsTells ==
  ASSUME TypeOK, NEW m \in Models, Ends(m), UNCHANGED model,
         NEW says \in {"connected", "gaveUp"}, Posts(m, says), UNCHANGED reconnectState,
         Tells
  PROVE  Tells'
<1>1. m = model => ~Reconnecting'
  BY DEF Ends, TypeOK, Reconnecting
<1>2. says \in Indications /\ says # "reconnecting"
  BY DEF Indications
<1> QED BY <1>1, <1>2, PostsTells

LEMMA HandleTells ==
  ASSUME TypeOK, Tells, NEW m \in Models, Handle(m) PROVE Tells'
<1>1. UNCHANGED <<model, reconnectState>> /\ HandlesEvent(m)
  BY DEF Handle, main
<1>2. CASE Ends(m) /\ Posts(m, "connected")
  BY <1>1, <1>2, EndsTells
<1>3. CASE /\ isReconnecting' = [isReconnecting EXCEPT ![m] = TRUE]
           /\ loop' = [loop EXCEPT ![m] = "head"]
           /\ UNCHANGED mailbox
  <2>1. CASE m = model
    <3>1. Announced'
      BY <1>1, <1>3, <2>1 DEF Announced, TypeOK, Models
    <3> QED BY <1>1, <1>3, <3>1, TellsUnposted
  <2>2. CASE m # model
    <3>1. UNCHANGED <<Reconnecting, Announced>>
      BY <1>1, <1>3, <2>2 DEF Reconnecting, Announced, TypeOK
    <3> QED BY <1>1, <1>3, <3>1, TellsUnposted
  <2> QED BY <2>1, <2>2
<1>4. CASE Posts(m, "rejected") /\ UNCHANGED retry
  <2>1. UNCHANGED <<Reconnecting, Announced>>
    BY <1>1, <1>4 DEF Reconnecting, Announced, retry
  <2> QED BY <1>1, <1>4, <2>1, PostsTells
<1>5. CASE UNCHANGED <<mailbox, retry>>
  <2>1. UNCHANGED <<Reconnecting, Announced>>
    BY <1>1, <1>5 DEF Reconnecting, Announced, retry
  <2> QED BY <1>1, <1>5, <2>1, TellsUnposted
<1> QED BY <1>1, <1>2, <1>3, <1>4, <1>5 DEF HandlesEvent

LEMMA ReconnectsTells ==
  ASSUME TypeOK, Tells, ~late', NEW m \in Models, Reconnects(m) PROVE Tells'
<1>1. CASE Announces(m)
  <2>1. /\ isReconnecting[m] /\ UNCHANGED <<model, reconnectState, isReconnecting>>
        /\ Posts(m, "reconnecting")
    BY <1>1 DEF Announces, main
  <2>2. m = model => Reconnecting'
    BY <2>1 DEF Reconnecting, Models
  <2> QED BY <2>1, <2>2, PostsTells DEF Indications
<1>2. CASE Reattempts(m)
  <2>1. UNCHANGED <<model, reconnectState, mailbox, isReconnecting, loop>>
    BY <1>2 DEF Reattempts, main, retry
  <2> QED BY <2>1, TellsUnposted DEF Reconnecting, Announced
<1>3. CASE TimesOut(m)
  <2>1. /\ UNCHANGED <<model, reconnectState, mailbox, isReconnecting>>
        /\ loop' = [loop EXCEPT ![m] = "head"]
    BY <1>3 DEF TimesOut, main
  <2>2. CASE m = model
    BY <2>1, <2>2, TellsUnposted DEF Announced, TypeOK, Models
  <2>3. CASE m # model
    <3>1. UNCHANGED <<Reconnecting, Announced>>
      BY <2>1, <2>3 DEF Reconnecting, Announced, TypeOK
    <3> QED BY <2>1, <3>1, TellsUnposted
  <2> QED BY <2>2, <2>3
<1>4. CASE GivesUp(m)
  BY <1>4, EndsTells DEF GivesUp, main
<1> QED BY <1>1, <1>2, <1>3, <1>4 DEF Reconnects

LEMMA ElsewhereMirrored ==
  ASSUME Inv, Untold, Mirrored, NEW m \in Models,
         Elsewhere(m) \/ ListDrops(m) \/ ListHandle(m) \/ ListGivesUp(m)
  PROVE  Mirrored'
<1> SUFFICES ASSUME ~late', overtaken' = {} PROVE Mirrored'
  BY DEF Mirrored
<1>1. Starts(m) \/ Networks(m) \/ Handle(m) \/ Reconnects(m)
  BY DEF Elsewhere, ListDrops, ListHandle, ListGivesUp, Networks, Reconnects
<1>2. UNCHANGED <<model, reconnectState, roomList, overtaken>>
  BY <1>1, ShellSays
<1>3. ~late
  BY <1>1 DEF Starts, SetUp, Dial, DialEnds, Networks, LogsIn, RejectsNick, Drops, Handle,
              Reconnects, Announces, Reattempts, TimesOut, GivesUp, history
<1>4. Unspoken /\ OwnRows /\ Tells
  BY <1>2, <1>3 DEF Mirrored
<1>5. Unspoken'
  <2>1. \A n \in Models : stage'[n] # "done" => stage[n] # "done"
    BY <1>1 DEF Starts, SetUp, Dial, DialEnds, Networks, LogsIn, RejectsNick, Drops, Handle,
                Reconnects, Announces, Reattempts, TimesOut, GivesUp, Untold, Inv, IInv, TypeOK
  <2>2. model = 0 \/ model \in Models
    BY DEF Inv, IInv, TypeOK, Models
  <2> QED BY <1>2, <1>4, <2>1, <2>2 DEF Unspoken
<1>6. OwnRows'
  BY <1>2, <1>4 DEF OwnRows
<1>7. Tells'
  <2>1. CASE Starts(m) \/ Networks(m)
    <3>1. UNCHANGED <<mailbox, isReconnecting, loop>>
      BY <2>1 DEF Starts, SetUp, Dial, DialEnds, Networks, LogsIn, RejectsNick, Drops, retry
    <3> QED BY <1>2, <1>4, <3>1, TellsUnposted DEF Reconnecting, Announced
  <2>2. CASE Handle(m)
    BY <1>4, <2>2, HandleTells DEF Inv, IInv
  <2>3. CASE Reconnects(m)
    BY <1>4, <2>3, ReconnectsTells DEF Inv, IInv
  <2> QED BY <1>1, <2>1, <2>2, <2>3
<1> QED BY <1>5, <1>6, <1>7 DEF Mirrored

\* The steps of the lists, but for those that are also the shell's.
LEMMA ListsMirrored ==
  ASSUME Inv, Mirrored,
         RequestStarts \/ \E m \in Models : RequestSends(m) \/ Errs(m) \/ HandleList(m)
  PROVE  Mirrored'
<1> SUFFICES ASSUME ~late', overtaken' = {} PROVE Mirrored'
  BY DEF Mirrored
<1>1. UNCHANGED <<model, reconnectState, roomList, stage, isReconnecting, loop, overtaken,
                  late>>
  BY DEF RequestStarts, RequestSends, Errs, HandleList, shellVars, shellButTroubles, main,
         retry, history
<1>2. Unspoken /\ OwnRows /\ Tells
  BY <1>1 DEF Mirrored
<1>3. Unspoken' /\ OwnRows' /\ UNCHANGED <<Reconnecting, Announced>>
  BY <1>1, <1>2 DEF Unspoken, OwnRows, Reconnecting, Announced
<1>4. Tells'
  <2>1. CASE UNCHANGED mailbox
    BY <1>1, <1>2, <1>3, <2>1, TellsUnposted
  <2>2. ASSUME NEW l \in Letters, l.says = "roomList", mailbox' = Append(mailbox, l)
        PROVE  Tells'
    <3>1. l.says \notin Indications
      BY <2>2 DEF Indications
    <3> QED BY <1>1, <1>2, <1>3, <2>2, <3>1, TellsPosted DEF Inv, IInv
  <2> QED BY <2>1, <2>2, LinePosts DEF RequestStarts, RequestSends, Errs, shellVars,
                                      shellButTroubles
<1> QED BY <1>3, <1>4 DEF Mirrored

LEMMA MirroredStays == Inv /\ Untold /\ Whole /\ Mirrored /\ [Next]_vars => Mirrored'
<1> SUFFICES ASSUME Inv, Untold, Whole, Mirrored, [Next]_vars PROVE Mirrored'
  OBVIOUS
<1>1. CASE UNCHANGED vars
  <2>1. UNCHANGED <<model, reconnectState, roomList, stage, isReconnecting, loop, overtaken,
                    late, mailbox>>
    BY <1>1 DEF vars, shellVars, main, retry, history
  <2> QED BY <2>1 DEF Mirrored, Unspoken, OwnRows, Tells, AllFrom, Indicated, Reconnecting,
                      Announced
<1> QED BY <1>1, MainActsMirrored, ListsMirrored, ElsewhereMirrored DEF Next

LEMMA MirroredAlways == Spec => [](Untold /\ Mirrored)
<1>1. ListInit => Untold
  BY DEF ListInit, Init, Untold
<1>2. ListInit => Mirrored
  BY DEF ListInit, Init, Mirrored, Unspoken, OwnRows, Tells, AllFrom, Indicated, Reconnecting
<1> QED BY <1>1, <1>2, UntoldStays, MirroredStays, Invariance, WholeAlways, PTL DEF Spec

-----------------------------------------------------------------------------
(* Theorems.                                                                 *)

\* Every variable of the app shell, its models and their room lists keeps to its
\* type; what reaches the main actor is one of the things a model says, and a Task
\* of requestRoomList() sends its LIST once.
THEOREM TypeCorrect == Spec => []ShellTypeOK
<1>1. Inv => ShellTypeOK
  BY DEF Inv, IInv, ShellTypeOK
<1> QED BY <1>1, Invariance, PTL

\* The engine never points to a canvas box that was released: whoever releases a
\* box has taken it from the engine.
THEOREM CanvasStays == Spec => []CanvasNeverDangles
<1>1. Inv => CanvasNeverDangles
  BY DEF Inv, IInv
<1> QED BY <1>1, Invariance, PTL

\* While no start() is overtaken by a disconnect, only the current model has a
\* strip, and the engine measures text with that model's canvas.
THEOREM OneStripAtATime == Spec => []OneStrip
<1>1. Inv => OneStrip
  BY DEF Inv, IInv
<1> QED BY <1>1, Invariance, PTL

\* A model whose start() was not overtaken is offline from shutdown() on: neither
\* its start() nor a reconnect brings it back.
THEOREM DownStaysOffline == Spec => []DownIsOffline
<1>1. Inv => DownIsOffline
  BY DEF Inv, IInv
<1> QED BY <1>1, Invariance, PTL

\* A request for the room list that nothing will end was refused without an error
\* event or has lost its answer to a drop.
THEOREM WedgeNeedsLoss == Spec => []WedgedOnlyByLoss
<1>1. Inv => WedgedOnlyByLoss
  <2> SUFFICES ASSUME Inv, NEW m \in Models, roomListRequestInFlight[m], asking[m] = 0,
                      answers[m] = <<>>, ~isShutDown[m]
               PROVE  lostAnswer[m]
    BY DEF WedgedOnlyByLoss
  <2>1. ~Answered(m)
    BY DEF Answered
  <2> QED BY <2>1 DEF Inv, Pending
<1> QED BY <1>1, Invariance, PTL

\* What reaches the room list window is one answer from its first row to its last,
\* or nothing, whatever errors and drops cut into the answers before it.
THEOREM ListsAreWhole == Spec => []AnswersAreWhole
<1>1. Inv /\ Whole => AnswersAreWhole
  <2> SUFFICES ASSUME Inv, Whole PROVE AnswersAreWhole
    OBVIOUS
  <2>1. ASSUME NEW m \in Models, NEW rows, OwnList(m, rows) PROVE IsWhole(rows)
    BY <2>1 DEF OwnList, IsWhole
  <2>2. ASSUME NEW k \in 1..Len(mailbox), mailbox[k].says = "roomList"
        PROVE  IsWhole(mailbox[k].rows)
    <3>1. mailbox[k].from \in Models
      <4>1. mailbox \in Seq(Letters)
        BY DEF Inv, IInv, TypeOK
      <4>2. mailbox[k] \in Letters
        BY <4>1
      <4> QED BY <4>2 DEF Letters
    <3> QED BY <2>1, <2>2, <3>1 DEF Whole, PostsAreWhole, WholeLetter
  <2> QED BY <2>1, <2>2 DEF AnswersAreWhole, Whole, PostsAreWhole
<1> QED BY <1>1, Invariance, WholeAlways, PTL

\* The list on screen is of the current connection, unless something arrived of one
\* that was gone or a start() was overtaken.
THEOREM ListIsTheModels == Spec => []ListIsOfModel
<1>1. Mirrored => ListIsOfModel
  BY DEF Mirrored, OwnRows, ListIsOfModel
<1> QED BY <1>1, MirroredAlways, PTL

\* Once a reconnect is announced and all that was posted has arrived, the views show a
\* reconnect just when the current model has one.
THEOREM IndicatorTellsTruth == Spec => []IndicatorIsTrue
<1>1. Mirrored => IndicatorIsTrue
  <2> SUFFICES ASSUME Mirrored, ~late, overtaken = {}, mailbox = <<>>
               PROVE  \/ model # 0 /\ loop[model] = "head"
                      \/ (reconnectState = "reconnecting")
                            <=> (model # 0 /\ isReconnecting[model])
    BY DEF IndicatorIsTrue
  <2>1. AllFrom(mailbox, model)
    BY DEF AllFrom
  <2>2. Indicated(mailbox, reconnectState) <=> reconnectState = "reconnecting"
    BY IndicatedNothing
  <2> QED BY <2>1, <2>2 DEF Mirrored, Tells, Announced, Reconnecting
<1> QED BY <1>1, MirroredAlways, PTL
================================================================================
