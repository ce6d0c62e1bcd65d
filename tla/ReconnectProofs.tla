--------------------------- MODULE ReconnectProofs ---------------------------
(* Reconnect's types and its main safety invariant, for any number of       *)
(* attempts, rooms and drops.                                                *)
EXTENDS Reconnect, SequenceTheorems, TLAPS

-----------------------------------------------------------------------------
(* Sequences and records.                                                    *)

\* Changing one element of a sequence, or none, to another of its kind.
LEMMA Update ==
    ASSUME NEW S, NEW q \in Seq(S), NEW i, NEW e, i \in 1..Len(q) => e \in S
    PROVE  /\ [q EXCEPT ![i] = e] \in Seq(S)
           /\ Len([q EXCEPT ![i] = e]) = Len(q)
           /\ \A k \in 1..Len(q) : [q EXCEPT ![i] = e][k] = IF k = i THEN e ELSE q[k]
<1>1. q \in [1..Len(q) -> S] /\ Len(q) \in Nat OBVIOUS
<1>2. [q EXCEPT ![i] = e] \in [1..Len(q) -> S] BY <1>1
<1>3. [q EXCEPT ![i] = e] \in Seq(S) BY <1>1, <1>2
<1>4. Len([q EXCEPT ![i] = e]) = Len(q) BY <1>1, <1>2, <1>3
<1> QED BY <1>1, <1>3, <1>4

\* Changing every element of a sequence to another of its kind.
LEMMA UpdateAll ==
    ASSUME NEW S, NEW q \in Seq(S), NEW f, f = [k \in 1..Len(q) |-> f[k]],
           \A k \in 1..Len(q) : f[k] \in S
    PROVE  f \in Seq(S) /\ Len(f) = Len(q)
<1>1. Len(q) \in Nat OBVIOUS
<1>2. f \in [1..Len(q) -> S] OBVIOUS
<1> QED BY <1>1, <1>2

\* Taking the first closure leaves a queue; so does adding one behind.
LEMMA QueueSteps ==
    ASSUME queue \in Seq(Closure)
    PROVE  /\ queue # <<>> => Tail(queue) \in Seq(Closure) /\ Subject \in Nat
           /\ \A op \in Operations, of \in Nat :
                 /\ Append(queue, Run(op, of)) \in Seq(Closure)
                 /\ queue # <<>> => Append(Tail(queue), Run(op, of)) \in Seq(Closure)
<1>1. \A op \in Operations, of \in Nat : Run(op, of) \in Closure BY DEF Run, Closure
<1>2. queue # <<>> => Tail(queue) \in Seq(Closure) OBVIOUS
<1>3. queue # <<>> => Head(queue) \in Closure OBVIOUS
<1>4. queue # <<>> => Subject \in Nat BY <1>3 DEF Closure, Subject
<1>5. \A c \in Closure : Append(queue, c) \in Seq(Closure) OBVIOUS
<1>6. queue # <<>> => \A c \in Closure : Append(Tail(queue), c) \in Seq(Closure) BY <1>2
<1> QED BY <1>1, <1>2, <1>4, <1>5, <1>6

LEMMA NewRecords ==
    /\ NewSession \in Session
    /\ NewLoop \in Loop /\ NewLoop.at = "head" /\ ~NewLoop.cancelled
    /\ DoneLoop \in Loop /\ DoneLoop.at = "done" /\ ~DoneLoop.cancelled
    /\ \A q \in Seq({"loggedIn", "hint"}) : [ClosedSession EXCEPT !.stream = q] \in Session
<1>1. <<>> \in Seq({"loggedIn", "hint"}) OBVIOUS
<1> QED BY <1>1 DEF NewSession, Session, SessionStages, NewLoop, DoneLoop, Loop, LoopStages,
                    ClosedSession
-----------------------------------------------------------------------------
(* Parts of the state.                                                       *)

SessionsOK == sessions \in Seq(Session) /\ session > 0
LoopsOK == loops \in Seq(Loop) /\ reconnectTask \in 0..Len(loops)
RestOK ==
    /\ consumerStopped \in BOOLEAN
    /\ queue \in Seq(Closure)
    /\ isReconnecting \in BOOLEAN /\ isShutDown \in BOOLEAN
    /\ open \subseteq Rooms
    /\ joining \subseteq [on : 1..session, rooms : SUBSET Rooms]
    /\ shutdownAt \in ShutdownStages
    /\ indicator \in {"none", "reconnecting", "connected", "gaveUp"}
    /\ mistaken \in BOOLEAN
    /\ drops \in 0..MaxDrops

LEMMA TypeParts ==
    /\ TypeOK <=> SessionsOK /\ LoopsOK /\ RestOK
    /\ TypeOK' <=> SessionsOK' /\ LoopsOK' /\ RestOK'
<1> QED BY DEF TypeOK, SessionsOK, LoopsOK, RestOK

\* A session's own step changes one session and nothing that depends on the others.
LEMMA OneSession ==
    ASSUME SessionsOK, NEW s, NEW e, s \in 1..session => e \in Session,
           sessions' = [sessions EXCEPT ![s] = e]
    PROVE  SessionsOK' /\ session' = session
<1>1. /\ [sessions EXCEPT ![s] = e] \in Seq(Session)
      /\ Len([sessions EXCEPT ![s] = e]) = Len(sessions)
  BY Update, SMTT(30) DEF SessionsOK, session
<1> QED BY <1>1 DEF SessionsOK, session

IInv == TypeOK /\ ReconnectingHasLoop

LEMMA IInvInit == Init => IInv
<1> SUFFICES ASSUME Init PROVE IInv OBVIOUS
<1>1. SessionsOK
  <2>1. sessions = <<NewSession>> /\ NewSession \in Session BY NewRecords DEF Init
  <2> QED BY <2>1 DEF SessionsOK, session
<1>2. LoopsOK BY DEF Init, LoopsOK
<1>3. RestOK
  <2>1. queue \in Seq(Closure) BY DEF Init, Run, Closure, Operations
  <2>2. open \subseteq Rooms BY DEF Init, First
  <2>3. drops \in 0..MaxDrops BY DropsAssumption DEF Init
  <2> QED BY <2>1, <2>2, <2>3 DEF Init, RestOK, ShutdownStages
<1>4. ReconnectingHasLoop BY DEF Init, ReconnectingHasLoop
<1> QED BY <1>1, <1>2, <1>3, <1>4, TypeParts DEF IInv

-----------------------------------------------------------------------------
(* The sessions' steps.                                                      *)

\* What a step that leaves the loops and the model alone preserves.
LEMMA LoopsKept ==
    ASSUME IInv, UNCHANGED <<loops, reconnectTask, isReconnecting, isShutDown>>
    PROVE  LoopsOK' /\ ReconnectingHasLoop'
<1>1. LoopsOK' BY TypeParts DEF IInv, LoopsOK
<1>2. ReconnectingHasLoop' BY DEF IInv, ReconnectingHasLoop
<1> QED BY <1>1, <1>2

LEMMA YieldOK ==
    ASSUME SessionsOK, NEW s \in 1..session, NEW e \in {"loggedIn", "hint"}
    PROVE  /\ sessions[s] \in Session
           /\ Yield(s, e) \in Seq({"loggedIn", "hint"})
<1>1. sessions[s] \in Session BY DEF SessionsOK, session
<1>2. sessions[s].stream \in Seq({"loggedIn", "hint"}) BY <1>1 DEF Session
<1> QED BY <1>1, <1>2 DEF Yield

LEMMA SessionSteps ==
    ASSUME IInv, NEW s \in 1..session,
           DialWaits(s) \/ PathChanges(s) \/ LogsIn(s) \/ Drops(s) \/ DropsAgain(s)
              \/ StopsConsuming(s)
    PROVE  IInv'
<1>1. SessionsOK /\ RestOK BY TypeParts DEF IInv
<1>2. sessions[s] \in Session BY <1>1, YieldOK
<1>3. UNCHANGED <<loops, reconnectTask, isReconnecting, isShutDown, consumerStopped, queue,
                  open, joining, indicator, mistaken, shutdownAt>>
  BY DEF DialWaits, PathChanges, LogsIn, Drops, DropsAgain, StopsConsuming, model
<1>4. drops' \in 0..MaxDrops
  <2>1. drops' = drops \/ (drops < MaxDrops /\ drops' = drops + 1)
    BY DEF DialWaits, PathChanges, LogsIn, Drops, DropsAgain, StopsConsuming
  <2> QED BY <1>1, <2>1, DropsAssumption DEF RestOK
<1>5. \E e \in Session : sessions' = [sessions EXCEPT ![s] = e]
  <2>1. CASE DialWaits(s) \/ PathChanges(s)
    <3>1. \E stage \in SessionStages : sessions' = [sessions EXCEPT ![s].stage = stage]
      BY <2>1 DEF DialWaits, PathChanges, SessionStages
    <3>2. PICK stage \in SessionStages :
             sessions' = [sessions EXCEPT ![s] = [sessions[s] EXCEPT !.stage = stage]]
      BY <3>1
    <3>3. [sessions[s] EXCEPT !.stage = stage] \in Session BY <1>2 DEF Session
    <3> QED BY <3>2, <3>3
  <2>2. CASE StopsConsuming(s)
    <3>1. sessions' = [sessions EXCEPT ![s] = [sessions[s] EXCEPT !.stream = <<>>]]
      BY <2>2 DEF StopsConsuming
    <3>2. <<>> \in Seq({"loggedIn", "hint"}) OBVIOUS
    <3>3. [sessions[s] EXCEPT !.stream = <<>>] \in Session BY <1>2, <3>2 DEF Session
    <3> QED BY <3>1, <3>3
  <2>3. CASE LogsIn(s)
    <3> DEFINE e == [sessions[s] EXCEPT !.welcomed = TRUE, !.connected = TRUE,
                                        !.stream = Yield(s, "loggedIn")]
    <3>1. sessions' = [sessions EXCEPT ![s] = e] BY <2>3 DEF LogsIn
    <3>2. e \in Session BY <1>1, <1>2, YieldOK DEF Session
    <3> QED BY <3>1, <3>2
  <2>4. CASE Drops(s) \/ DropsAgain(s)
    <3>1. PICK stage \in SessionStages :
             sessions' = [sessions EXCEPT ![s].stage = stage, ![s].connected = FALSE,
                                          ![s].stream = Yield(s, "hint")]
      BY <2>4 DEF Drops, DropsAgain, SessionStages
    <3> DEFINE e == [sessions[s] EXCEPT !.stage = stage, !.connected = FALSE,
                                        !.stream = Yield(s, "hint")]
    <3>2. sessions' = [sessions EXCEPT ![s] = e] BY <3>1
    <3>3. e \in Session BY <1>1, <1>2, YieldOK DEF Session
    <3> QED BY <3>2, <3>3
  <2> QED BY <2>1, <2>2, <2>3, <2>4
<1>6. SessionsOK' /\ session' = session BY <1>1, <1>5, OneSession
<1>7. RestOK' BY <1>1, <1>3, <1>4, <1>6 DEF RestOK
<1> QED BY <1>3, <1>6, <1>7, LoopsKept, TypeParts DEF IInv

LEMMA ConsumeStep ==
    ASSUME IInv, NEW s \in 1..session, Consumes(s)
    PROVE  IInv'
<1>1. SessionsOK /\ RestOK BY TypeParts DEF IInv
<1>2. sessions[s] \in Session BY <1>1 DEF SessionsOK, session
<1>3. /\ sessions[s].stream \in Seq({"loggedIn", "hint"})
      /\ sessions[s].stream # <<>>
  BY <1>2 DEF Session, Consumes
<1>4. /\ Tail(sessions[s].stream) \in Seq({"loggedIn", "hint"})
      /\ Head(sessions[s].stream) \in Operations
  BY <1>3 DEF Operations
<1> DEFINE e == [sessions[s] EXCEPT !.stream = Tail(sessions[s].stream)]
<1>5. e \in Session BY <1>2, <1>4 DEF Session
<1>6. sessions' = [sessions EXCEPT ![s] = e] BY DEF Consumes
<1>7. SessionsOK' /\ session' = session BY <1>1, <1>5, <1>6, OneSession
<1>8. queue' \in Seq(Closure) BY <1>1, <1>4, QueueSteps, SMTT(30) DEF Consumes, RestOK, session
<1>9. RestOK' BY <1>1, <1>7, <1>8 DEF Consumes, RestOK, model
<1> QED BY <1>7, <1>9, LoopsKept, TypeParts DEF IInv, Consumes, model

\* The end of a dial: the loop that awaits it was not done, and goes on uncancelled.
LEMMA DialEndSteps ==
    ASSUME IInv, NEW s \in 1..session, DialSucceeds(s) \/ DialFails(s)
    PROVE  IInv'
<1>1. SessionsOK /\ RestOK /\ LoopsOK BY TypeParts DEF IInv
<1>2. PICK stage \in SessionStages :
         sessions' = [sessions EXCEPT ![s] = [sessions[s] EXCEPT !.stage = stage]]
  BY DEF DialSucceeds, DialFails, SessionStages
<1>3. sessions[s] \in Session BY <1>1 DEF SessionsOK, session
<1>4. [sessions[s] EXCEPT !.stage = stage] \in Session BY <1>3 DEF Session
<1>5. SessionsOK' /\ session' = session BY <1>1, <1>2, <1>4, OneSession
<1>6. UNCHANGED <<consumerStopped, queue, reconnectTask, isReconnecting, isShutDown, open,
                  joining, indicator, mistaken, shutdownAt, drops>>
  BY DEF DialSucceeds, DialFails, model
<1>7. RestOK' BY <1>1, <1>5, <1>6 DEF RestOK
<1>8. \A loop \in Loop : /\ Connected(loop) \in Loop /\ NextAttempt(loop) \in Loop
                         /\ ~loop.cancelled =>
                               /\ ~Connected(loop).cancelled /\ Connected(loop).at # "done"
                               /\ ~NextAttempt(loop).cancelled /\ NextAttempt(loop).at # "done"
  <2> SUFFICES ASSUME NEW loop \in Loop
               PROVE  /\ Connected(loop) \in Loop /\ NextAttempt(loop) \in Loop
                      /\ ~loop.cancelled =>
                            /\ ~Connected(loop).cancelled /\ Connected(loop).at # "done"
                            /\ ~NextAttempt(loop).cancelled /\ NextAttempt(loop).at # "done"
    OBVIOUS
  <2>1. /\ NextAttempt(loop) \in Loop /\ NextAttempt(loop).at = "head"
        /\ NextAttempt(loop).cancelled = loop.cancelled
    <3>1. NextAttempt(loop) = [loop EXCEPT !.at = "head", !.attempt = loop.attempt + 1]
      BY DEF NextAttempt, Loop
    <3>2. loop.attempt + 1 \in Nat BY DEF Loop
    <3> QED BY <3>1, <3>2 DEF Loop, LoopStages
  <2>2. CASE loop.cancelled BY <2>1, <2>2, NewRecords DEF Connected
  <2>3. CASE ~loop.cancelled
    <3>1. Connected(loop) = [loop EXCEPT !.at = "grace"] BY <2>3 DEF Connected
    <3>2. /\ Connected(loop) \in Loop /\ Connected(loop).at = "grace"
          /\ Connected(loop).cancelled = loop.cancelled
      BY <3>1 DEF Loop, LoopStages
    <3> QED BY <2>1, <2>3, <3>2
  <2> QED BY <2>2, <2>3
<1>9. \A l \in 1..Len(loops) : loops[l] \in Loop BY <1>1 DEF LoopsOK
<1>10. /\ loops' = [l \in 1..Len(loops) |-> loops'[l]]
       /\ \A l \in 1..Len(loops) :
             /\ loops'[l] \in Loop
             /\ ~loops[l].cancelled /\ loops[l].at # "done" =>
                   ~loops'[l].cancelled /\ loops'[l].at # "done"
             /\ ~loops[l].cancelled => ~loops'[l].cancelled
  <2>1. CASE DialSucceeds(s)
    BY <2>1, <1>8, <1>9 DEF DialSucceeds, ConnectReturns
  <2>2. CASE DialFails(s)
    BY <2>2, <1>8, <1>9 DEF DialFails, ConnectThrows
  <2> QED BY <2>1, <2>2
<1>11. loops' \in Seq(Loop) /\ Len(loops') = Len(loops) BY <1>1, <1>10, UpdateAll DEF LoopsOK
<1>12. LoopsOK' BY <1>1, <1>6, <1>11 DEF LoopsOK
<1>13. ReconnectingHasLoop' BY <1>6, <1>10, <1>11 DEF IInv, ReconnectingHasLoop
<1> QED BY <1>5, <1>7, <1>12, <1>13, TypeParts DEF IInv
-----------------------------------------------------------------------------
(* The queue's closures.                                                     *)

\* What a closure finds: a queue that stays one without it.
LEMMA ClosureFound ==
    ASSUME IInv, NEW op, Closes(op)
    PROVE  /\ queue # <<>> /\ Subject \in Nat
           /\ Tail(queue) \in Seq(Closure)
           /\ \A o \in Operations, of \in Nat :
                 Append(Tail(queue), Run(o, of)) \in Seq(Closure)
           /\ SessionsOK /\ LoopsOK /\ RestOK
<1>1. SessionsOK /\ LoopsOK /\ RestOK BY TypeParts DEF IInv
<1> QED BY <1>1, QueueSteps DEF RestOK, Closes

LEMMA ConnectAndDisconnect ==
    ASSUME IInv, ConnectRuns \/ DisconnectRuns
    PROVE  IInv'
<1>1. /\ SessionsOK /\ RestOK /\ Tail(queue) \in Seq(Closure)
      /\ queue' = Tail(queue)
      /\ UNCHANGED <<consumerStopped, loops, model, shutdownAt, drops>>
  BY ClosureFound DEF ConnectRuns, DisconnectRuns
<1>2. Subject \in 1..session => sessions[Subject] \in Session BY <1>1 DEF SessionsOK, session
<1>3. SessionsOK' /\ session' = session
  <2>1. CASE ConnectRuns
    <3> DEFINE e == [sessions[Subject] EXCEPT !.stage = "dialing"]
    <3>1. sessions' = [sessions EXCEPT ![Subject] = e] BY <2>1 DEF ConnectRuns
    <3>2. Subject \in 1..session => e \in Session BY <1>2 DEF Session, SessionStages
    <3> QED BY <1>1, <3>1, <3>2, OneSession
  <2>2. CASE DisconnectRuns
    <3> DEFINE e == [ClosedSession EXCEPT !.stream = sessions[Subject].stream]
    <3>1. sessions' = [sessions EXCEPT ![Subject] = e] BY <2>2 DEF DisconnectRuns
    <3>2. Subject \in 1..session => e \in Session BY <1>2, NewRecords DEF Session
    <3> QED BY <1>1, <3>1, <3>2, OneSession
  <2> QED BY <2>1, <2>2
<1>4. RestOK' BY <1>1, <1>3 DEF RestOK, model
<1> QED BY <1>1, <1>3, <1>4, LoopsKept, TypeParts DEF IInv, model

\* A login lets go of the loop it cancels.
LEMMA LoginStep ==
    ASSUME IInv, LoggedInRuns
    PROVE  IInv'
<1>1. /\ SessionsOK /\ LoopsOK /\ RestOK /\ Tail(queue) \in Seq(Closure)
      /\ queue' = Tail(queue)
      /\ UNCHANGED <<sessions, consumerStopped, shutdownAt, drops, isShutDown, open>>
  BY ClosureFound DEF LoggedInRuns, model
<1>2. SessionsOK' /\ session' = session BY <1>1 DEF SessionsOK, session
<1>3. CASE isShutDown
  <2>1. UNCHANGED <<loops, model>> BY <1>3 DEF LoggedInRuns
  <2>2. RestOK' BY <1>1, <1>2, <2>1 DEF RestOK, model
  <2> QED BY <1>2, <2>1, <2>2, LoopsKept, TypeParts DEF IInv, model
<1>4. CASE ~isShutDown
  <2>1. /\ joining' = joining \cup Joins(IF isReconnecting THEN open ELSE First)
        /\ FinishReconnect
    BY <1>4 DEF LoggedInRuns
  <2>2. joining' \subseteq [on : 1..session, rooms : SUBSET Rooms]
    <3>1. (IF isReconnecting THEN open ELSE First) \in SUBSET Rooms BY <1>1 DEF RestOK, First
    <3>2. session \in 1..session BY <1>1 DEF SessionsOK, session
    <3>3. \A rs \in SUBSET Rooms : Joins(rs) \subseteq [on : 1..session, rooms : SUBSET Rooms]
      BY <3>2 DEF Joins
    <3> QED BY <1>1, <2>1, <3>1, <3>3 DEF RestOK
  <2>3. CASE ~isReconnecting
    <3>1. UNCHANGED <<isReconnecting, reconnectTask, loops, indicator, mistaken>>
      BY <2>1, <2>3 DEF FinishReconnect
    <3>2. RestOK' BY <1>1, <1>2, <2>2, <3>1 DEF RestOK
    <3> QED BY <1>1, <1>2, <3>1, <3>2, LoopsKept, TypeParts DEF IInv
  <2>4. CASE isReconnecting
    <3>1. /\ isReconnecting' = FALSE /\ reconnectTask' = 0 /\ indicator' = "connected"
          /\ mistaken' \in BOOLEAN
          /\ loops' = [loops EXCEPT ![reconnectTask] =
                                       [loops[reconnectTask] EXCEPT !.cancelled = TRUE]]
      BY <2>1, <2>4 DEF FinishReconnect
    <3>2. reconnectTask \in 1..Len(loops) => loops[reconnectTask] \in Loop
      BY <1>1 DEF LoopsOK
    <3>3. reconnectTask \in 1..Len(loops) =>
             [loops[reconnectTask] EXCEPT !.cancelled = TRUE] \in Loop
      BY <3>2 DEF Loop
    <3>4. loops' \in Seq(Loop) BY <1>1, <3>1, <3>3, Update DEF LoopsOK
    <3>5. LoopsOK' BY <3>1, <3>4 DEF LoopsOK
    <3>6. RestOK' BY <1>1, <1>2, <2>2, <3>1 DEF RestOK
    <3> QED BY <1>2, <3>1, <3>5, <3>6, TypeParts DEF IInv, ReconnectingHasLoop
  <2> QED BY <1>1, <2>3, <2>4 DEF RestOK
<1> QED BY <1>3, <1>4

\* A hint starts a loop, which is then the one held.
LEMMA HintStep ==
    ASSUME IInv, HintRuns
    PROVE  IInv'
<1>1. /\ SessionsOK /\ LoopsOK /\ RestOK /\ Tail(queue) \in Seq(Closure)
      /\ queue' = Tail(queue) /\ MaybeStartReconnect
      /\ UNCHANGED <<sessions, consumerStopped, isShutDown, open, joining, indicator, shutdownAt,
                     drops>>
  BY ClosureFound DEF HintRuns
<1>2. SessionsOK' /\ session' = session BY <1>1 DEF SessionsOK, session
<1>3. CASE ~(~isShutDown /\ ~isReconnecting)
  <2>1. UNCHANGED <<isReconnecting, loops, reconnectTask, mistaken>>
    BY <1>1, <1>3 DEF MaybeStartReconnect
  <2>2. RestOK' BY <1>1, <1>2, <2>1 DEF RestOK
  <2> QED BY <1>1, <1>2, <2>1, <2>2, LoopsKept, TypeParts DEF IInv
<1>4. CASE ~isShutDown /\ ~isReconnecting
  <2>1. /\ isReconnecting' = TRUE /\ mistaken' = FALSE
        /\ loops' = Append(loops, NewLoop)
        /\ reconnectTask' = Len(loops) + 1
    BY <1>1, <1>4 DEF MaybeStartReconnect
  <2>2. /\ loops' \in Seq(Loop) /\ Len(loops') = Len(loops) + 1
        /\ loops'[Len(loops) + 1] = NewLoop
        /\ Len(loops) \in Nat
    BY <1>1, <2>1, NewRecords DEF LoopsOK
  <2>3. LoopsOK' BY <2>1, <2>2 DEF LoopsOK
  <2>4. ReconnectingHasLoop' BY <2>1, <2>2, NewRecords DEF ReconnectingHasLoop
  <2>5. RestOK' BY <1>1, <1>2, <2>1 DEF RestOK
  <2> QED BY <1>2, <2>3, <2>4, <2>5, TypeParts DEF IInv
<1> QED BY <1>3, <1>4
\* An attempt's closure ends its loop only when there is nothing to reconnect.
LEMMA AttemptStep ==
    ASSUME IInv, AttemptRuns
    PROVE  IInv'
<1>1. /\ SessionsOK /\ LoopsOK /\ RestOK /\ Subject \in Nat
      /\ Tail(queue) \in Seq(Closure)
      /\ \A o \in Operations, of \in Nat : Append(Tail(queue), Run(o, of)) \in Seq(Closure)
      /\ UNCHANGED <<model, shutdownAt, drops>>
  BY ClosureFound DEF AttemptRuns
<1>2. session \in Nat BY <1>1 DEF SessionsOK, session
<1>3. Subject \in 1..Len(loops) => loops[Subject] \in Loop BY <1>1 DEF LoopsOK
<1>4. UNCHANGED <<reconnectTask, isReconnecting, isShutDown>> BY <1>1 DEF model
<1>5. CASE MayAttempt
  <2> DEFINE e == [loops[Subject] EXCEPT !.at = "connecting", !.fresh = session + 1]
  <2>1. /\ queue' = Append(Tail(queue), Run("disconnect", session))
        /\ sessions' = Append(sessions, NewSession)
        /\ consumerStopped' = FALSE
        /\ loops' = [loops EXCEPT ![Subject] = e]
    BY <1>5 DEF AttemptRuns
  <2>2. Subject \in 1..Len(loops) => e \in Loop /\ e.at = "connecting"
                                    /\ e.cancelled = loops[Subject].cancelled
    <3> SUFFICES ASSUME Subject \in 1..Len(loops)
                 PROVE  e \in Loop /\ e.at = "connecting" /\ e.cancelled = loops[Subject].cancelled
      OBVIOUS
    <3>1. loops[Subject] \in Loop BY <1>3
    <3>2. session + 1 \in Nat BY <1>2
    <3> QED BY <3>1, <3>2 DEF Loop, LoopStages
  <2>3. /\ LoopsOK' /\ Len(loops') = Len(loops)
        /\ \A k \in 1..Len(loops) : loops'[k] = IF k = Subject THEN e ELSE loops[k]
    <3>1. Subject \in 1..Len(loops) => e \in Loop BY <2>2
    <3>2. loops' = [loops EXCEPT ![Subject] = e] BY <2>1
    <3>3. loops \in Seq(Loop) BY <1>1 DEF LoopsOK
    <3> HIDE DEF e
    <3>4. /\ [loops EXCEPT ![Subject] = e] \in Seq(Loop)
          /\ Len([loops EXCEPT ![Subject] = e]) = Len(loops)
          /\ \A k \in 1..Len(loops) :
                [loops EXCEPT ![Subject] = e][k] = IF k = Subject THEN e ELSE loops[k]
      BY <3>1, <3>3, Update
    <3> QED BY <1>1, <1>4, <3>2, <3>4 DEF LoopsOK
  <2>4. ReconnectingHasLoop' BY <1>4, <2>2, <2>3 DEF IInv, ReconnectingHasLoop
  <2>5. SessionsOK' /\ session' = session + 1
    BY <1>1, <2>1, NewRecords DEF SessionsOK, session
  <2>6. queue' \in Seq(Closure) BY <1>1, <1>2, <2>1 DEF Operations
  <2>7. joining' \subseteq [on : 1..session', rooms : SUBSET Rooms]
    <3>1. 1..session \subseteq 1..session' BY <1>2, <2>5
    <3> QED BY <1>1, <3>1 DEF RestOK, model
  <2>8. RestOK' BY <1>1, <2>1, <2>6, <2>7 DEF RestOK, model
  <2> QED BY <2>3, <2>4, <2>5, <2>8, TypeParts DEF IInv
<1>6. CASE ~MayAttempt
  <2>1. /\ queue' = Tail(queue)
        /\ loops' = [loops EXCEPT ![Subject] = DoneLoop]
        /\ UNCHANGED <<sessions, consumerStopped>>
    BY <1>6 DEF AttemptRuns
  <2>2. /\ LoopsOK' /\ Len(loops') = Len(loops)
        /\ \A k \in 1..Len(loops) : loops'[k] = IF k = Subject THEN DoneLoop ELSE loops[k]
    <3>1. /\ loops' \in Seq(Loop) /\ Len(loops') = Len(loops)
          /\ \A k \in 1..Len(loops) : loops'[k] = IF k = Subject THEN DoneLoop ELSE loops[k]
      BY <1>1, <2>1, NewRecords, Update DEF LoopsOK
    <3> QED BY <1>1, <1>4, <3>1 DEF LoopsOK
  <2>3. isReconnecting => isShutDown BY <1>1, <1>6 DEF MayAttempt, RestOK
  <2>4. ReconnectingHasLoop'
    BY <1>4, <2>2, <2>3, NewRecords DEF IInv, ReconnectingHasLoop
  <2>5. SessionsOK' /\ session' = session BY <1>1, <2>1 DEF SessionsOK, session
  <2>6. RestOK' BY <1>1, <2>1, <2>5 DEF RestOK, model
  <2> QED BY <2>2, <2>4, <2>5, <2>6, TypeParts DEF IInv
<1> QED BY <1>5, <1>6

\* A give-up, even one by a loop no longer held, leaves no reconnect under way.
LEMMA GiveUpStep ==
    ASSUME IInv, GiveUpRuns
    PROVE  IInv'
<1>1. /\ SessionsOK /\ LoopsOK /\ RestOK
      /\ Tail(queue) \in Seq(Closure)
      /\ \A o \in Operations, of \in Nat : Append(Tail(queue), Run(o, of)) \in Seq(Closure)
      /\ loops' = [loops EXCEPT ![Subject] = DoneLoop] /\ GiveUpReconnect
      /\ UNCHANGED <<sessions, consumerStopped, isShutDown, open, joining, mistaken, shutdownAt,
                     drops>>
  BY ClosureFound DEF GiveUpRuns
<1>2. SessionsOK' /\ session' = session /\ session \in Nat BY <1>1 DEF SessionsOK, session
<1>3. loops' \in Seq(Loop) /\ Len(loops') = Len(loops)
  BY <1>1, NewRecords, Update DEF LoopsOK
<1>4. /\ ~isReconnecting'
      /\ reconnectTask' \in {0, reconnectTask}
      /\ queue' \in Seq(Closure)
      /\ indicator' \in {indicator, "gaveUp"}
  <2>1. CASE isReconnecting BY <1>1, <1>2, <2>1 DEF GiveUpReconnect, Operations
  <2>2. CASE ~isReconnecting BY <1>1, <2>2 DEF GiveUpReconnect
  <2> QED BY <2>1, <2>2
<1>5. LoopsOK' BY <1>1, <1>3, <1>4 DEF LoopsOK
<1>6. isReconnecting' \in BOOLEAN BY <1>1, <1>4 DEF GiveUpReconnect, RestOK
<1>7. RestOK' BY <1>1, <1>2, <1>4, <1>6 DEF RestOK
<1> QED BY <1>2, <1>4, <1>5, <1>7, TypeParts DEF IInv, ReconnectingHasLoop
-----------------------------------------------------------------------------
(* Joins, the loops' own steps, and shutdown().                              *)

\* What a step that touches neither sessions nor the queue's contents preserves.
LEMMA JoinSteps ==
    ASSUME IInv, JoinRuns \/ \E r \in Rooms : UserJoins(r)
    PROVE  IInv'
<1>1. SessionsOK /\ RestOK BY TypeParts DEF IInv
<1>2. CASE JoinRuns
  <2>1. PICK j \in joining :
           /\ joining' = joining \ {j}
           /\ sessions' = IF sessions[j.on].connected
                          THEN [sessions EXCEPT ![j.on].joined = @ \cup j.rooms]
                          ELSE sessions
           /\ UNCHANGED <<consumerStopped, queue, loops, reconnectTask, isReconnecting,
                          isShutDown, open, shutdownAt, indicator, mistaken, drops>>
    BY <1>2 DEF JoinRuns
  <2>2. j.on \in 1..session /\ j.rooms \in SUBSET Rooms BY <1>1 DEF RestOK
  <2>3. sessions[j.on] \in Session BY <1>1, <2>2 DEF SessionsOK, session
  <2> DEFINE e == [sessions[j.on] EXCEPT !.joined = sessions[j.on].joined \cup j.rooms]
  <2>4. e \in Session
    <3>1. sessions[j.on].joined \cup j.rooms \in SUBSET Rooms BY <2>2, <2>3 DEF Session
    <3> QED BY <2>3, <3>1 DEF Session
  <2>5. SessionsOK' /\ session' = session
    <3>1. CASE sessions[j.on].connected
      <4>1. sessions' = [sessions EXCEPT ![j.on] = e] BY <2>1, <3>1
      <4> HIDE DEF e
      <4> QED BY <1>1, <2>4, <4>1, OneSession
    <3>2. CASE ~sessions[j.on].connected BY <1>1, <2>1, <3>2 DEF SessionsOK, session
    <3> QED BY <3>1, <3>2
  <2>6. joining' \subseteq [on : 1..session', rooms : SUBSET Rooms]
    BY <1>1, <2>1, <2>5 DEF RestOK
  <2>7. RestOK' BY <1>1, <2>1, <2>5, <2>6 DEF RestOK
  <2> QED BY <2>1, <2>5, <2>7, LoopsKept, TypeParts DEF IInv
<1>3. ASSUME NEW r \in Rooms, UserJoins(r) PROVE IInv'
  <2>1. SessionsOK' /\ session' = session BY <1>1, <1>3 DEF UserJoins, SessionsOK, session
  <2>2. session \in 1..session BY <1>1 DEF SessionsOK, session
  <2>3. joining' \subseteq [on : 1..session', rooms : SUBSET Rooms]
    BY <1>1, <1>3, <2>1, <2>2 DEF RestOK, UserJoins
  <2>4. RestOK' BY <1>1, <1>3, <2>1, <2>3 DEF RestOK, UserJoins
  <2> QED BY <1>3, <2>1, <2>4, LoopsKept, TypeParts DEF IInv, UserJoins
<1> QED BY <1>2, <1>3

\* A loop ends by itself only when cancelled or when nothing is reconnecting.
LEMMA LoopSteps ==
    ASSUME IInv, NEW l \in 1..Len(loops), LoopStep(l)
    PROVE  IInv'
<1>1. /\ SessionsOK /\ LoopsOK /\ RestOK BY TypeParts DEF IInv
<1>2. loops[l] \in Loop /\ Len(loops) \in Nat BY <1>1 DEF LoopsOK
<1>3. l \in Nat OBVIOUS
<1>4. UNCHANGED <<sessions, consumerStopped, reconnectTask, isReconnecting, isShutDown, open,
                  joining, mistaken, shutdownAt, drops>>
  BY DEF LoopStep, LoopHead, BackoffEnds, LoopConnects, GraceEnds, GraceExpires, model
<1>5. indicator' \in {indicator, "reconnecting"}
  BY DEF LoopStep, LoopHead, BackoffEnds, LoopConnects, GraceEnds, GraceExpires, model
<1>6. queue' \in Seq(Closure)
  <2>1. \/ queue' = queue
        \/ \E op \in Operations, of \in Nat : queue' = Append(queue, Run(op, of))
    <3>1. loops[l].fresh \in Nat BY <1>2 DEF Loop
    <3>2. CASE LoopHead(l) BY <1>3, <3>2 DEF LoopHead, Operations
    <3>3. CASE BackoffEnds(l) BY <1>3, <3>3 DEF BackoffEnds, Operations
    <3>4. CASE LoopConnects(l) BY <3>1, <3>4 DEF LoopConnects, Operations
    <3>5. CASE GraceEnds(l) \/ GraceExpires(l) BY <3>5 DEF GraceEnds, GraceExpires
    <3> QED BY <3>2, <3>3, <3>4, <3>5 DEF LoopStep
  <2> QED BY <1>1, <2>1, QueueSteps DEF RestOK
<1>7. PICK e \in Loop :
         /\ loops' = [loops EXCEPT ![l] = e]
         /\ \/ e.cancelled = loops[l].cancelled /\ e.at # "done"
            \/ loops[l].cancelled
            \/ ~isReconnecting
  <2>1. ASSUME NEW a \in LoopStages \ {"done"}, loops' = [loops EXCEPT ![l].at = a]
        PROVE  \E e \in Loop :
                  /\ loops' = [loops EXCEPT ![l] = e]
                  /\ e.cancelled = loops[l].cancelled /\ e.at # "done"
    <3> DEFINE e == [loops[l] EXCEPT !.at = a]
    <3>1. e \in Loop /\ e.cancelled = loops[l].cancelled /\ e.at # "done" BY <1>2 DEF Loop
    <3>2. loops' = [loops EXCEPT ![l] = e] BY <2>1
    <3> QED BY <3>1, <3>2
  <2>2. CASE LoopHead(l) BY <2>1, <2>2 DEF LoopHead, LoopStages
  <2>3. CASE BackoffEnds(l)
    <3>1. CASE loops[l].cancelled BY <2>3, <3>1, NewRecords DEF BackoffEnds
    <3>2. CASE ~loops[l].cancelled BY <2>1, <2>3, <3>2 DEF BackoffEnds, LoopStages
    <3> QED BY <3>1, <3>2
  <2>4. CASE LoopConnects(l) BY <2>1, <2>4 DEF LoopConnects, LoopStages
  <2>5. CASE GraceEnds(l) BY <2>5, NewRecords DEF GraceEnds
  <2>6. CASE GraceExpires(l)
    <3> DEFINE e == [loops[l] EXCEPT !.at = "head", !.attempt = loops[l].attempt + 1]
    <3>1. loops[l].attempt + 1 \in Nat BY <1>2 DEF Loop
    <3>2. e \in Loop /\ e.cancelled = loops[l].cancelled /\ e.at # "done"
      BY <1>2, <3>1 DEF Loop, LoopStages
    <3>3. NextAttempt(loops[l]) = e BY <1>2 DEF NextAttempt, Loop
    <3>4. loops' = [loops EXCEPT ![l] = e] BY <2>6, <3>3 DEF GraceExpires
    <3> QED BY <3>2, <3>4
  <2> QED BY <2>2, <2>3, <2>4, <2>5, <2>6 DEF LoopStep
<1>8. /\ loops' \in Seq(Loop) /\ Len(loops') = Len(loops)
      /\ \A k \in 1..Len(loops) : loops'[k] = IF k = l THEN e ELSE loops[k]
  BY <1>1, <1>7, Update DEF LoopsOK
<1>9. LoopsOK' BY <1>1, <1>4, <1>8 DEF LoopsOK
<1>10. ReconnectingHasLoop' BY <1>4, <1>7, <1>8 DEF IInv, ReconnectingHasLoop
<1>11. SessionsOK' /\ session' = session BY <1>1, <1>4 DEF SessionsOK, session
<1>12. RestOK' BY <1>1, <1>4, <1>5, <1>6, <1>11 DEF RestOK
<1> QED BY <1>9, <1>10, <1>11, <1>12, TypeParts DEF IInv

LEMMA ShutdownSteps ==
    ASSUME IInv,
           ShutdownCalled \/ CancelRuns \/ StopsConsumer \/ DisconnectsSession \/ ShutRuns
    PROVE  IInv'
<1>1. SessionsOK /\ LoopsOK /\ RestOK BY TypeParts DEF IInv
<1>2. /\ SessionsOK' /\ session' = session
      /\ UNCHANGED <<open, joining, indicator, mistaken, drops>>
  BY <1>1 DEF ShutdownCalled, CancelRuns, StopsConsumer, DisconnectsSession, ShutRuns,
              SessionsOK, session, model
<1>3. session \in Nat BY <1>1 DEF SessionsOK, session
<1>4. queue' \in Seq(Closure)
  <2>1. CASE ShutdownCalled
    BY <1>1, <2>1, QueueSteps DEF ShutdownCalled, RestOK, Operations
  <2>2. CASE CancelRuns \/ ShutRuns
    BY <1>1, <2>2, QueueSteps DEF CancelRuns, ShutRuns, RestOK, Closes
  <2>3. CASE StopsConsumer BY <1>1, <2>3 DEF StopsConsumer, RestOK
  <2>4. CASE DisconnectsSession
    <3>1. Run("disconnect", session) \in Closure /\ Run("shut", 0) \in Closure
      BY <1>3 DEF Run, Closure, Operations
    <3>2. <<Run("disconnect", session), Run("shut", 0)>> \in Seq(Closure) BY <3>1
    <3> QED BY <1>1, <2>4, <3>2, ConcatProperties DEF DisconnectsSession, RestOK
  <2> QED BY <2>1, <2>2, <2>3, <2>4
<1>5. CASE CancelRuns
  <2>1. /\ loops' = [l \in 1..Len(loops) |->
                        IF l = reconnectTask THEN [loops[l] EXCEPT !.cancelled = TRUE]
                        ELSE loops[l]]
        /\ reconnectTask' = 0 /\ isReconnecting' = FALSE /\ shutdownAt' = "stopping"
        /\ UNCHANGED <<consumerStopped, isShutDown>>
    BY <1>5 DEF CancelRuns
  <2>2. \A l \in 1..Len(loops) :
           loops[l] \in Loop /\ [loops[l] EXCEPT !.cancelled = TRUE] \in Loop
    <3>1. \A l \in 1..Len(loops) : loops[l] \in Loop BY <1>1 DEF LoopsOK
    <3>2. \A loop \in Loop : [loop EXCEPT !.cancelled = TRUE] \in Loop BY DEF Loop
    <3> QED BY <3>1, <3>2
  <2>3. loops' \in Seq(Loop) BY <1>1, <2>1, <2>2, UpdateAll DEF LoopsOK
  <2>4. LoopsOK' BY <2>1, <2>3 DEF LoopsOK
  <2>5. RestOK' BY <1>1, <1>2, <1>4, <2>1 DEF RestOK, ShutdownStages
  <2> QED BY <1>2, <2>1, <2>4, <2>5, TypeParts DEF IInv, ReconnectingHasLoop
<1>6. CASE ~CancelRuns
  <2>1. /\ UNCHANGED <<loops, reconnectTask, isReconnecting>>
        /\ consumerStopped' \in {consumerStopped, TRUE} /\ isShutDown' \in {isShutDown, TRUE}
        /\ shutdownAt' \in ShutdownStages
    BY <1>1, <1>6 DEF ShutdownCalled, StopsConsumer, DisconnectsSession, ShutRuns, model,
                      ShutdownStages
  <2>2. LoopsOK' BY <1>1, <2>1 DEF LoopsOK
  <2>3. isShutDown => isShutDown' BY <2>1
  <2>4. ReconnectingHasLoop' BY <2>1, <2>3 DEF IInv, ReconnectingHasLoop
  <2>5. RestOK' BY <1>1, <1>2, <1>4, <2>1 DEF RestOK
  <2> QED BY <1>2, <2>2, <2>4, <2>5, TypeParts DEF IInv
<1> QED BY <1>5, <1>6
LEMMA IInvNext == IInv /\ [Next]_vars => IInv'
<1> SUFFICES ASSUME IInv, [Next]_vars PROVE IInv' OBVIOUS
<1>1. CASE ClosureRuns
  BY <1>1, ConnectAndDisconnect, LoginStep, HintStep, AttemptStep, GiveUpStep, ShutdownSteps
     DEF ClosureRuns
<1>2. CASE JoinRuns \/ \E r \in Rooms : UserJoins(r) BY <1>2, JoinSteps
<1>3. CASE \E l \in 1..Len(loops) : LoopStep(l) BY <1>3, LoopSteps
<1>4. ASSUME NEW s \in 1..session,
             \/ DialEnds(s) \/ PathChanges(s) \/ LogsIn(s)
             \/ Drops(s) \/ DropsAgain(s)
             \/ Consumes(s) \/ StopsConsuming(s)
      PROVE  IInv'
  BY <1>4, SessionSteps, ConsumeStep, DialEndSteps DEF DialEnds
<1>5. CASE ShutdownCalled \/ StopsConsumer \/ DisconnectsSession BY <1>5, ShutdownSteps
<1>6. CASE UNCHANGED vars
  <2>1. SessionsOK /\ RestOK BY TypeParts DEF IInv
  <2>2. SessionsOK' /\ RestOK' BY <1>6, <2>1 DEF vars, model, SessionsOK, RestOK, session
  <2> QED BY <1>6, <2>2, LoopsKept, TypeParts DEF IInv, vars, model
<1> QED BY <1>1, <1>2, <1>3, <1>4, <1>5, <1>6 DEF Next

LEMMA Inductive == Spec => []IInv
<1> QED BY IInvInit, IInvNext, PTL DEF Spec

-----------------------------------------------------------------------------
(* The results.                                                              *)

\* Sessions, loops, closures and joins stay in their types, and every index kept
\* of one (reconnectTask, a join's session) is that of one that exists.
THEOREM TypeCorrect == Spec => []TypeOK
<1>1. IInv => TypeOK BY DEF IInv
<1> QED BY <1>1, Inductive, PTL

\* However many connections drop, and however late their events are handled,
\* the flag isReconnecting is never left set without a live loop to clear it.
THEOREM NobodyWaitsForNoLoop == Spec => []ReconnectingHasLoop
<1>1. IInv => ReconnectingHasLoop BY DEF IInv
<1> QED BY <1>1, Inductive, PTL

\* The end of shutdown() is the model's.
Down == isShutDown => shutdownAt = "down"

LEMMA DownInvariant == Spec => []Down
<1>1. Init => Down BY DEF Init, Down
<1>2. Down /\ [Next]_vars => Down'
  <2> SUFFICES ASSUME Down, [Next]_vars PROVE Down' OBVIOUS
  <2>1. CASE UNCHANGED <<isShutDown, shutdownAt>> BY <2>1 DEF Down
  <2>2. CASE ShutdownCalled \/ CancelRuns \/ StopsConsumer \/ DisconnectsSession \/ ShutRuns
    BY <2>2 DEF ShutdownCalled, CancelRuns, StopsConsumer, DisconnectsSession, ShutRuns, Down,
                model
  <2>3. CASE ClosureRuns /\ ~CancelRuns /\ ~ShutRuns
    <3>1. UNCHANGED <<isShutDown, shutdownAt>>
      BY <2>3 DEF ClosureRuns, ConnectRuns, DisconnectRuns, LoggedInRuns, HintRuns, AttemptRuns,
                  GiveUpRuns, model
    <3> QED BY <2>1, <3>1
  <2>4. CASE JoinRuns \/ (\E r \in Rooms : UserJoins(r))
    BY <2>1, <2>4 DEF JoinRuns, UserJoins
  <2>5. CASE \E l \in 1..Len(loops) : LoopStep(l)
    BY <2>1, <2>5 DEF LoopStep, LoopHead, BackoffEnds, LoopConnects, GraceEnds, GraceExpires,
                      model
  <2>6. ASSUME NEW s \in 1..session,
               \/ DialEnds(s) \/ PathChanges(s) \/ LogsIn(s)
               \/ Drops(s) \/ DropsAgain(s)
               \/ Consumes(s) \/ StopsConsuming(s)
        PROVE  Down'
    BY <2>1, <2>6 DEF DialEnds, DialSucceeds, DialFails, DialWaits, PathChanges, LogsIn, Drops,
                      DropsAgain, Consumes, StopsConsuming, model
  <2>7. CASE UNCHANGED vars BY <2>1, <2>7 DEF vars, model
  <2> QED BY <2>2, <2>3, <2>4, <2>5, <2>6, <2>7 DEF Next, ClosureRuns
<1> QED BY <1>1, <1>2, PTL DEF Spec

\* Once shutdown() is over the session is never replaced and no join is started,
\* though a loop begun inside shutdown() may still run its course.
THEOREM ShutDownIsFinal == Spec => InertWhenDown
<1>1. IInv /\ Down /\ [Next]_vars =>
         [isShutDown => session' = session /\ joining' \subseteq joining]_vars
  <2> SUFFICES ASSUME IInv, Down, Next, isShutDown
               PROVE  session' = session /\ joining' \subseteq joining
    BY DEF vars
  <2>1. SessionsOK /\ RestOK BY TypeParts DEF IInv
  <2>2. shutdownAt = "down" BY DEF Down
  <2>3. CASE ClosureRuns
    <3>1. UNCHANGED joining
      BY <2>3 DEF ClosureRuns, ConnectRuns, DisconnectRuns, LoggedInRuns, HintRuns, AttemptRuns,
                  GiveUpRuns, CancelRuns, ShutRuns, model
    <3>2. session' = session
      <4>1. CASE ConnectRuns \/ DisconnectRuns
        <5>1. \E e : sessions' = [sessions EXCEPT ![Subject] = e]
          BY <4>1 DEF ConnectRuns, DisconnectRuns
        <5> QED BY <2>1, <5>1 DEF SessionsOK, session
      <4>2. CASE LoggedInRuns \/ HintRuns \/ AttemptRuns \/ GiveUpRuns \/ CancelRuns \/ ShutRuns
        BY <4>2 DEF LoggedInRuns, HintRuns, AttemptRuns, GiveUpRuns, CancelRuns, ShutRuns,
                    MayAttempt, session
      <4> QED BY <2>3, <4>1, <4>2 DEF ClosureRuns
    <3> QED BY <3>1, <3>2
  <2>4. CASE JoinRuns
    <3>1. joining' \subseteq joining BY <2>4 DEF JoinRuns
    <3>2. sessions' = sessions \/ \E s, e : sessions' = [sessions EXCEPT ![s] = e]
      BY <2>4 DEF JoinRuns
    <3>3. session' = session BY <2>1, <3>2 DEF SessionsOK, session
    <3> QED BY <3>1, <3>3
  <2>5. CASE \E l \in 1..Len(loops) : LoopStep(l)
    BY <2>5 DEF LoopStep, LoopHead, BackoffEnds, LoopConnects, GraceEnds, GraceExpires, model,
                session
  <2>6. ASSUME NEW s \in 1..session,
               \/ DialEnds(s) \/ PathChanges(s) \/ LogsIn(s)
               \/ Drops(s) \/ DropsAgain(s)
               \/ Consumes(s) \/ StopsConsuming(s)
        PROVE  session' = session /\ joining' \subseteq joining
    <3>1. UNCHANGED joining
      BY <2>6 DEF DialEnds, DialSucceeds, DialFails, DialWaits, PathChanges, LogsIn, Drops,
                  DropsAgain, Consumes, StopsConsuming, model
    <3>2. \E e : sessions' = [sessions EXCEPT ![s] = e]
      BY <2>6 DEF DialEnds, DialSucceeds, DialFails, DialWaits, PathChanges, LogsIn, Drops,
                  DropsAgain, Consumes, StopsConsuming
    <3>3. session' = session BY <2>1, <3>2 DEF SessionsOK, session
    <3> QED BY <3>1, <3>3
  <2>7. CASE ShutdownCalled \/ StopsConsumer \/ DisconnectsSession
    BY <2>7 DEF ShutdownCalled, StopsConsumer, DisconnectsSession, session, model
  <2>8. ~(\E r \in Rooms : UserJoins(r)) BY <2>2 DEF UserJoins
  <2> QED BY <2>3, <2>4, <2>5, <2>6, <2>7, <2>8 DEF Next
<1> QED BY <1>1, Inductive, DownInvariant, PTL DEF Spec, InertWhenDown
-----------------------------------------------------------------------------
(* No loss goes unanswered.                                                  *)

\* Behind every login of s in q comes a hint of s.
Covered(q, s) ==
    \A i \in 1..Len(q) : q[i] = Run("loggedIn", s) =>
        \E k \in i + 1..Len(q) : q[k] = Run("hint", s)
Has(q, c) == \E i \in 1..Len(q) : q[i] = c

LEMMA AppendKeeps ==
    ASSUME NEW q \in Seq(Closure), NEW c \in Closure, NEW s
    PROVE  /\ Append(q, c) \in Seq(Closure)
           /\ \A d : Has(q, d) => Has(Append(q, c), d)
           /\ \A d : Has(Append(q, c), d) => Has(q, d) \/ d = c
           /\ Has(Append(q, c), c)
           /\ Covered(q, s) /\ c # Run("loggedIn", s) => Covered(Append(q, c), s)
           /\ c = Run("hint", s) /\ Run("loggedIn", s) # Run("hint", s) => Covered(Append(q, c), s)
<1>1. /\ Append(q, c) \in Seq(Closure) /\ Len(Append(q, c)) = Len(q) + 1 /\ Len(q) \in Nat
      /\ \A i \in 1..Len(q) : Append(q, c)[i] = q[i]
      /\ Append(q, c)[Len(q) + 1] = c
  OBVIOUS
<1> DEFINE a == Append(q, c)
<1> HIDE DEF a
<1>2. \A d : Has(q, d) => Has(a, d) BY <1>1 DEF Has, a
<1>3. \A d : Has(a, d) => Has(q, d) \/ d = c
  <2> SUFFICES ASSUME NEW d, NEW i \in 1..Len(a), a[i] = d PROVE Has(q, d) \/ d = c BY DEF Has
  <2>1. i \in 1..Len(q) \/ i = Len(q) + 1 BY <1>1 DEF a
  <2> QED BY <1>1, <2>1 DEF Has, a
<1>4. Has(a, c) BY <1>1 DEF Has, a
<1>5. ASSUME Covered(q, s), c # Run("loggedIn", s) PROVE Covered(a, s)
  <2> SUFFICES ASSUME NEW i \in 1..Len(a), a[i] = Run("loggedIn", s)
               PROVE  \E k \in i + 1..Len(a) : a[k] = Run("hint", s)
    BY DEF Covered
  <2>1. i \in 1..Len(q) /\ q[i] = Run("loggedIn", s) BY <1>1, <1>5 DEF a
  <2>2. PICK k \in i + 1..Len(q) : q[k] = Run("hint", s) BY <1>5, <2>1 DEF Covered
  <2>3. k \in 1..Len(q) /\ k \in i + 1..Len(a) BY <1>1, <2>2 DEF a
  <2> QED BY <1>1, <2>2, <2>3 DEF a
<1>6. ASSUME c = Run("hint", s), Run("loggedIn", s) # Run("hint", s) PROVE Covered(a, s)
  <2> SUFFICES ASSUME NEW i \in 1..Len(a), a[i] = Run("loggedIn", s)
               PROVE  \E k \in i + 1..Len(a) : a[k] = Run("hint", s)
    BY DEF Covered
  <2>1. i # Len(q) + 1 BY <1>1, <1>6 DEF a
  <2>2. Len(q) + 1 \in i + 1..Len(a) BY <1>1, <2>1 DEF a
  <2> QED BY <1>1, <1>6, <2>2 DEF a
<1> QED BY <1>1, <1>2, <1>3, <1>4, <1>5, <1>6 DEF a

LEMMA TailKeeps ==
    ASSUME NEW q \in Seq(Closure), q # <<>>, NEW s
    PROVE  /\ Tail(q) \in Seq(Closure) /\ Head(q) = q[1]
           /\ \A d : Has(Tail(q), d) => Has(q, d)
           /\ \A d : Has(q, d) => Has(Tail(q), d) \/ d = Head(q)
           /\ Covered(q, s) => Covered(Tail(q), s)
           /\ Covered(q, s) /\ Head(q) = Run("loggedIn", s) => Has(Tail(q), Run("hint", s))
<1>1. /\ Tail(q) \in Seq(Closure) /\ Head(q) = q[1]
      /\ Len(Tail(q)) = Len(q) - 1 /\ Len(q) \in Nat \ {0}
      /\ \A i \in 1..Len(q) - 1 : Tail(q)[i] = q[i + 1]
  OBVIOUS
<1> DEFINE u == Tail(q)
<1> HIDE DEF u
<1>2. \A d : Has(u, d) => Has(q, d)
  <2> SUFFICES ASSUME NEW d, NEW i \in 1..Len(u), u[i] = d PROVE Has(q, d) BY DEF Has
  <2>1. i + 1 \in 1..Len(q) /\ q[i + 1] = d BY <1>1 DEF u
  <2> QED BY <2>1 DEF Has
<1>3. ASSUME NEW i \in 1..Len(q), i # 1
      PROVE  i - 1 \in 1..Len(u) /\ u[i - 1] = q[i]
  <2>1. i - 1 \in 1..Len(q) - 1 /\ (i - 1) + 1 = i BY <1>1, <1>3
  <2> QED BY <1>1, <2>1 DEF u
<1>4. \A d : Has(q, d) => Has(u, d) \/ d = Head(q) BY <1>1, <1>3 DEF Has
<1>5. ASSUME Covered(q, s) PROVE Covered(u, s)
  <2> SUFFICES ASSUME NEW i \in 1..Len(u), u[i] = Run("loggedIn", s)
               PROVE  \E k \in i + 1..Len(u) : u[k] = Run("hint", s)
    BY DEF Covered
  <2>1. i + 1 \in 1..Len(q) /\ q[i + 1] = Run("loggedIn", s) BY <1>1 DEF u
  <2>2. PICK k \in (i + 1) + 1..Len(q) : q[k] = Run("hint", s) BY <1>5, <2>1 DEF Covered
  <2>3. k \in 1..Len(q) /\ k # 1 /\ k - 1 \in i + 1..Len(u) BY <1>1, <2>2 DEF u
  <2> QED BY <1>3, <2>2, <2>3
<1>6. ASSUME Covered(q, s), Head(q) = Run("loggedIn", s) PROVE Has(u, Run("hint", s))
  <2>1. PICK k \in 1 + 1..Len(q) : q[k] = Run("hint", s) BY <1>1, <1>6 DEF Covered
  <2>2. k \in 1..Len(q) /\ k # 1 BY <1>1, <2>1
  <2> QED BY <1>3, <2>1, <2>2 DEF Has
<1> QED BY <1>1, <1>2, <1>4, <1>5, <1>6 DEF u

\* The last that is heard of a lost session is a hint: behind each of its logins
\* still to be handled comes one.
LastIsHint ==
    shutdownAt = "no" /\ sessions[session].stage = "lost" =>
        IF sessions[session].stream = <<>>
        THEN Covered(queue, session)
        ELSE sessions[session].stream[Len(sessions[session].stream)] = "hint"
Heard == shutdownAt = "no" => ~consumerStopped
LossInv == Down /\ Heard /\ LastIsHint /\ LossIsAnswered

LEMMA HandledParts ==
    /\ Handled(session) <=>
          /\ sessions[session].stream = <<>>
          /\ ~Has(queue, Run("hint", session)) /\ ~Has(queue, Run("loggedIn", session))
    /\ Handled(session)' <=>
          /\ sessions'[session'].stream = <<>>
          /\ ~Has(queue', Run("hint", session')) /\ ~Has(queue', Run("loggedIn", session'))
<1> QED BY DEF Handled, Has

LEMMA Runs ==
    ASSUME NEW o1, NEW o2, NEW s1, NEW s2
    PROVE  /\ Run(o1, s1) = Run(o2, s2) <=> o1 = o2 /\ s1 = s2
           /\ \A c \in Closure : c = Run(c.op, c.of)
<1>1. Run(o1, s1).op = o1 /\ Run(o1, s1).of = s1 BY DEF Run
<1>2. Run(o2, s2).op = o2 /\ Run(o2, s2).of = s2 BY DEF Run
<1>3. \A c \in Closure : c = Run(c.op, c.of) BY DEF Closure, Run
<1> QED BY <1>1, <1>2, <1>3

\* What a step does to the queue that concerns no event of the current session.
Foreign(c) ==
    /\ c \in Closure
    /\ c # Run("loggedIn", session) /\ c # Run("hint", session)

\* The step leaves the current session's stage and stream alone.
SameSession ==
    /\ session' = session
    /\ sessions'[session].stage = sessions[session].stage
    /\ sessions'[session].stream = sessions[session].stream

\* A step that adds no event of the current session, and takes nothing.
LEMMA Adds ==
    ASSUME IInv, LossInv, shutdownAt = "no", SameSession,
           UNCHANGED <<isReconnecting, mistaken>>,
           queue' = queue \/ \E c : Foreign(c) /\ queue' = Append(queue, c)
    PROVE  LastIsHint' /\ LossIsAnswered'
<1>1. queue \in Seq(Closure) BY TypeParts DEF IInv, RestOK
<1>2. /\ Covered(queue, session) => Covered(queue', session)
      /\ \A d : Has(queue, d) => Has(queue', d)
  <2>1. CASE queue' = queue BY <2>1
  <2>2. CASE \E c : Foreign(c) /\ queue' = Append(queue, c)
    BY <1>1, <2>2, AppendKeeps DEF Foreign
  <2> QED BY <2>1, <2>2
<1>3. LastIsHint' BY <1>2 DEF LossInv, LastIsHint, SameSession
<1>4. LossIsAnswered'
  <2> SUFFICES ASSUME sessions'[session].stage = "lost", Handled(session)'
               PROVE  isReconnecting \/ mistaken \/ Has(queue', Run("disconnect", session))
    BY DEF LossIsAnswered, SameSession, Has
  <2>1. Handled(session) BY <1>2, HandledParts DEF SameSession
  <2>2. isReconnecting \/ mistaken \/ Has(queue, Run("disconnect", session))
    BY <2>1 DEF LossInv, LossIsAnswered, SameSession, Has
  <2> QED BY <1>2, <2>2
<1> QED BY <1>3, <1>4

\* A closure that answers the loss, or is a login with a hint behind it, or has
\* nothing to do with it.
LEMMA Takes ==
    ASSUME IInv, LossInv, shutdownAt = "no", SameSession, queue # <<>>,
           queue' = Tail(queue) \/ \E c : Foreign(c) /\ queue' = Append(Tail(queue), c),
           \/ isReconnecting' \/ mistaken' \/ Has(queue', Run("disconnect", session))
           \/ Head(queue) = Run("loggedIn", session)
           \/ /\ UNCHANGED <<isReconnecting, mistaken>>
              /\ Foreign(Head(queue)) /\ Head(queue) # Run("disconnect", session)
    PROVE  LastIsHint' /\ LossIsAnswered'
<1>1. queue \in Seq(Closure) /\ Tail(queue) \in Seq(Closure)
  BY TypeParts, TailKeeps DEF IInv, RestOK
<1>2. /\ Covered(Tail(queue), session) => Covered(queue', session)
      /\ \A d : Has(Tail(queue), d) => Has(queue', d)
  <2>1. CASE queue' = Tail(queue) BY <2>1
  <2>2. CASE \E c : Foreign(c) /\ queue' = Append(Tail(queue), c)
    <3>1. PICK c : Foreign(c) /\ queue' = Append(Tail(queue), c) BY <2>2
    <3> DEFINE u == Tail(queue)
    <3>2. u \in Seq(Closure) /\ queue' = Append(u, c) BY <1>1, <3>1
    <3> HIDE DEF u
    <3>3. c \in Closure /\ c # Run("loggedIn", session) BY <3>1 DEF Foreign
    <3>4. Covered(u, session) => Covered(Append(u, c), session) BY <3>2, <3>3, AppendKeeps
    <3>5. \A d : Has(u, d) => Has(Append(u, c), d) BY <3>2, <3>3, AppendKeeps
    <3> QED BY <3>2, <3>4, <3>5 DEF u
  <2> QED BY <2>1, <2>2
<1>3. LastIsHint' BY <1>1, <1>2, TailKeeps DEF LossInv, LastIsHint, SameSession
<1>4. LossIsAnswered'
  <2> SUFFICES ASSUME sessions'[session].stage = "lost", Handled(session)'
               PROVE  isReconnecting' \/ mistaken' \/ Has(queue', Run("disconnect", session))
    BY DEF LossIsAnswered, SameSession, Has
  <2>1. /\ sessions[session].stream = <<>>
        /\ ~Has(queue', Run("hint", session)) /\ ~Has(queue', Run("loggedIn", session))
    BY HandledParts DEF SameSession
  <2>2. Head(queue) # Run("loggedIn", session)
    <3>1. Covered(queue, session) BY <2>1 DEF LossInv, LastIsHint, SameSession
    <3> QED BY <1>1, <1>2, <2>1, <3>1, TailKeeps
  <2>3. ASSUME UNCHANGED <<isReconnecting, mistaken>>, Foreign(Head(queue)),
               Head(queue) # Run("disconnect", session)
        PROVE  isReconnecting' \/ mistaken' \/ Has(queue', Run("disconnect", session))
    <3>1. \A d : Has(queue, d) => Has(queue', d) \/ d = Head(queue) BY <1>1, <1>2, TailKeeps
    <3>2. Handled(session) BY <2>1, <2>3, <3>1, HandledParts DEF Foreign
    <3>3. isReconnecting \/ mistaken \/ Has(queue, Run("disconnect", session))
      BY <3>2 DEF LossInv, LossIsAnswered, SameSession, Has
    <3> QED BY <2>3, <3>1, <3>3
  <2> QED BY <2>2, <2>3
<1> QED BY <1>3, <1>4

LEMMA LossClosures ==
    ASSUME IInv, LossInv, shutdownAt = "no", ClosureRuns
    PROVE  LastIsHint' /\ LossIsAnswered'
<1>1. /\ SessionsOK /\ RestOK /\ LoopsOK BY TypeParts DEF IInv
<1>2. ~isShutDown BY <1>1 DEF LossInv, Down
<1>3. ~CancelRuns /\ ~ShutRuns BY DEF CancelRuns, ShutRuns
<1>4. session \in 1..session BY <1>1 DEF SessionsOK, session
<1>5. ASSUME NEW op, Closes(op)
      PROVE  queue # <<>> /\ Head(queue) \in Closure /\ Head(queue) = Run(op, Subject)
  <2>1. queue # <<>> /\ Head(queue).op = op /\ Head(queue).of = Subject
    BY <1>5 DEF Closes, Subject
  <2>2. Head(queue) \in Closure BY <1>1, <2>1 DEF RestOK
  <2> QED BY <2>1, <2>2, Runs
<1>6. ASSUME NEW x, sessions' = [sessions EXCEPT ![Subject] = x]
      PROVE  /\ session' = session
             /\ Subject = session => sessions'[session] = x
             /\ Subject # session => sessions'[session] = sessions[session]
  BY <1>1, <1>4, <1>6 DEF SessionsOK, session
<1>7. ASSUME sessions' = sessions PROVE SameSession BY <1>7 DEF SameSession, session
<1>8. CASE ConnectRuns
  <2>1. /\ Closes("connect") /\ queue' = Tail(queue) /\ UNCHANGED <<isReconnecting, mistaken>>
        /\ sessions' = [sessions EXCEPT ![Subject] = [sessions[Subject] EXCEPT !.stage = "dialing"]]
    BY <1>8 DEF ConnectRuns, model
  <2>2. CASE Subject = session
    <3>1. sessions[session] \in Session BY <1>1, <1>4 DEF SessionsOK, session
    <3>2. sessions'[session'].stage = "dialing" BY <1>6, <2>1, <2>2, <3>1 DEF Session
    <3> QED BY <3>2 DEF LastIsHint, LossIsAnswered
  <2>3. CASE Subject # session
    <3>1. SameSession BY <1>6, <2>1, <2>3 DEF SameSession
    <3>2. Foreign(Head(queue)) /\ Head(queue) # Run("disconnect", session)
      BY <1>5, <2>1, Runs DEF Foreign
    <3> QED BY <1>5, <2>1, <3>1, <3>2, Takes
  <2> QED BY <2>2, <2>3
<1>9. CASE DisconnectRuns
  <2>1. /\ Closes("disconnect") /\ queue' = Tail(queue) /\ UNCHANGED <<isReconnecting, mistaken>>
        /\ sessions' = [sessions EXCEPT ![Subject] =
                           [ClosedSession EXCEPT !.stream = sessions[Subject].stream]]
    BY <1>9 DEF DisconnectRuns, model
  <2>2. CASE Subject = session
    <3>1. sessions'[session'].stage = "closed"
      BY <1>6, <2>1, <2>2 DEF ClosedSession, NewSession
    <3> QED BY <3>1 DEF LastIsHint, LossIsAnswered
  <2>3. CASE Subject # session
    <3>1. SameSession BY <1>6, <2>1, <2>3 DEF SameSession
    <3>2. Foreign(Head(queue)) /\ Head(queue) # Run("disconnect", session)
      BY <1>5, <2>1, <2>3, Runs DEF Foreign
    <3> QED BY <1>5, <2>1, <3>1, <3>2, Takes
  <2> QED BY <2>2, <2>3
<1>10. CASE LoggedInRuns
  <2>1. /\ Closes("loggedIn") /\ queue' = Tail(queue) /\ sessions' = sessions /\ FinishReconnect
    BY <1>2, <1>10 DEF LoggedInRuns
  <2>2. CASE Subject = session BY <1>5, <1>7, <2>1, <2>2, Takes
  <2>3. CASE Subject # session /\ isReconnecting
    <3>1. mistaken' BY <2>1, <2>3 DEF FinishReconnect
    <3> QED BY <1>5, <1>7, <2>1, <3>1, Takes
  <2>4. CASE Subject # session /\ ~isReconnecting
    <3>1. UNCHANGED <<isReconnecting, mistaken>> BY <2>1, <2>4 DEF FinishReconnect
    <3>2. Foreign(Head(queue)) /\ Head(queue) # Run("disconnect", session)
      BY <1>5, <2>1, <2>4, Runs DEF Foreign
    <3> QED BY <1>5, <1>7, <2>1, <3>1, <3>2, Takes
  <2> QED BY <2>2, <2>3, <2>4
<1>11. CASE HintRuns
  <2>1. /\ Closes("hint") /\ queue' = Tail(queue) /\ sessions' = sessions /\ MaybeStartReconnect
    BY <1>11 DEF HintRuns
  <2>2. isReconnecting' BY <1>1, <1>2, <2>1 DEF MaybeStartReconnect, RestOK
  <2> QED BY <1>5, <1>7, <2>1, <2>2, Takes
<1>12. CASE AttemptRuns
  <2>1. CASE MayAttempt
    <3>1. sessions' = Append(sessions, NewSession) BY <1>12, <2>1 DEF AttemptRuns
    <3>2. sessions'[session'] = NewSession BY <1>1, <3>1, NewRecords DEF SessionsOK, session
    <3>3. sessions'[session'].stage = "idle" BY <3>2 DEF NewSession
    <3> QED BY <3>3 DEF LastIsHint, LossIsAnswered
  <2>2. CASE ~MayAttempt
    <3>1. /\ Closes("attempt") /\ queue' = Tail(queue) /\ sessions' = sessions
          /\ UNCHANGED <<isReconnecting, mistaken>>
      BY <1>12, <2>2 DEF AttemptRuns, model
    <3>2. Foreign(Head(queue)) /\ Head(queue) # Run("disconnect", session)
      BY <1>5, <3>1, Runs DEF Foreign
    <3> QED BY <1>5, <1>7, <3>1, <3>2, Takes
  <2> QED BY <2>1, <2>2
<1>13. CASE GiveUpRuns
  <2>1. /\ Closes("giveUp") /\ GiveUpReconnect /\ sessions' = sessions /\ UNCHANGED mistaken
    BY <1>13 DEF GiveUpRuns
  <2>2. CASE isReconnecting
    <3>1. queue' = Append(Tail(queue), Run("disconnect", session))
      BY <2>1, <2>2 DEF GiveUpReconnect
    <3>2. Foreign(Run("disconnect", session))
      BY <1>4, Runs DEF Foreign, Run, Closure, Operations
    <3>3. Tail(queue) \in Seq(Closure) BY <1>1, <1>5, <2>1, TailKeeps DEF RestOK
    <3>4. Has(queue', Run("disconnect", session)) BY <3>1, <3>2, <3>3, AppendKeeps DEF Foreign
    <3> QED BY <1>5, <1>7, <2>1, <3>1, <3>2, <3>4, Takes
  <2>3. CASE ~isReconnecting
    <3>1. queue' = Tail(queue) /\ UNCHANGED isReconnecting BY <2>1, <2>3 DEF GiveUpReconnect
    <3>2. Foreign(Head(queue)) /\ Head(queue) # Run("disconnect", session)
      BY <1>5, <2>1, Runs DEF Foreign
    <3> QED BY <1>5, <1>7, <2>1, <3>1, <3>2, Takes
  <2> QED BY <2>2, <2>3
<1> QED BY <1>3, <1>8, <1>9, <1>10, <1>11, <1>12, <1>13 DEF ClosureRuns

LEMMA LossOfSession ==
    ASSUME IInv, LossInv, shutdownAt = "no", NEW s \in 1..session,
           \/ DialEnds(s) \/ PathChanges(s) \/ LogsIn(s)
           \/ Drops(s) \/ DropsAgain(s)
           \/ Consumes(s) \/ StopsConsuming(s)
    PROVE  LastIsHint' /\ LossIsAnswered'
<1>1. /\ SessionsOK /\ RestOK BY TypeParts DEF IInv
<1>2. session \in 1..session BY <1>1 DEF SessionsOK, session
<1>3. sessions[s] \in Session /\ sessions[s].stream \in Seq({"loggedIn", "hint"})
  BY <1>1, YieldOK DEF Session
<1>4. UNCHANGED <<isReconnecting, mistaken>>
  BY DEF DialEnds, DialSucceeds, DialFails, DialWaits, PathChanges, LogsIn, Drops, DropsAgain,
         Consumes, StopsConsuming, model
<1>5. ASSUME NEW x, sessions' = [sessions EXCEPT ![s] = x]
      PROVE  /\ session' = session /\ sessions'[s] = x
             /\ s # session => SameSession
  BY <1>1, <1>2, <1>5 DEF SessionsOK, session, SameSession
<1>6. \E x : sessions' = [sessions EXCEPT ![s] = x]
  BY DEF DialEnds, DialSucceeds, DialFails, DialWaits, PathChanges, LogsIn, Drops, DropsAgain,
         Consumes, StopsConsuming
<1>7. CASE s # session
  <2>1. SameSession BY <1>5, <1>6, <1>7
  <2>2. queue' = queue \/ \E c : Foreign(c) /\ queue' = Append(queue, c)
    <3>1. CASE Consumes(s)
      <4> DEFINE c == Run(Head(sessions[s].stream), s)
      <4>1. queue' = Append(queue, c) BY <3>1 DEF Consumes
      <4>2. Head(sessions[s].stream) \in Operations BY <1>3, <3>1 DEF Consumes, Operations
      <4>3. Foreign(c) BY <1>7, <4>2, Runs DEF Foreign, Run, Closure
      <4> QED BY <4>1, <4>3
    <3>2. CASE ~Consumes(s)
      BY <3>2 DEF DialEnds, DialSucceeds, DialFails, DialWaits, PathChanges, LogsIn, Drops,
                  DropsAgain, StopsConsuming
    <3> QED BY <3>1, <3>2
  <2> QED BY <1>4, <2>1, <2>2, Adds
<1>8. CASE s = session
  <2>1. Listening(s) BY <1>8 DEF Listening, LossInv, Heard
  <2>2. CASE DialEnds(s) \/ PathChanges(s)
    <3>1. PICK stage \in {"up", "failed", "waiting", "dialing"} :
             sessions' = [sessions EXCEPT ![s] = [sessions[s] EXCEPT !.stage = stage]]
      BY <2>2 DEF DialEnds, DialSucceeds, DialFails, DialWaits, PathChanges
    <3> DEFINE e == [sessions[s] EXCEPT !.stage = stage]
    <3>2. e.stage = stage /\ sessions' = [sessions EXCEPT ![s] = e] BY <1>3, <3>1 DEF Session
    <3> HIDE DEF e
    <3>3. sessions'[session'].stage = stage BY <1>5, <1>8, <3>2
    <3> QED BY <3>3 DEF LastIsHint, LossIsAnswered
  <2>3. CASE LogsIn(s)
    <3> DEFINE e == [sessions[s] EXCEPT !.welcomed = TRUE, !.connected = TRUE,
                                        !.stream = Yield(s, "loggedIn")]
    <3>1. sessions' = [sessions EXCEPT ![s] = e] BY <2>3 DEF LogsIn
    <3>2. e.stage \in {"up", "losing"} BY <1>3, <2>3 DEF LogsIn, Session
    <3> HIDE DEF e
    <3>3. sessions'[session'].stage \in {"up", "losing"} BY <1>5, <1>8, <3>1, <3>2
    <3> QED BY <3>3 DEF LastIsHint, LossIsAnswered
  <2>4. CASE Drops(s) \/ DropsAgain(s)
    <3>1. PICK stage \in {"losing", "lost"} :
             sessions' = [sessions EXCEPT ![s].stage = stage, ![s].connected = FALSE,
                                          ![s].stream = Append(sessions[s].stream, "hint")]
      BY <2>1, <2>4 DEF Drops, DropsAgain, Yield
    <3> DEFINE e == [sessions[s] EXCEPT !.stage = stage, !.connected = FALSE,
                                        !.stream = Append(sessions[s].stream, "hint")]
    <3>2. sessions' = [sessions EXCEPT ![s] = e] BY <3>1
    <3>3. e.stream = Append(sessions[s].stream, "hint") BY <1>3 DEF Session
    <3> HIDE DEF e
    <3>4. sessions'[session'].stream = Append(sessions[s].stream, "hint")
      BY <1>5, <1>8, <3>2, <3>3
    <3>5. /\ sessions'[session'].stream # <<>>
          /\ sessions'[session'].stream[Len(sessions'[session'].stream)] = "hint"
      BY <1>3, <3>4
    <3> QED BY <3>5, HandledParts DEF LastIsHint, LossIsAnswered, Handled
  <2>5. CASE Consumes(s)
    <3> DEFINE q == sessions[s].stream
               c == Run(Head(q), s)
    <3>1. /\ q # <<>> /\ queue' = Append(queue, c)
          /\ sessions' = [sessions EXCEPT ![s] = [sessions[s] EXCEPT !.stream = Tail(q)]]
          /\ shutdownAt' = shutdownAt
      BY <2>5 DEF Consumes
    <3>2. /\ session' = session /\ sessions'[session].stream = Tail(q)
          /\ sessions'[session].stage = sessions[session].stage
      <4> DEFINE e == [sessions[s] EXCEPT !.stream = Tail(q)]
      <4>1. e.stream = Tail(q) /\ e.stage = sessions[s].stage BY <1>3 DEF Session
      <4>2. sessions' = [sessions EXCEPT ![s] = e] BY <3>1
      <4> HIDE DEF e
      <4> QED BY <1>5, <1>8, <4>1, <4>2
    <3>3. Head(q) \in {"loggedIn", "hint"} BY <1>3, <3>1
    <3>4. c \in Closure BY <3>3 DEF Run, Closure, Operations
    <3>5. queue \in Seq(Closure) BY <1>1 DEF RestOK
    <3>6. Has(queue', c) BY <3>1, <3>4, <3>5, AppendKeeps
    <3>7. LossIsAnswered'
      <4>1. ~Handled(session)' BY <1>8, <3>2, <3>3, <3>6, HandledParts
      <4> QED BY <4>1 DEF LossIsAnswered
    <3>8. LastIsHint'
      <4> SUFFICES ASSUME sessions[session].stage = "lost"
                   PROVE  IF Tail(q) = <<>> THEN Covered(queue', session)
                          ELSE Tail(q)[Len(Tail(q))] = "hint"
        BY <3>2 DEF LastIsHint
      <4>1. q[Len(q)] = "hint" BY <1>8, <3>1 DEF LossInv, LastIsHint
      <4>2. CASE Tail(q) = <<>>
        <5>1. Head(q) = "hint" BY <1>3, <3>1, <4>1, <4>2
        <5>2. Run("loggedIn", session) # Run("hint", session) BY Runs
        <5>3. Covered(Append(queue, c), session)
          BY <1>8, <3>4, <3>5, <5>1, <5>2, AppendKeeps
        <5> QED BY <3>1, <4>2, <5>3
      <4>3. CASE Tail(q) # <<>>
        <5>1. Tail(q)[Len(Tail(q))] = q[Len(q)] BY <1>3, <3>1, <4>3
        <5> QED BY <4>1, <4>3, <5>1
      <4> QED BY <4>2, <4>3
    <3> QED BY <3>7, <3>8
  <2>6. ~StopsConsuming(s) BY <2>1 DEF StopsConsuming
  <2> QED BY <2>2, <2>3, <2>4, <2>5, <2>6
<1> QED BY <1>7, <1>8

LEMMA LossNext == IInv /\ LossInv /\ [Next]_vars => LastIsHint' /\ LossIsAnswered'
<1> SUFFICES ASSUME IInv, LossInv, [Next]_vars PROVE LastIsHint' /\ LossIsAnswered' OBVIOUS
<1>1. CASE shutdownAt' # "no" BY <1>1 DEF LastIsHint, LossIsAnswered
<1>2. CASE shutdownAt' = "no" /\ shutdownAt # "no"
  <2>1. shutdownAt' = shutdownAt
    BY <1>2 DEF Next, vars, model, ClosureRuns, ConnectRuns, DisconnectRuns, LoggedInRuns,
                HintRuns, AttemptRuns, GiveUpRuns, CancelRuns, ShutRuns, JoinRuns, UserJoins,
                LoopStep, LoopHead, BackoffEnds, LoopConnects, GraceEnds, GraceExpires,
                DialEnds, DialSucceeds, DialFails, DialWaits, PathChanges, LogsIn, Drops,
                DropsAgain, Consumes, StopsConsuming, ShutdownCalled, StopsConsumer,
                DisconnectsSession
  <2> QED BY <1>2, <2>1
<1>3. CASE shutdownAt' = "no" /\ shutdownAt = "no"
  <2>1. SessionsOK /\ RestOK /\ LoopsOK BY TypeParts DEF IInv
  <2>2. session \in 1..session BY <2>1 DEF SessionsOK, session
  <2>3. CASE ClosureRuns BY <1>3, <2>3, LossClosures
  <2>4. CASE JoinRuns
    <3>1. PICK j \in joining :
             sessions' = IF sessions[j.on].connected
                         THEN [sessions EXCEPT ![j.on].joined = @ \cup j.rooms]
                         ELSE sessions
      BY <2>4 DEF JoinRuns
    <3>2. j.on \in 1..session BY <2>1 DEF RestOK
    <3>3. sessions[j.on] \in Session BY <2>1, <3>2 DEF SessionsOK, session
    <3>4. SameSession
      <4> DEFINE e == [sessions[j.on] EXCEPT !.joined = sessions[j.on].joined \cup j.rooms]
      <4>1. e.stage = sessions[j.on].stage /\ e.stream = sessions[j.on].stream
        BY <3>3 DEF Session
      <4>2. sessions' = sessions \/ sessions' = [sessions EXCEPT ![j.on] = e] BY <3>1
      <4> HIDE DEF e
      <4> QED BY <2>1, <2>2, <4>1, <4>2 DEF SameSession, SessionsOK, session
    <3>5. UNCHANGED <<queue, isReconnecting, mistaken>> BY <2>4 DEF JoinRuns
    <3> QED BY <1>3, <3>4, <3>5, Adds
  <2>5. CASE \E r \in Rooms : UserJoins(r)
    <3>1. UNCHANGED <<sessions, queue, isReconnecting, mistaken>> BY <2>5 DEF UserJoins
    <3> QED BY <1>3, <3>1, Adds DEF SameSession, session
  <2>6. ASSUME NEW l \in 1..Len(loops), LoopStep(l) PROVE LastIsHint' /\ LossIsAnswered'
    <3>1. UNCHANGED <<sessions, isReconnecting, mistaken>>
      BY <2>6 DEF LoopStep, LoopHead, BackoffEnds, LoopConnects, GraceEnds, GraceExpires, model
    <3>2. loops[l].fresh \in Nat /\ l \in Nat
      <4>1. loops[l] \in Loop BY <2>1 DEF LoopsOK
      <4> QED BY <4>1 DEF Loop
    <3>3. \/ queue' = queue
          \/ \E op \in {"giveUp", "attempt", "connect"}, of \in Nat :
                queue' = Append(queue, Run(op, of))
      BY <2>6, <3>2 DEF LoopStep, LoopHead, BackoffEnds, LoopConnects, GraceEnds, GraceExpires
    <3>4. \A op \in {"giveUp", "attempt", "connect"}, of \in Nat : Foreign(Run(op, of))
      <4>1. \A op \in {"giveUp", "attempt", "connect"}, of \in Nat : Run(op, of) \in Closure
        BY DEF Run, Closure, Operations
      <4> QED BY <4>1, Runs DEF Foreign
    <3> QED BY <1>3, <3>1, <3>3, <3>4, Adds DEF SameSession, session
  <2>7. ASSUME NEW s \in 1..session,
               \/ DialEnds(s) \/ PathChanges(s) \/ LogsIn(s)
               \/ Drops(s) \/ DropsAgain(s)
               \/ Consumes(s) \/ StopsConsuming(s)
        PROVE  LastIsHint' /\ LossIsAnswered'
    BY <1>3, <2>7, LossOfSession
  <2>8. ~ShutdownCalled /\ ~StopsConsumer /\ ~DisconnectsSession
    BY <1>3 DEF ShutdownCalled, StopsConsumer, DisconnectsSession
  <2>9. CASE UNCHANGED vars
    BY <1>3, <2>9, Adds DEF vars, model, SameSession, session
  <2> QED BY <2>3, <2>4, <2>5, <2>6, <2>7, <2>8, <2>9 DEF Next
<1> QED BY <1>1, <1>2, <1>3

LEMMA HeardInvariant == Spec => []Heard
<1>1. Init => Heard BY DEF Init, Heard
<1>2. Heard /\ [Next]_vars => Heard'
  <2> SUFFICES ASSUME Heard, [Next]_vars PROVE Heard' OBVIOUS
  <2>1. \/ UNCHANGED <<consumerStopped, shutdownAt>>
        \/ ~consumerStopped'
        \/ shutdownAt' # "no"
    BY DEF Next, vars, model, ClosureRuns, ConnectRuns, DisconnectRuns, LoggedInRuns,
           HintRuns, AttemptRuns, GiveUpRuns, CancelRuns, ShutRuns, JoinRuns, UserJoins,
           LoopStep, LoopHead, BackoffEnds, LoopConnects, GraceEnds, GraceExpires,
           DialEnds, DialSucceeds, DialFails, DialWaits, PathChanges, LogsIn, Drops,
           DropsAgain, Consumes, StopsConsuming, ShutdownCalled, StopsConsumer,
           DisconnectsSession
  <2> QED BY <2>1 DEF Heard
<1> QED BY <1>1, <1>2, PTL DEF Spec

\* However many connections drop, a loss the model has heard all of is being
\* reconnected, or was given up, or a login of a replaced session was taken for
\* the end of it.
THEOREM LossesAreAnswered == Spec => []LossIsAnswered
<1>1. Init => LastIsHint /\ LossIsAnswered
  BY DEF Init, LastIsHint, LossIsAnswered, session, NewSession
<1>2. IInv /\ Down /\ Heard /\ LastIsHint /\ LossIsAnswered /\ [Next]_vars =>
         LastIsHint' /\ LossIsAnswered'
  BY LossNext DEF LossInv
<1> QED BY <1>1, <1>2, Inductive, DownInvariant, HeardInvariant, PTL DEF Spec
=============================================================================
