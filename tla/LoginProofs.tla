----------------------------- MODULE LoginProofs -----------------------------
(* Login's safety for every bound on the server's lines, and that a session *)
(* implements SessionContract.                                               *)
EXTENDS Login, FiniteSetTheorems, SequenceTheorems, TLAPS

\* The engine's state lives only as long as its session does.
EngineGone ==
    ~cSession => /\ ~timer /\ ~justSentModeIsIrcX /\ ~bIrcXServer
                 /\ ~registered /\ queries = {}

\* What each stage of connect() says about the rest.
Stages ==
    /\ connectCall = "none" => socket = "none"
    /\ connectCall = "awaiting" =>
          \/ socket \in {"dialing", "waiting"} /\ ~userInitiatedDisconnect
          \/ socket = "cancelled" /\ userInitiatedDisconnect
    /\ connectCall = "threw" => socket = "lost"
    /\ connectCall # "returned" => 
          /\ callbacks = {} /\ events = <<>> /\ sent = <<>>
          /\ ~cSession /\ ~loginSent /\ ~sawServerCaps
    /\ connectCall = "returned" => socket \in {"open", "lost", "cancelled"}
    /\ connectCall = "returned" => cSession = ~userInitiatedDisconnect
    /\ socket = "open" => callbacks = {} /\ ~userInitiatedDisconnect

\* Nothing of a registration is on the wire before the one-shot guard is set.
NothingYet ==
    ~loginSent => /\ ~registered
                  /\ \A i \in 1..Len(sent) : sent[i] \notin {"NICK", "USER"}

\* An answered probe leaves a session known to speak IRCX; a plain login leaves
\* no cell for a late 800 to match.
Settled ==
    /\ cSession /\ sawServerCaps => bIrcXServer
    /\ "ctIrcX" \in queries => bIrcXServer
    /\ loginSent /\ ~bIrcXServer => queries = {}

\* The upgrade line goes out when the server is found to speak IRCX.
Upgraded == cSession /\ WasSent("IRCX") => bIrcXServer

IInv ==
    /\ TypeOK /\ ProbeState /\ RegistersOnce
    /\ EngineGone /\ Stages /\ NothingYet /\ Settled /\ Upgraded

-----------------------------------------------------------------------------
(* The wire.                                                                 *)

\* Appending lines other than NICK and USER disturbs no registration.
LEMMA OtherLine ==
    ASSUME NEW l \in {"ISIRCX", "IRCX"}, sent \in Seq(WireLines),
           sent' = Append(sent, l)
    PROVE  /\ sent' \in Seq(WireLines)
           /\ RegistersOnce => RegistersOnce'
           /\ (\A i \in 1..Len(sent) : sent[i] \notin {"NICK", "USER"})
                 => \A i \in 1..Len(sent') : sent'[i] \notin {"NICK", "USER"}
<1>1. l \in WireLines BY DEF WireLines
<1>2. /\ sent' \in Seq(WireLines)
      /\ Len(sent') = Len(sent) + 1
      /\ \A i \in 1..Len(sent) : sent'[i] = sent[i]
      /\ sent'[Len(sent) + 1] = l
  BY <1>1
<1>3. Len(sent) \in Nat OBVIOUS
<1>4. \A i \in 1..Len(sent') : i \in 1..Len(sent) \/ i = Len(sent) + 1
  BY <1>2, <1>3
<1>5. l \notin {"NICK", "USER"} OBVIOUS
<1>6. ASSUME RegistersOnce PROVE RegistersOnce'
  <2>1. \A i, j \in 1..Len(sent') :
           sent'[i] \in {"NICK", "USER"} /\ sent'[i] = sent'[j] => i = j
    BY <1>2, <1>3, <1>4, <1>5, <1>6 DEF RegistersOnce
  <2>2. \A i \in 1..Len(sent') : sent'[i] = "NICK" => i < Len(sent') /\ sent'[i+1] = "USER"
    <3> SUFFICES ASSUME NEW i \in 1..Len(sent'), sent'[i] = "NICK"
                 PROVE  i < Len(sent') /\ sent'[i+1] = "USER"
      OBVIOUS
    <3>1. i \in 1..Len(sent) /\ sent[i] = "NICK" BY <1>2, <1>4, <1>5
    <3>2. i < Len(sent) /\ sent[i+1] = "USER" BY <3>1, <1>6 DEF RegistersOnce
    <3> QED BY <3>1, <3>2, <1>2, <1>3
  <2> QED BY <2>1, <2>2 DEF RegistersOnce
<1> QED BY <1>2, <1>4, <1>5, <1>6

\* The registration itself, with or without the upgrade line behind it.
LEMMA Registration ==
    ASSUME sent \in Seq(WireLines),
           \A i \in 1..Len(sent) : sent[i] \notin {"NICK", "USER"},
           NEW after \in {<<>>, <<"IRCX">>},
           sent' = sent \o <<"NICK", "USER">> \o after
    PROVE  /\ sent' \in Seq(WireLines) /\ RegistersOnce'
           /\ after = <<>> => (WasSent("IRCX")' => WasSent("IRCX"))
<1> DEFINE n == Len(sent)
<1>1. n \in Nat OBVIOUS
<1>2. /\ sent' \in Seq(WireLines)
      /\ Len(sent') \in {n + 2, n + 3}
      /\ \A i \in 1..n : sent'[i] = sent[i]
      /\ sent'[n + 1] = "NICK" /\ sent'[n + 2] = "USER"
      /\ Len(sent') = n + 3 => sent'[n + 3] = "IRCX"
      /\ after = <<>> => Len(sent') = n + 2
  <2>1. CASE after = <<>>
    <3>1. sent' = sent \o <<"NICK", "USER">> BY <2>1
    <3>2. <<"NICK", "USER">> \in Seq(WireLines) BY DEF WireLines
    <3>3. sent' \in Seq(WireLines) BY <3>1, <3>2, ConcatProperties, ZenonT(30)
    <3>6. Len(sent') = n + 2 BY <1>1, <3>1
    <3>4. sent'[n + 1] = "NICK" /\ sent'[n + 2] = "USER" BY <1>1, <3>1
    <3>5. \A i \in 1..n : sent'[i] = sent[i] BY <1>1, <3>1
    <3> QED BY <1>1, <3>3, <3>4, <3>5, <3>6
  <2>2. CASE after = <<"IRCX">>
    <3>1. sent' = sent \o <<"NICK", "USER", "IRCX">> BY <2>2
    <3> QED BY <3>1, SMTT(30) DEF WireLines
  <2> QED BY <2>1, <2>2
<1>3. \A i \in 1..Len(sent') : i \in 1..n \/ i = n + 1 \/ i = n + 2 \/ i = n + 3
  BY <1>1, <1>2, SMTT(30)
<1>4. \A i \in 1..Len(sent') : /\ sent'[i] = "NICK" => i = n + 1
                               /\ sent'[i] = "USER" => i = n + 2
  BY <1>1, <1>2, <1>3, SMTT(30)
<1>5. RegistersOnce'
  <2>1. ASSUME NEW i \in 1..Len(sent'), NEW j \in 1..Len(sent'),
               sent'[i] \in {"NICK", "USER"}, sent'[i] = sent'[j]
        PROVE  i = j
    <3>1. CASE sent'[i] = "NICK" BY <1>4, <2>1, <3>1
    <3>2. CASE sent'[i] = "USER" BY <1>4, <2>1, <3>2
    <3> QED BY <2>1, <3>1, <3>2
  <2>2. ASSUME NEW i \in 1..Len(sent'), sent'[i] = "NICK"
        PROVE  i < Len(sent') /\ sent'[i + 1] = "USER"
    <3>1. i = n + 1 BY <1>4, <2>2
    <3>2. i + 1 = n + 2 BY <1>1, <3>1
    <3>3. n + 1 < Len(sent') BY <1>1, <1>2
    <3> QED BY <1>2, <3>1, <3>2, <3>3
  <2> QED BY <2>1, <2>2 DEF RegistersOnce
<1>6. ASSUME after = <<>>, WasSent("IRCX")' PROVE WasSent("IRCX")
  <2>1. PICK i \in 1..Len(sent') : sent'[i] = "IRCX" BY <1>6 DEF WasSent
  <2>2. i \in 1..n BY <1>1, <1>2, <1>6, <2>1
  <2> QED BY <1>2, <2>1, <2>2 DEF WasSent
<1> QED BY <1>2, <1>5, <1>6

\* Whatever reaches sendLoginIfNeeded(), the registration stays whole and single.
LEMMA SendLogin ==
    ASSUME TypeOK, RegistersOnce, NothingYet,
           NEW trigger \in BOOLEAN, NEW timerLeft \in BOOLEAN,
           NEW after \in {<<>>, <<"IRCX">>},
           SendLoginIfNeeded(trigger, timerLeft, after)
    PROVE  /\ sent' \in Seq(WireLines) /\ RegistersOnce' /\ NothingYet'
           /\ (probing \in BOOLEAN /\ loginSent \in BOOLEAN)'
           /\ (timer \in BOOLEAN /\ registered \in BOOLEAN)'
           /\ after = <<>> => (WasSent("IRCX")' => WasSent("IRCX"))
<1>1. sent \in Seq(WireLines) BY DEF TypeOK
<1>2. CASE trigger /\ ~loginSent
  <2>1. ~registered /\ \A i \in 1..Len(sent) : sent[i] \notin {"NICK", "USER"}
    BY <1>2 DEF NothingYet
  <2>2. sent' = sent \o <<"NICK", "USER">> \o after
    BY <1>2, <2>1 DEF SendLoginIfNeeded, LoginLines
  <2>3. /\ loginSent' = TRUE /\ probing' = FALSE
        /\ timer' = FALSE /\ registered' = TRUE
    BY <1>2 DEF SendLoginIfNeeded
  <2>4. /\ sent' \in Seq(WireLines) /\ RegistersOnce'
        /\ after = <<>> => (WasSent("IRCX")' => WasSent("IRCX"))
    BY <1>1, <2>1, <2>2, Registration
  <2> QED BY <2>3, <2>4 DEF NothingYet
<1>3. CASE ~(trigger /\ ~loginSent)
  <2>1. /\ UNCHANGED <<loginSent, probing, registered>>
        /\ timer' = timerLeft
        /\ sent' = sent \o after
    BY <1>3 DEF SendLoginIfNeeded
  <2>2. /\ (probing \in BOOLEAN /\ loginSent \in BOOLEAN)'
        /\ (timer \in BOOLEAN /\ registered \in BOOLEAN)'
    BY <2>1 DEF TypeOK
  <2>3. CASE after = <<>>
    <3>1. sent' = sent BY <2>1, <2>3, <1>1, ConcatEmptySeq
    <3> QED BY <1>1, <2>1, <2>2, <3>1 DEF RegistersOnce, NothingYet, WasSent
  <2>4. CASE after = <<"IRCX">>
    <3>1. sent' = Append(sent, "IRCX")
      <4>1. "IRCX" \in WireLines BY DEF WireLines
      <4> QED BY <2>1, <2>4, <1>1, <4>1, AppendIsConcat
    <3> QED BY <1>1, <2>1, <2>2, <2>4, <3>1, OtherLine DEF NothingYet
  <2> QED BY <2>3, <2>4
<1> QED BY <1>2, <1>3

-----------------------------------------------------------------------------
(* The inductive invariant.                                                  *)

LEMMA IInvInit == Init => IInv
<1> SUFFICES ASSUME Init PROVE IInv OBVIOUS
<1>1. TypeOK
  <2>1. <<>> \in Seq(WireLines) /\ <<>> \in Seq(Events) BY EmptySeq
  <2> QED BY <2>1 DEF Init, TypeOK, Statuses
<1>2. RegistersOnce /\ NothingYet BY DEF Init, RegistersOnce, NothingYet
<1> QED BY <1>1, <1>2 DEF Init, IInv, ProbeState, EngineGone, Stages, Settled, Upgraded

\* Steps that write nothing: only the states around the wire change.
LEMMA QuietStep ==
    ASSUME IInv,
           \/ Connect \/ DialFailed \/ DialWaits \/ PathChanges
           \/ ConnectionBreaks \/ ServerCloses \/ Disconnect
           \/ (\E c \in callbacks : LossCallback(c))
           \/ UnmatchedCaps \/ Welcome \/ UNCHANGED vars
    PROVE  IInv'
<1> USE DEF IInv, TypeOK, ProbeState, EngineGone, Stages, Settled, Statuses, Events,
            vars, swift, login, engine, network
<1>1. UNCHANGED <<loginSent, sent>> /\ (registered' => registered)
  BY DEF Connect, DialFailed, DialWaits, PathChanges, ConnectionBreaks, ServerCloses,
         Disconnect, LossCallback,
         UnmatchedCaps, Welcome
<1>2. RegistersOnce' /\ NothingYet' /\ Upgraded'
  <2>1. RegistersOnce' /\ NothingYet' BY <1>1 DEF RegistersOnce, NothingYet
  <2>2. cSession' => cSession /\ bIrcXServer' = bIrcXServer
    BY DEF Connect, DialFailed, DialWaits, PathChanges, ConnectionBreaks, ServerCloses,
         Disconnect, LossCallback,
           UnmatchedCaps, Welcome
  <2> QED BY <1>1, <2>1, <2>2 DEF Upgraded, WasSent
<1>3. CASE Connect
  <2>1. TypeOK' BY <1>1, <1>3 DEF Connect
  <2>2. ProbeState' BY <1>3 DEF Connect
  <2>3. EngineGone' BY <1>3 DEF Connect
  <2>4. Stages' BY <1>3 DEF Connect
  <2>5. Settled' BY <1>3 DEF Connect
  <2> QED BY <1>2, <2>1, <2>2, <2>3, <2>4, <2>5
<1>4. CASE DialFailed \/ DialWaits \/ PathChanges
  <2>1. CASE DialFailed BY <1>1, <1>2, <2>1 DEF DialFailed
  <2>2. CASE DialWaits BY <1>1, <1>2, <2>2 DEF DialWaits
  <2>3. CASE PathChanges BY <1>1, <1>2, <2>3 DEF PathChanges
  <2> QED BY <1>4, <2>1, <2>2, <2>3
<1>5. CASE ConnectionBreaks BY <1>1, <1>2, <1>5 DEF ConnectionBreaks
<1>6. CASE ServerCloses BY <1>1, <1>2, <1>6 DEF ServerCloses
<1>7. CASE Disconnect
  <2>1. TypeOK' BY <1>1, <1>7 DEF Disconnect
  <2>2. ProbeState' BY <1>7 DEF Disconnect
  <2>3. EngineGone' BY <1>7 DEF Disconnect
  <2>4. Stages' BY <1>7 DEF Disconnect
  <2>5. Settled' BY <1>7 DEF Disconnect
  <2> QED BY <1>2, <2>1, <2>2, <2>3, <2>4, <2>5
<1>8. CASE \E c \in callbacks : LossCallback(c) BY <1>1, <1>2, <1>8 DEF LossCallback
<1>9. CASE UnmatchedCaps
  <2>1. TypeOK' BY <1>1, <1>9 DEF UnmatchedCaps, Receive
  <2>2. ProbeState' BY <1>9 DEF UnmatchedCaps
  <2>3. EngineGone' BY <1>9 DEF UnmatchedCaps
  <2>4. Stages' BY <1>9 DEF UnmatchedCaps, Receive
  <2>5. Settled' BY <1>9 DEF UnmatchedCaps
  <2> QED BY <1>2, <2>1, <2>2, <2>3, <2>4, <2>5
<1>10. CASE Welcome
  <2>1. TypeOK' BY <1>1, <1>10 DEF Welcome, Receive
  <2>2. ProbeState' BY <1>10 DEF Welcome
  <2>3. EngineGone' BY <1>10 DEF Welcome
  <2>4. Stages' BY <1>10 DEF Welcome, Receive
  <2>5. Settled' BY <1>10 DEF Welcome
  <2> QED BY <1>2, <2>1, <2>2, <2>3, <2>4, <2>5
<1>11. CASE UNCHANGED vars BY <1>1, <1>2, <1>11
<1> QED BY <1>3, <1>4, <1>5, <1>6, <1>7, <1>8, <1>9, <1>10, <1>11

LEMMA ReadyStep == ASSUME IInv, SocketReady PROVE IInv'
<1> USE DEF IInv, SocketReady
<1>1. /\ sent' \in Seq(WireLines)
      /\ RegistersOnce' /\ NothingYet'
  <2>1. sent \in Seq(WireLines) BY DEF TypeOK
  <2>2. ~loginSent /\ ~registered BY DEF TypeOK, Stages, NothingYet
  <2> QED BY <2>1, <2>2, OtherLine DEF NothingYet
<1>2. TypeOK' BY <1>1 DEF TypeOK, Statuses, Cells
<1>3. ProbeState' BY DEF ProbeState, EngineGone, Stages, TypeOK
<1>4. EngineGone' BY DEF EngineGone
<1>5. Stages' BY DEF Stages, TypeOK
<1>6. Settled'
  <2>1. ~loginSent BY DEF Stages, TypeOK
  <2>2. ~sawServerCaps BY DEF Settled, Stages, TypeOK
  <2> QED BY <2>1, <2>2 DEF Settled
<1>7. Upgraded'
  <2>1. sent = <<>> BY DEF Stages, TypeOK
  <2>2. Len(sent') = 1 /\ sent'[1] = "ISIRCX" BY <2>1
  <2>3. ~WasSent("IRCX")' BY <2>2 DEF WasSent
  <2> QED BY <2>3 DEF Upgraded
<1> QED BY <1>1, <1>2, <1>3, <1>4, <1>5, <1>6, <1>7

\* ccModeIsIrcXFailure: the probe is over and the session is logged in.
LEMMA FailureStep ==
    ASSUME IInv, cSession, justSentModeIsIrcX, ModeIsIrcXFailure,
           UNCHANGED <<sawServerCaps, bIrcXServer, anonAllowed, connectCall, socket,
                       callbacks, userInitiatedDisconnect, cSession>>,
           status' \in Statuses, lines' \in Nat, events' = events
    PROVE  IInv'
<1> USE DEF IInv
<1>1. PICK trigger \in BOOLEAN : SendLoginIfNeeded(trigger, FALSE, <<>>)
  BY DEF ModeIsIrcXFailure, CancelTimer, TypeOK
<1>2. /\ sent' \in Seq(WireLines) /\ RegistersOnce' /\ NothingYet'
      /\ (probing \in BOOLEAN /\ loginSent \in BOOLEAN)'
      /\ (timer \in BOOLEAN /\ registered \in BOOLEAN)'
      /\ WasSent("IRCX")' => WasSent("IRCX")
  BY <1>1, SendLogin
<1>3. queries' = queries \ {"ctModeIsIrcX"} /\ justSentModeIsIrcX' = FALSE
  BY DEF ModeIsIrcXFailure
<1>4. TypeOK' BY <1>2, <1>3 DEF TypeOK
<1>5. timer' = FALSE BY <1>1 DEF SendLoginIfNeeded
<1>6. ProbeState' BY <1>3, <1>5 DEF ProbeState
<1>7. EngineGone' /\ Stages' BY DEF EngineGone, Stages, TypeOK
<1>8. Settled'
  <2>1. ~bIrcXServer BY DEF ProbeState
  <2>2. queries' = {} BY <1>3, <2>1 DEF Settled, TypeOK, Cells
  <2> QED BY <2>1, <2>2 DEF Settled
<1>9. Upgraded' BY <1>2 DEF Upgraded
<1> QED BY <1>2, <1>4, <1>6, <1>7, <1>8, <1>9

LEMMA TimerStep == ASSUME IInv, TimerFires PROVE IInv'
<1>1. justSentModeIsIrcX BY DEF IInv, ProbeState, TimerFires
<1>2. ModeIsIrcXFailure BY <1>1 DEF TimerFires
<1>3. status' \in Statuses /\ lines' \in Nat
  BY DEF IInv, TypeOK, TimerFires, swift
<1> QED BY <1>1, <1>2, <1>3, FailureStep DEF TimerFires, swift, network

LEMMA NotRegisteredStep == ASSUME IInv, NotRegistered PROVE IInv'
<1>1. status' \in Statuses /\ lines' \in Nat
  BY DEF IInv, TypeOK, NotRegistered, Receive, swift
<1>2. CASE justSentModeIsIrcX
  <2>1. ModeIsIrcXFailure BY <1>2 DEF NotRegistered
  <2> QED BY <1>1, <1>2, <2>1, FailureStep DEF NotRegistered, Receive, swift, network
<1>3. CASE ~justSentModeIsIrcX
  BY <1>1, <1>3 DEF NotRegistered, swift, network, IInv, TypeOK, ProbeState, RegistersOnce,
                    EngineGone, Stages, NothingYet, Settled, Upgraded, WasSent
<1> QED BY <1>2, <1>3

LEMMA ServerErrorStep == ASSUME IInv, ServerError PROVE IInv'
<1>1. lines' \in Nat BY DEF IInv, TypeOK, ServerError, Receive
<1>2. CASE justSentModeIsIrcX
  <2>1. ModeIsIrcXFailure /\ UNCHANGED <<status, events>> BY <1>2 DEF ServerError
  <2>2. status' \in Statuses BY <2>1 DEF IInv, TypeOK
  <2> QED BY <1>1, <1>2, <2>1, <2>2, FailureStep DEF ServerError, Receive, network
<1>3. CASE ~justSentModeIsIrcX
  <2>1. /\ UNCHANGED <<queries, justSentModeIsIrcX, probing, loginSent, timer, registered,
                       sent, connectCall, userInitiatedDisconnect, cSession, sawServerCaps,
                       bIrcXServer, anonAllowed, socket, callbacks>>
        /\ events' = Append(events, "disconnectedHint") /\ status' = "disconnected"
    BY <1>3 DEF ServerError, network
  <2>2. connectCall = "returned" BY DEF IInv, Stages, ServerError, Receive
  <2>3. TypeOK' BY <1>1, <2>1 DEF IInv, TypeOK, Statuses, Events
  <2>4. Stages' BY <2>1, <2>2 DEF IInv, Stages
  <2> QED BY <2>1, <2>3, <2>4 DEF IInv, ProbeState, RegistersOnce, EngineGone, NothingYet,
                                 Settled, Upgraded, WasSent
<1> QED BY <1>2, <1>3

LEMMA FirstCapsStep == ASSUME IInv, NEW anon \in BOOLEAN, FirstCaps(anon) PROVE IInv'
<1> USE DEF IInv
<1>1. PICK trigger \in BOOLEAN : SendLoginIfNeeded(trigger, FALSE, <<"IRCX">>)
  BY DEF FirstCaps, CancelTimer, TypeOK
<1>2. /\ sent' \in Seq(WireLines) /\ RegistersOnce' /\ NothingYet'
      /\ (probing \in BOOLEAN /\ loginSent \in BOOLEAN)'
      /\ (timer \in BOOLEAN /\ registered \in BOOLEAN)'
  BY <1>1, SendLogin
<1>3. /\ justSentModeIsIrcX' = FALSE /\ bIrcXServer' = TRUE /\ sawServerCaps' = TRUE
      /\ UNCHANGED <<status, connectCall, userInitiatedDisconnect, cSession, socket, callbacks>>
      /\ events' = Append(events, "serverCaps") /\ lines' = lines + 1
      /\ cSession
  BY DEF FirstCaps, Receive, swift, network
<1>4. queries' \subseteq Cells BY DEF FirstCaps, TypeOK, Cells
<1>5. anonAllowed' \in BOOLEAN BY DEF FirstCaps, TypeOK
<1>6. timer' = FALSE BY <1>1 DEF SendLoginIfNeeded
<1>7. connectCall = "returned" BY <1>3 DEF Stages
<1>8. TypeOK'
  <2>1. events' \in Seq(Events) BY <1>3 DEF TypeOK, Events
  <2>2. lines' \in Nat BY <1>3 DEF TypeOK
  <2> QED BY <1>2, <1>3, <1>4, <1>5, <2>1, <2>2 DEF TypeOK
<1>9. ProbeState' /\ EngineGone' /\ Settled'
  BY <1>3, <1>6 DEF ProbeState, EngineGone, Settled
<1>10. Stages' /\ Upgraded' BY <1>3, <1>7 DEF Stages, Upgraded
<1> QED BY <1>2, <1>8, <1>9, <1>10

LEMMA SecondCapsStep == ASSUME IInv, SecondCaps PROVE IInv'
<1> USE DEF IInv
<1>1. /\ UNCHANGED <<status, connectCall, userInitiatedDisconnect, cSession, socket,
                     callbacks, justSentModeIsIrcX, bIrcXServer, anonAllowed>>
      /\ lines' = lines + 1 /\ cSession
  BY DEF SecondCaps, Receive, swift, network
<1>2. connectCall = "returned" BY <1>1 DEF Stages
<1>3. \/ queries' = queries \ {"ctModeIsIrcX"}
      \/ "ctModeIsIrcX" \notin queries /\ queries' = queries \ {"ctIrcX"}
  BY DEF SecondCaps
<1>4. bIrcXServer
  <2>1. \E i \in 1..Len(sent) : sent[i] = "IRCX" BY DEF SecondCaps, WasSent
  <2> QED BY <1>1, <2>1 DEF Upgraded, WasSent
<1>5. ~justSentModeIsIrcX /\ ~timer BY <1>4 DEF ProbeState
<1>6. CASE anonAllowed
  <2>1. /\ events' = Append(events, "serverCaps") /\ sawServerCaps' = TRUE
        /\ SendLoginIfNeeded(sawServerCaps, timer, <<>>)
    BY <1>6 DEF SecondCaps
  <2>2. /\ sent' \in Seq(WireLines) /\ RegistersOnce' /\ NothingYet'
        /\ (probing \in BOOLEAN /\ loginSent \in BOOLEAN)'
        /\ (timer \in BOOLEAN /\ registered \in BOOLEAN)'
    <3>1. sawServerCaps \in BOOLEAN /\ timer \in BOOLEAN BY DEF TypeOK
    <3> QED BY <2>1, <3>1, SendLogin
  <2>3. TypeOK' BY <1>1, <1>3, <2>1, <2>2 DEF TypeOK, Events
  <2>4. ~timer' BY <1>5, <2>1 DEF SendLoginIfNeeded
  <2>5. ProbeState' BY <1>1, <1>5, <2>4 DEF ProbeState
  <2>6. EngineGone' /\ Stages' BY <1>1, <1>2 DEF EngineGone, Stages
  <2>7. Settled' /\ Upgraded' BY <1>1, <1>3, <1>4 DEF Settled, Upgraded
  <2> QED BY <2>2, <2>3, <2>5, <2>6, <2>7
<1>7. CASE ~anonAllowed
  <2>1. /\ events' = Append(events, "authUnsupported")
        /\ UNCHANGED <<probing, loginSent, sawServerCaps, timer, registered, sent>>
    BY <1>7 DEF SecondCaps, login
  <2>2. TypeOK' BY <1>1, <1>3, <2>1 DEF TypeOK, Events
  <2>3. ProbeState' BY <1>1, <1>5, <2>1 DEF ProbeState
  <2>4. EngineGone' /\ Stages' BY <1>1, <1>2, <2>1 DEF EngineGone, Stages
  <2>5. Settled' /\ Upgraded' BY <1>1, <1>3, <1>4, <2>1 DEF Settled, Upgraded
  <2> QED BY <2>1, <2>2, <2>3, <2>4, <2>5 DEF RegistersOnce, NothingYet
<1> QED BY <1>6, <1>7

LEMMA IInvNext == IInv /\ [Next]_vars => IInv'
<1> SUFFICES ASSUME IInv, [Next]_vars PROVE IInv' OBVIOUS
<1>1. CASE SocketReady BY <1>1, ReadyStep
<1>2. CASE TimerFires BY <1>2, TimerStep
<1>3. CASE \E anon \in BOOLEAN : FirstCaps(anon) BY <1>3, FirstCapsStep
<1>4. CASE SecondCaps BY <1>4, SecondCapsStep
<1>5. CASE NotRegistered BY <1>5, NotRegisteredStep
<1>6. CASE ServerError BY <1>6, ServerErrorStep
<1>7. CASE \/ Connect \/ DialFailed \/ DialWaits \/ PathChanges
           \/ ConnectionBreaks \/ ServerCloses \/ Disconnect
           \/ (\E c \in callbacks : LossCallback(c))
           \/ UnmatchedCaps \/ Welcome \/ UNCHANGED vars
  BY <1>7, QuietStep
<1> QED BY <1>1, <1>2, <1>3, <1>4, <1>5, <1>6, <1>7 DEF Next, ServerLine

LEMMA Inductive == Spec => []IInv
<1> QED BY IInvInit, IInvNext, PTL DEF Spec

-----------------------------------------------------------------------------
(* The results.                                                              *)

\* The variables of a session stay in their types, however many lines it is sent.
THEOREM TypeCorrect == Spec => []TypeOK
<1>1. IInv => TypeOK BY DEF IInv
<1> QED BY <1>1, Inductive, PTL

\* However the refused probe, the timeout and the two 800s interleave with the
\* loss of the connection and disconnect(), one NICK and one USER reach the wire.
THEOREM SingleRegistration == Spec => []RegistersOnce
<1>1. IInv => RegistersOnce BY DEF IInv
<1> QED BY <1>1, Inductive, PTL

\* The assertion of ccModeIsIrcXFailure never fails, and an armed timer always
\* belongs to an unanswered probe.
THEOREM ProbeStateHolds == Spec => []ProbeState
<1>1. IInv => ProbeState BY DEF IInv
<1> QED BY <1>1, Inductive, PTL

\* No 800 turns a session that has logged in as plain IRC into an IRCX one.
THEOREM UpgradeInTime == Spec => NoLateUpgrade
<1>1. IInv /\ [Next]_vars => [loginSent /\ ~bIrcXServer => ~bIrcXServer']_vars
  <2> SUFFICES ASSUME IInv, Next, loginSent, ~bIrcXServer PROVE ~bIrcXServer'
    BY DEF vars, swift, login, engine, network
  <2>1. queries = {} BY DEF IInv, Settled
  <2>2. \A anon \in BOOLEAN : ~FirstCaps(anon) BY <2>1 DEF FirstCaps
  <2> QED BY <2>2 DEF Next, ServerLine, Connect, SocketReady, DialFailed, DialWaits,
                     PathChanges, ConnectionBreaks, ServerCloses, Disconnect,
                     LossCallback, TimerFires, SecondCaps,
                     UnmatchedCaps, NotRegistered, ServerError, Welcome, engine
<1> QED BY <1>1, Inductive, PTL DEF Spec, NoLateUpgrade

\* Nothing is reported after the user's disconnect() until the next connect().
THEOREM SilentAfterDisconnect == Spec => QuietAfterDisconnect
<1>1. IInv /\ [Next]_vars =>
        [userInitiatedDisconnect => (events' = events \/ ~userInitiatedDisconnect')]_vars
  <2> SUFFICES ASSUME IInv, Next, userInitiatedDisconnect
               PROVE  events' = events \/ ~userInitiatedDisconnect'
    BY DEF vars, swift, login, engine, network
  <2>1. ~cSession BY DEF IInv, Stages, TypeOK
  <2>2. ~ServerLine
    BY <2>1 DEF ServerLine, FirstCaps, SecondCaps, UnmatchedCaps, NotRegistered,
                ServerError, Welcome, Receive
  <2>3. CASE Connect BY <2>3 DEF Connect
  <2>4. CASE \E c \in callbacks : LossCallback(c) BY <2>4 DEF LossCallback
  <2>5. CASE \/ SocketReady \/ DialFailed \/ DialWaits \/ PathChanges
             \/ ConnectionBreaks \/ ServerCloses \/ Disconnect \/ TimerFires
    BY <2>5 DEF SocketReady, DialFailed, DialWaits, PathChanges, ConnectionBreaks,
                ServerCloses, Disconnect, TimerFires
  <2> QED BY <2>2, <2>3, <2>4, <2>5 DEF Next
<1> QED BY <1>1, Inductive, PTL DEF Spec, QuietAfterDisconnect

-----------------------------------------------------------------------------
(* A session implements its contract.                                        *)

\* The completions that may be owed are a finite set, counted one by one.
LEMMA Owing ==
    ASSUME TypeOK
    PROVE  /\ Cardinality(callbacks) \in Nat
           /\ \A c \in callbacks : /\ Cardinality(callbacks) > 0
                                  /\ Cardinality(callbacks \ {c}) = Cardinality(callbacks) - 1
<1>1. IsFiniteSet({"failed", "receiveError", "receiveEOF"})
  <2>1. IsFiniteSet({"failed"}) BY FS_Singleton
  <2>2. IsFiniteSet({"failed"} \cup {"receiveError"}) BY <2>1, FS_AddElement
  <2>3. IsFiniteSet(({"failed"} \cup {"receiveError"}) \cup {"receiveEOF"})
    BY <2>2, FS_AddElement
  <2>4. ({"failed"} \cup {"receiveError"}) \cup {"receiveEOF"}
           = {"failed", "receiveError", "receiveEOF"}
    OBVIOUS
  <2> QED BY <2>3, <2>4
<1>2. IsFiniteSet(callbacks) BY <1>1, FS_Subset DEF TypeOK
<1>3. Cardinality(callbacks) \in Nat BY <1>2, FS_CardinalityType
<1>4. ASSUME NEW c \in callbacks
      PROVE  /\ Cardinality(callbacks) > 0
             /\ Cardinality(callbacks \ {c}) = Cardinality(callbacks) - 1
  <2>1. Cardinality(callbacks) # 0 BY <1>2, <1>4, FS_EmptySet
  <2>2. Cardinality(callbacks \ {c}) = Cardinality(callbacks) - 1
    BY <1>2, <1>4, FS_RemoveElement
  <2> QED BY <1>3, <2>1, <2>2
<1> QED BY <1>3, <1>4

\* A break owes two reports, a close by the server one.
LEMMA OwedByLoss ==
    /\ Cardinality({}) = 0
    /\ Cardinality({"failed", "receiveError"}) = 2
    /\ Cardinality({"receiveEOF"}) = 1
<1>1. Cardinality({}) = 0 BY FS_EmptySet
<1>2. Cardinality({"receiveEOF"}) = 1 BY FS_Singleton
<1>3. IsFiniteSet({"failed"}) /\ Cardinality({"failed"}) = 1 BY FS_Singleton
<1>4. Cardinality({"failed"} \cup {"receiveError"}) = 2 BY <1>3, FS_AddElement
<1>5. {"failed"} \cup {"receiveError"} = {"failed", "receiveError"} OBVIOUS
<1> QED BY <1>1, <1>2, <1>4, <1>5

LEMMA ContractInit == Init => Contract!Init
<1> QED BY OwedByLoss DEF Init, Contract!Init, Stage

\* connect() and the way it ends.
LEMMA DialSteps ==
    ASSUME IInv, Connect \/ SocketReady \/ DialFailed \/ DialWaits \/ PathChanges
    PROVE  [Contract!Next]_Contract!vars
<1> USE DEF IInv, TypeOK, Stages, Stage
<1>1. CASE Connect
  <2>1. Contract!Dial BY <1>1, OwedByLoss DEF Connect, Contract!Dial, login
  <2> QED BY <2>1 DEF Contract!Next
<1>2. CASE SocketReady
  <2>1. Contract!Resolve BY <1>2, OwedByLoss DEF SocketReady, Contract!Resolve
  <2> QED BY <2>1 DEF Contract!Next
<1>3. CASE DialFailed
  <2>1. Contract!Resolve BY <1>3, OwedByLoss DEF DialFailed, Contract!Resolve, login
  <2> QED BY <2>1 DEF Contract!Next
<1>4. CASE DialWaits \/ PathChanges
  <2>1. UNCHANGED Contract!vars
    BY <1>4 DEF DialWaits, PathChanges, Contract!vars, swift, login
  <2> QED BY <2>1
<1> QED BY <1>1, <1>2, <1>3, <1>4

\* The loss of the connection, its reports, and disconnect().
LEMMA LossSteps ==
    ASSUME IInv,
           \/ ConnectionBreaks \/ ServerCloses \/ Disconnect
           \/ \E c \in callbacks : LossCallback(c)
    PROVE  [Contract!Next]_Contract!vars
<1> USE DEF IInv, Stages, Stage
<1>1. CASE ConnectionBreaks \/ ServerCloses
  <2>1. socket = "open" /\ connectCall = "returned" /\ ~userInitiatedDisconnect
    BY <1>1 DEF ConnectionBreaks, ServerCloses, TypeOK
  <2>3. Cardinality(callbacks') \in 1..2
    <3>1. CASE ConnectionBreaks BY <3>1, OwedByLoss DEF ConnectionBreaks
    <3>2. CASE ServerCloses BY <3>2, OwedByLoss DEF ServerCloses
    <3> QED BY <1>1, <3>1, <3>2
  <2>2. Contract!Lose
    BY <1>1, <2>1, <2>3 DEF ConnectionBreaks, ServerCloses, Contract!Lose, swift, login
  <2> QED BY <2>2 DEF Contract!Next
<1>2. ASSUME NEW c \in callbacks, LossCallback(c) PROVE [Contract!Next]_Contract!vars
  <2>1. connectCall = "returned" OBVIOUS
  <2>2. /\ callbacks' = callbacks \ {c}
        /\ events' = IF userInitiatedDisconnect THEN events
                     ELSE Append(events, "disconnectedHint")
        /\ UNCHANGED <<connectCall, userInitiatedDisconnect, loginSent, socket>>
    BY <1>2 DEF LossCallback, login
  <2>3. CASE userInitiatedDisconnect
    <3>1. UNCHANGED Contract!vars BY <2>1, <2>2, <2>3 DEF Contract!vars
    <3> QED BY <3>1
  <2>4. CASE ~userInitiatedDisconnect
    <3>1. /\ Cardinality(callbacks) > 0
          /\ Cardinality(callbacks') = Cardinality(callbacks) - 1
      BY <1>2, <2>2, Owing
    <3>2. Contract!LossHint BY <2>1, <2>2, <2>4, <3>1 DEF Contract!LossHint
    <3> QED BY <3>2 DEF Contract!Next
  <2> QED BY <2>3, <2>4 DEF TypeOK
<1>3. CASE Disconnect
  <2>1. /\ userInitiatedDisconnect' = TRUE
        /\ socket' = IF socket \in {"dialing", "waiting", "open"} THEN "cancelled" ELSE socket
        /\ UNCHANGED <<connectCall, loginSent, events>>
    BY <1>3 DEF Disconnect
  <2>2. CASE connectCall = "none" \/ userInitiatedDisconnect
    <3>1. (socket' = "lost") = (socket = "lost") BY <2>1
    <3>2. CASE connectCall = "none"
      <4>1. callbacks = {} /\ ~(socket = "lost") BY <3>2
      <4>2. UNCHANGED Contract!vars
        BY <2>1, <3>1, <3>2, <4>1, OwedByLoss DEF Contract!vars, TypeOK
      <4> QED BY <4>2
    <3>3. CASE connectCall # "none" /\ userInitiatedDisconnect
      <4>1. UNCHANGED Contract!vars BY <2>1, <3>1, <3>3 DEF Contract!vars, TypeOK
      <4> QED BY <4>1
    <3> QED BY <2>2, <3>2, <3>3
  <2>3. CASE connectCall # "none" /\ ~userInitiatedDisconnect
    <3>1. Contract!Close BY <2>1, <2>3 DEF Contract!Close, TypeOK
    <3> QED BY <3>1 DEF Contract!Next
  <2> QED BY <2>2, <2>3
<1> QED BY <1>1, <1>2, <1>3

\* What a session that has its engine looks like to the consumer.
LEMMA UpWithEngine ==
    ASSUME IInv, cSession, UNCHANGED <<connectCall, userInitiatedDisconnect, socket, callbacks>>
    PROVE  /\ Stage = "up" /\ UNCHANGED Stage
           /\ connectCall = "returned" /\ ~userInitiatedDisconnect
<1>1. connectCall = "returned" BY DEF IInv, Stages
<1>2. ~userInitiatedDisconnect BY <1>1 DEF IInv, Stages, TypeOK
<1> QED BY <1>1, <1>2 DEF Stage

\* A login, or none, with no event: the timeout and the refusals.
LEMMA LoginStep ==
    ASSUME IInv, cSession, events' = events,
           UNCHANGED <<connectCall, userInitiatedDisconnect, socket, callbacks>>,
           loginSent' = loginSent \/ (~loginSent /\ loginSent' = TRUE)
    PROVE  [Contract!Next]_Contract!vars
<1>1. Stage = "up" /\ UNCHANGED Stage BY UpWithEngine
<1>2. CASE loginSent' = loginSent
  <2>1. UNCHANGED Contract!vars BY <1>1, <1>2 DEF Contract!vars
  <2> QED BY <2>1
<1>3. CASE ~loginSent /\ loginSent' = TRUE
  <2>1. Contract!Register BY <1>1, <1>3 DEF Contract!Register
  <2> QED BY <2>1 DEF Contract!Next
<1> QED BY <1>2, <1>3

\* sendLoginIfNeeded() leaves loginSent alone or sets it.
LEMMA LoginOnce ==
    ASSUME NEW trigger, NEW timerLeft, NEW after, SendLoginIfNeeded(trigger, timerLeft, after)
    PROVE  loginSent' = loginSent \/ (~loginSent /\ loginSent' = TRUE)
<1>1. CASE trigger /\ ~loginSent BY <1>1 DEF SendLoginIfNeeded
<1>2. CASE ~(trigger /\ ~loginSent) BY <1>2 DEF SendLoginIfNeeded
<1> QED BY <1>1, <1>2

LEMMA ProbeEndSteps ==
    ASSUME IInv, TimerFires \/ NotRegistered \/ ServerError
    PROVE  [Contract!Next]_Contract!vars
<1> DEFINE Moved == loginSent' = loginSent \/ (~loginSent /\ loginSent' = TRUE)
<1>1. ASSUME ModeIsIrcXFailure PROVE Moved
  BY <1>1, LoginOnce DEF ModeIsIrcXFailure, CancelTimer
<1>2. /\ cSession
      /\ UNCHANGED <<connectCall, userInitiatedDisconnect, socket, callbacks>>
  BY DEF TimerFires, NotRegistered, ServerError, Receive, swift, network
<1>3. CASE TimerFires
  <2>1. justSentModeIsIrcX BY <1>3 DEF IInv, ProbeState, TimerFires
  <2>2. Moved /\ events' = events BY <1>1, <1>3, <2>1 DEF TimerFires
  <2> QED BY <1>2, <2>2, LoginStep
<1>4. CASE NotRegistered
  <2>1. CASE justSentModeIsIrcX BY <1>1, <1>2, <1>4, <2>1, LoginStep DEF NotRegistered
  <2>2. CASE ~justSentModeIsIrcX BY <1>2, <1>4, <2>2, LoginStep DEF NotRegistered
  <2> QED BY <2>1, <2>2
<1>5. CASE ServerError /\ justSentModeIsIrcX
  <2>1. Moved /\ events' = events BY <1>1, <1>5 DEF ServerError
  <2> QED BY <1>2, <2>1, LoginStep
<1>6. CASE ServerError /\ ~justSentModeIsIrcX
  <2>1. events' = Append(events, "disconnectedHint") /\ loginSent' = loginSent
    BY <1>6 DEF ServerError
  <2>2. Contract!ErrorHint BY <1>2, <2>1, UpWithEngine DEF Contract!ErrorHint
  <2> QED BY <2>2 DEF Contract!Next
<1> QED BY <1>3, <1>4, <1>5, <1>6

\* The 800s and the 001.
LEMMA AnswerSteps ==
    ASSUME IInv,
           \/ (\E anon \in BOOLEAN : FirstCaps(anon))
           \/ SecondCaps \/ UnmatchedCaps \/ Welcome
    PROVE  [Contract!Next]_Contract!vars
<1>1. /\ cSession
      /\ UNCHANGED <<connectCall, userInitiatedDisconnect, socket, callbacks>>
  BY DEF FirstCaps, SecondCaps, UnmatchedCaps, Welcome, Receive, swift, network
<1>2. Stage = "up" /\ UNCHANGED Stage BY <1>1, UpWithEngine
<1>3. CASE (\E anon \in BOOLEAN : FirstCaps(anon)) \/ SecondCaps
  <2>1. loginSent' \in {loginSent, TRUE}
    BY <1>3, LoginOnce DEF FirstCaps, SecondCaps, CancelTimer, login
  <2>2. \E e \in {"serverCaps", "authUnsupported"} : events' = Append(events, e)
    BY <1>3 DEF FirstCaps, SecondCaps
  <2>3. Contract!Caps BY <1>1, <1>2, <2>1, <2>2 DEF Contract!Caps
  <2> QED BY <2>3 DEF Contract!Next
<1>4. CASE UnmatchedCaps
  <2>1. UNCHANGED Contract!vars BY <1>1, <1>2, <1>4 DEF UnmatchedCaps, Contract!vars, login
  <2> QED BY <2>1
<1>5. CASE Welcome
  <2>1. loginSent
    <3>1. PICK i \in 1..Len(sent) : sent[i] = "USER" BY <1>5 DEF Welcome, WasSent
    <3> QED BY <3>1 DEF IInv, NothingYet, TypeOK
  <2>2. Contract!LoggedIn
    BY <1>1, <1>2, <1>5, <2>1 DEF Welcome, Contract!LoggedIn, login
  <2> QED BY <2>2 DEF Contract!Next
<1> QED BY <1>3, <1>4, <1>5

\* Every behaviour of a session is one its contract allows: one dial, one
\* registration, "loggedIn" only after it, each loss reported, silence after
\* disconnect().
THEOREM SessionImplementsContract == Spec => Contract!Safety
<1>1. IInv /\ [Next]_vars => [Contract!Next]_Contract!vars
  <2> SUFFICES ASSUME IInv, [Next]_vars PROVE [Contract!Next]_Contract!vars OBVIOUS
  <2>1. CASE UNCHANGED vars
    <3>1. UNCHANGED Contract!vars
      BY <2>1 DEF vars, swift, login, engine, network, Contract!vars, Stage
    <3> QED BY <3>1
  <2> QED BY <2>1, DialSteps, LossSteps, ProbeEndSteps, AnswerSteps DEF Next, ServerLine
<1> QED BY <1>1, ContractInit, Inductive, PTL DEF Spec, Contract!Safety
=============================================================================
