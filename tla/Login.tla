------------------------------- MODULE Login -------------------------------
(***************************************************************************)
(* One ProtocolSession from connect() to the end of its socket: the        *)
(* NWConnection callbacks, the "MODE ISIRCX" probe, its timer, the IRCX    *)
(* upgrade and the one-shot NICK/USER login.  Swift side:                  *)
(* ProtocolSession.swift.  Engine side: ircsock.cpp (numerics 800 and 451, *)
(* ERROR) and cc_session.cpp (probe, login).                               *)
(*                                                                         *)
(* Everything here runs on the serial sessionQueue, so each action is one  *)
(* closure of that queue, with the synchronous calls it makes into the     *)
(* engine and the callbacks the engine makes back into Swift.  The server, *)
(* the network and the user are the environment.  A session object makes   *)
(* one connect() call: the model builds a fresh one per attempt.           *)
(***************************************************************************)
EXTENDS Naturals, Sequences, FiniteSets

CONSTANT MaxLines        \* how many lines the server sends (a bound on the environment)
ASSUME MaxLinesAssumption == MaxLines \in Nat

VARIABLES
    status,         \* connectionStatus
    connectCall,    \* the continuation of connect(): not called, awaiting, resumed, thrown
    userInitiatedDisconnect,
    cSession,       \* cSession # nil
    probing, loginSent, sawServerCaps,
    timer,          \* timerSource holds a source that has not fired
    justSentModeIsIrcX, bIrcXServer, anonAllowed, registered,   \* CIrcSocket flags
    queries,        \* the probe cells of m_queries; FindQuery looks a cell up by its type
    socket,         \* the NWConnection, seen from the network
    callbacks,      \* NWConnection completions that have still to run on the queue
    lines,          \* number of lines received
    sent,           \* every line written to the socket, in order
    events          \* every event yielded to the consumer, in order

swift    == <<status, connectCall, userInitiatedDisconnect, cSession>>
login    == <<probing, loginSent, sawServerCaps, timer>>
engine   == <<justSentModeIsIrcX, bIrcXServer, anonAllowed, registered, queries>>
network  == <<socket, callbacks>>
vars     == <<swift, login, engine, network, lines, sent, events>>

Statuses  == {"disconnected", "connecting", "socketConnected", "connected"}
Cells     == {"ctModeIsIrcX", "ctIrcX"}
WireLines == {"ISIRCX", "IRCX", "NICK", "USER"}
Events    == {"serverCaps", "authUnsupported", "loggedIn", "disconnectedHint"}

TypeOK ==
    /\ status \in Statuses
    /\ connectCall \in {"none", "awaiting", "returned", "threw"}
    /\ socket \in {"none", "dialing", "waiting", "open", "lost", "cancelled"}
    /\ callbacks \subseteq {"failed", "receiveError", "receiveEOF"}
    /\ queries \subseteq Cells
    /\ lines \in Nat
    /\ sent \in Seq(WireLines)
    /\ events \in Seq(Events)
    /\ userInitiatedDisconnect \in BOOLEAN /\ cSession \in BOOLEAN
    /\ probing \in BOOLEAN /\ loginSent \in BOOLEAN
    /\ sawServerCaps \in BOOLEAN /\ timer \in BOOLEAN
    /\ justSentModeIsIrcX \in BOOLEAN /\ bIrcXServer \in BOOLEAN
    /\ anonAllowed \in BOOLEAN /\ registered \in BOOLEAN

Init ==
    /\ status = "disconnected" /\ connectCall = "none"
    /\ userInitiatedDisconnect = FALSE /\ cSession = FALSE
    /\ probing = FALSE /\ loginSent = FALSE /\ sawServerCaps = FALSE /\ timer = FALSE
    /\ justSentModeIsIrcX = FALSE /\ bIrcXServer = FALSE
    /\ anonAllowed = FALSE /\ registered = FALSE /\ queries = {}
    /\ socket = "none" /\ callbacks = {}
    /\ lines = 0 /\ sent = <<>> /\ events = <<>>

-----------------------------------------------------------------------------
(* The connection: connect(), the NWConnection's state handler, receiveLoop() *)
(* and disconnect().                                                          *)

Connect ==
    /\ connectCall = "none"
    /\ connectCall' = "awaiting"
    /\ userInitiatedDisconnect' = FALSE
    /\ status' = "connecting"
    /\ socket' = "dialing"
    /\ UNCHANGED <<cSession, login, engine, callbacks, lines, sent, events>>

\* .ready: onSocketReady() creates the engine session, starts the receive loop
\* and sends the probe, which arms the timer.
SocketReady ==
    /\ socket = "dialing"
    /\ socket' = "open"
    /\ status' = "socketConnected"
    /\ cSession' = TRUE
    /\ probing' = TRUE
    /\ timer' = TRUE
    /\ justSentModeIsIrcX' = TRUE
    /\ queries' = queries \cup {"ctModeIsIrcX"}
    /\ sent' = Append(sent, "ISIRCX")
    /\ connectCall' = "returned"
    /\ UNCHANGED <<userInitiatedDisconnect, loginSent, sawServerCaps, bIrcXServer,
                   anonAllowed, registered, callbacks, lines, events>>

\* .failed before .ready: connect() throws, no hint.
DialFailed ==
    /\ socket = "dialing"
    /\ socket' = "lost"
    /\ status' = "disconnected"
    /\ connectCall' = "threw"
    /\ UNCHANGED <<userInitiatedDisconnect, cSession, login, engine, callbacks, lines,
                   sent, events>>

\* .waiting (no route, or the port refuses), which the handler's `default: break`
\* leaves alone; NWConnection dials again when the path changes.
DialWaits ==
    /\ socket = "dialing"
    /\ socket' = "waiting"
    /\ UNCHANGED <<swift, login, engine, callbacks, lines, sent, events>>

PathChanges ==
    /\ socket = "waiting"
    /\ socket' = "dialing"
    /\ UNCHANGED <<swift, login, engine, callbacks, lines, sent, events>>

\* The network breaks: the state handler and the receive completion each hear of it.
ConnectionBreaks ==
    /\ socket = "open"
    /\ socket' = "lost"
    /\ callbacks' = {"failed", "receiveError"}
    /\ UNCHANGED <<swift, login, engine, lines, sent, events>>

ServerCloses ==
    /\ socket = "open"
    /\ socket' = "lost"
    /\ callbacks' = {"receiveEOF"}
    /\ UNCHANGED <<swift, login, engine, lines, sent, events>>

\* Mutant: a clean close by the server is absorbed in silence.
LossCallbackSilentEOF(c) ==
    /\ c \in callbacks
    /\ callbacks' = callbacks \ {c}
    /\ status' = "disconnected"
    /\ events' = IF userInitiatedDisconnect \/ c = "receiveEOF" THEN events
                 ELSE Append(events, "disconnectedHint")
    /\ UNCHANGED <<connectCall, userInitiatedDisconnect, cSession, login, engine, socket,
                   lines, sent>>

\* .failed after .ready, and the error and end-of-file branches of receiveLoop().
LossCallback(c) ==
    /\ c \in callbacks
    /\ callbacks' = callbacks \ {c}
    /\ status' = "disconnected"
    /\ events' = IF userInitiatedDisconnect THEN events ELSE Append(events, "disconnectedHint")
    /\ UNCHANGED <<connectCall, userInitiatedDisconnect, cSession, login, engine, socket,
                   lines, sent>>

\* disconnect(): cancelling an open connection fails its pending receive.
Disconnect ==
    /\ userInitiatedDisconnect' = TRUE
    /\ timer' = FALSE
    /\ socket' = IF socket \in {"dialing", "waiting", "open"} THEN "cancelled" ELSE socket
    /\ callbacks' = IF socket = "open" THEN {"receiveError"} ELSE callbacks
    /\ cSession' = FALSE
    /\ justSentModeIsIrcX' = FALSE /\ bIrcXServer' = FALSE
    /\ anonAllowed' = FALSE /\ registered' = FALSE /\ queries' = {}
    /\ status' = "disconnected"
    /\ UNCHANGED <<connectCall, probing, loginSent, sawServerCaps, lines, sent, events>>

-----------------------------------------------------------------------------
(* The login.                                                                *)

\* Mutant: a PASS line, which the port does not support.
LoginLinesWithPass == <<"PASS", "NICK", "USER">>

\* cc_session_login: NICK, then USER once per connection.
LoginLines == IF registered THEN <<"NICK">> ELSE <<"NICK", "USER">>

\* Mutant: no one-shot guard.
SendLoginEveryTime(trigger, timerLeft, linesAfter) ==
    IF trigger
    THEN /\ loginSent' = TRUE
         /\ probing' = FALSE
         /\ timer' = FALSE
         /\ registered' = TRUE
         /\ sent' = sent \o LoginLines \o linesAfter
    ELSE /\ timer' = timerLeft
         /\ sent' = sent \o linesAfter
         /\ UNCHANGED <<loginSent, probing, registered>>

\* sendLoginIfNeeded(), reached when `trigger` holds, followed by the lines the
\* same closure writes after it.  Without it the timer is left as `timerLeft`.
SendLoginIfNeeded(trigger, timerLeft, linesAfter) ==
    IF trigger /\ ~loginSent
    THEN /\ loginSent' = TRUE
         /\ probing' = FALSE
         /\ timer' = FALSE
         /\ registered' = TRUE
         /\ sent' = sent \o LoginLines \o linesAfter
    ELSE /\ timer' = timerLeft
         /\ sent' = sent \o linesAfter
         /\ UNCHANGED <<loginSent, probing, registered>>

\* Mutant: a cancel is no login trigger.
CancelTimerOnly(trigger, linesAfter) == SendLoginIfNeeded(trigger, FALSE, linesAfter)

\* cancelTimer(id:), the engine's cancel_timer callback: the timer goes, and a
\* cancel while probing is a login trigger.
CancelTimer(trigger, linesAfter) == SendLoginIfNeeded(probing \/ trigger, FALSE, linesAfter)

\* Mutant: the probe's cell stays queued.
FailureKeepsCell ==
    /\ justSentModeIsIrcX' = FALSE
    /\ CancelTimer(FALSE, <<>>)
    /\ UNCHANGED queries

\* Mutant: the probe stays outstanding.
FailureKeepsFlag ==
    /\ queries' = queries \ {"ctModeIsIrcX"}
    /\ CancelTimer(FALSE, <<>>)
    /\ UNCHANGED justSentModeIsIrcX

\* ccModeIsIrcXFailure, past its guard.
ModeIsIrcXFailure ==
    /\ queries' = queries \ {"ctModeIsIrcX"}
    /\ justSentModeIsIrcX' = FALSE
    /\ CancelTimer(FALSE, <<>>)

\* The probe timeout: cc_session_fire_timer, then the handler's own fallback.
TimerFires ==
    /\ timer /\ cSession
    /\ IF justSentModeIsIrcX
       THEN ModeIsIrcXFailure
       ELSE /\ SendLoginIfNeeded(probing, FALSE, <<>>)
            /\ UNCHANGED <<queries, justSentModeIsIrcX>>
    /\ UNCHANGED <<swift, sawServerCaps, bIrcXServer, anonAllowed, network, lines, events>>

-----------------------------------------------------------------------------
(* Lines from the server.  One line is handled at a time by the framer; the  *)
(* server sends no answer before the line it answers.                        *)

WasSent(l) == \E i \in 1..Len(sent) : sent[i] = l

\* While the socket is open, or in the last data block: its completion hops to
\* the queue once more, so a .failed handler may run before it.
Receive ==
    /\ socket = "open" \/ callbacks \cap {"receiveError", "receiveEOF"} # {}
    /\ cSession
    /\ lines < MaxLines
    /\ lines' = lines + 1

\* 800 with state 0, advertising `anon`: the server can speak IRCX.
FirstCaps(anon) ==
    /\ Receive /\ WasSent("ISIRCX")
    /\ queries \cap Cells # {}
    /\ bIrcXServer' = TRUE
    /\ justSentModeIsIrcX' = FALSE
    /\ anonAllowed' = (anonAllowed \/ anon)
    /\ queries' = (IF "ctModeIsIrcX" \in queries THEN queries \ {"ctModeIsIrcX"}
                   ELSE queries \ {"ctIrcX"}) \cup {"ctIrcX"}
    /\ sawServerCaps' = TRUE
    /\ events' = Append(events, "serverCaps")
    /\ CancelTimer(sawServerCaps, <<"IRCX">>)
    /\ UNCHANGED <<swift, network>>

\* 800 with state 1: the server now speaks IRCX.
SecondCaps ==
    /\ Receive /\ WasSent("IRCX")
    /\ queries \cap Cells # {}
    /\ queries' = IF "ctModeIsIrcX" \in queries THEN queries \ {"ctModeIsIrcX"}
                  ELSE queries \ {"ctIrcX"}
    /\ IF anonAllowed
       THEN /\ events' = Append(events, "serverCaps")
            /\ sawServerCaps' = TRUE
            /\ SendLoginIfNeeded(sawServerCaps, timer, <<>>)
       ELSE /\ events' = Append(events, "authUnsupported")
            /\ UNCHANGED <<login, registered, sent>>
    /\ UNCHANGED <<swift, justSentModeIsIrcX, bIrcXServer, anonAllowed, network>>

\* A late 800, its cell already given up on: a status line, nothing more.
UnmatchedCaps ==
    /\ Receive /\ WasSent("ISIRCX")
    /\ queries \cap Cells = {}
    /\ UNCHANGED <<swift, login, engine, network, sent, events>>

\* 451 ERR_NOTREGISTERED: the probe's refusal; ignored once the probe is settled.
NotRegistered ==
    /\ Receive /\ WasSent("ISIRCX")
    /\ IF justSentModeIsIrcX
       THEN ModeIsIrcXFailure
       ELSE UNCHANGED <<queries, justSentModeIsIrcX, probing, loginSent, timer, registered, sent>>
    /\ UNCHANGED <<swift, sawServerCaps, bIrcXServer, anonAllowed, network, events>>

\* ERROR: a refusal of the probe, or else a fatal error the model is told of.
ServerError ==
    /\ Receive
    /\ IF justSentModeIsIrcX
       THEN ModeIsIrcXFailure /\ UNCHANGED <<status, events>>
       ELSE /\ events' = Append(events, "disconnectedHint")
            /\ status' = "disconnected"
            /\ UNCHANGED <<queries, justSentModeIsIrcX, probing, loginSent, timer, registered,
                           sent>>
    /\ UNCHANGED <<connectCall, userInitiatedDisconnect, cSession, sawServerCaps,
                   bIrcXServer, anonAllowed, network>>

\* 001: registration is complete.
Welcome ==
    /\ Receive /\ WasSent("USER")
    /\ status' = "connected"
    /\ events' = Append(events, "loggedIn")
    /\ UNCHANGED <<connectCall, userInitiatedDisconnect, cSession, login, engine, network, sent>>

ServerLine ==
    \/ \E anon \in BOOLEAN : FirstCaps(anon)
    \/ SecondCaps \/ UnmatchedCaps \/ NotRegistered \/ ServerError \/ Welcome

Next ==
    \/ Connect \/ SocketReady \/ DialFailed \/ DialWaits \/ PathChanges
    \/ ConnectionBreaks \/ ServerCloses \/ Disconnect
    \/ \E c \in callbacks : LossCallback(c)
    \/ TimerFires
    \/ ServerLine

(* Timers and completions on the queue run, and a dial is eventually         *)
(* answered, if only by .waiting.  Nobody has to send a line, change the     *)
(* path, break the network or press Disconnect.                              *)
Fairness ==
    /\ WF_vars(TimerFires)
    /\ WF_vars(\E c \in callbacks : LossCallback(c))
    /\ WF_vars(SocketReady \/ DialFailed \/ DialWaits)

Spec == Init /\ [][Next]_vars /\ Fairness

-----------------------------------------------------------------------------
(* Properties.                                                               *)

\* NICK and USER go out at most once each, USER right behind NICK, whichever of
\* the three triggers (refused probe, timeout, second 800) come and in whatever
\* order: the one-shot guard of sendLoginIfNeeded().
RegistersOnce ==
    /\ \A i, j \in 1..Len(sent) :
          sent[i] \in {"NICK", "USER"} /\ sent[i] = sent[j] => i = j
    /\ \A i \in 1..Len(sent) : sent[i] = "NICK" => i < Len(sent) /\ sent[i+1] = "USER"

\* What ccModeIsIrcXFailure asserts (ircsock.cpp:520), and what makes it safe to
\* run: while the probe is unanswered the server is not known to speak IRCX, the
\* probe's cell is queued, and an armed timer means just that.
ProbeState ==
    /\ justSentModeIsIrcX => ~bIrcXServer /\ "ctModeIsIrcX" \in queries
    /\ timer => justSentModeIsIrcX /\ probing

\* A session that has logged in as plain IRC stays plain IRC: an 800 that comes
\* after the timeout or the refusal gave the probe up does not start an upgrade.
NoLateUpgrade == [][loginSent /\ ~bIrcXServer => ~bIrcXServer']_vars

\* No hint follows a disconnect() until the next connect(): a user's own
\* disconnect must not look like a drop, whichever callbacks were under way.
QuietAfterDisconnect ==
    [][userInitiatedDisconnect => (events' = events \/ ~userInitiatedDisconnect')]_vars

\* A session whose socket came up logs in (or is torn down): no server can leave
\* it waiting for ever between the probe and NICK.
LoginIsSent == (cSession ~> loginSent \/ ~cSession)

\* The session as its consumer sees it.
Stage ==
    CASE connectCall = "none" -> "idle"
      [] connectCall # "none" /\ userInitiatedDisconnect -> "closed"
      [] connectCall = "awaiting" /\ ~userInitiatedDisconnect -> "dialing"
      [] connectCall = "threw" /\ ~userInitiatedDisconnect -> "failed"
      [] connectCall = "returned" /\ ~userInitiatedDisconnect -> "up"

Contract == INSTANCE SessionContract WITH
    stage <- Stage,
    registered <- loginSent,
    lost <- socket = "lost" /\ connectCall = "returned",
    owed <- IF userInitiatedDisconnect THEN 0 ELSE Cardinality(callbacks),
    notices <- events

\* All of the handshake's detours (probe, refusal, timeout, upgrade, three login
\* triggers, two completions per loss) are invisible to the consumer: it sees a
\* session that registers once, logs in after that, reports each loss, and is
\* silent after disconnect().
ImplementsContract == Contract!Spec

\* LoginSequencingTests.swift:125: "NICK/USER must NOT have been sent yet -- only
\* after the SECOND 800".  On an IRCX server the login waits for the upgrade.
LoginWaitsForSecondCaps ==
    bIrcXServer /\ "ctIrcX" \in queries => ~loginSent
=============================================================================
