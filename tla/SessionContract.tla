--------------------------- MODULE SessionContract ---------------------------
(***************************************************************************)
(* What a ProtocolSession promises to whoever consumes its events: it      *)
(* dials once, registers at most once and only on a live socket, says      *)
(* "loggedIn" only after it has registered, reports a loss it did not cause*)
(* itself, and is silent once the user has disconnected it.  Login         *)
(* implements this; Reconnect's sessions behave as it allows.              *)
(***************************************************************************)
EXTENDS Naturals, Sequences

VARIABLES
    stage,          \* "idle", "dialing", "failed", "up", or "closed" by the user
    registered,     \* the registration has been written to the socket
    lost,           \* the network connection is gone
    owed,           \* completions that will still report the loss
    notices         \* the events yielded to the consumer, in order

vars == <<stage, registered, lost, owed, notices>>

Init ==
    /\ stage = "idle"
    /\ registered = FALSE /\ lost = FALSE /\ owed = 0
    /\ notices = <<>>

Dial ==
    /\ stage = "idle"
    /\ stage' = "dialing"
    /\ UNCHANGED <<registered, lost, owed, notices>>

\* The dial is resolved: the caller of connect() returns or catches the error.
\* Nothing promises that it ever is.
Resolve ==
    /\ stage = "dialing"
    /\ stage' \in {"up", "failed"}
    /\ UNCHANGED <<registered, lost, owed, notices>>

Register ==
    /\ stage = "up" /\ ~registered
    /\ registered' = TRUE
    /\ UNCHANGED <<stage, lost, owed, notices>>

\* The server answers about IRCX, which may settle the registration as well.
Caps ==
    /\ stage = "up"
    /\ \E e \in {"serverCaps", "authUnsupported"} : notices' = Append(notices, e)
    /\ registered' \in {registered, TRUE}
    /\ UNCHANGED <<stage, lost, owed>>

LoggedIn ==
    /\ stage = "up" /\ registered
    /\ notices' = Append(notices, "loggedIn")
    /\ UNCHANGED <<stage, registered, lost, owed>>

\* The connection breaks, which one or two completions will notice.
Lose ==
    /\ stage = "up" /\ ~lost
    /\ lost' = TRUE
    /\ owed' \in 1..2
    /\ UNCHANGED <<stage, registered, notices>>

LossHint ==
    /\ stage = "up" /\ owed > 0
    /\ owed' = owed - 1
    /\ notices' = Append(notices, "disconnectedHint")
    /\ UNCHANGED <<stage, registered, lost>>

\* The server ends the session with an ERROR line.
ErrorHint ==
    /\ stage = "up"
    /\ notices' = Append(notices, "disconnectedHint")
    /\ UNCHANGED <<stage, registered, lost, owed>>

\* disconnect(), at any moment after the dial began; losses are no longer owed.
Close ==
    /\ stage \in {"dialing", "failed", "up"}
    /\ stage' = "closed"
    /\ owed' = 0
    /\ UNCHANGED <<registered, lost, notices>>

Next ==
    \/ Dial \/ Resolve \/ Close
    \/ Register \/ Caps \/ LoggedIn
    \/ Lose \/ LossHint \/ ErrorHint

Safety == Init /\ [][Next]_vars

Fairness == WF_vars(Register) /\ WF_vars(LossHint)

Spec == Safety /\ Fairness
=============================================================================
