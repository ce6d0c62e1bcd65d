-------------------------------- MODULE Members --------------------------------
(***************************************************************************)
(* Who is in the room: from the server, over ProtocolSession's table of    *)
(* members per room, to the one member list on screen.                     *)
(*                                                                         *)
(* Four parties act on their own: the server, the session (Receive), the   *)
(* event consumer and the user's commands on the engine queue, and the     *)
(* Tasks of emitMembers(), which read the table later and post to main.    *)
(* Our own nick stays Me; ops, away marks and icons of a row are left out. *)
(***************************************************************************)
EXTENDS Integers, Sequences, FiniteSets

CONSTANTS
    Nicks, Me, Rooms, NoRoom,
    Starts,             \* who may be in which room at first
    MaxOps,             \* bounds the server
    MaxSwitches         \* bounds the user's changes of the active room

ASSUME NamesAssumption == Me \in Nicks /\ NoRoom \notin Rooms /\ Rooms # {}
ASSUME StartsAssumption == Starts \subseteq [Rooms -> SUBSET Nicks]
ASSUME BoundsAssumption == MaxOps \in Nat /\ MaxSwitches \in Nat

VARIABLES
    server,             \* who is in which room, for the server
    ops,
    wire,               \* events on their way to the session
    table,              \* rooms[..].members: unknown, here or departed
    stream,             \* events on their way to handleLocked()
    activeRoom, switches,
    membersSeq,
    tasks,              \* Tasks of emitMembers() that have yet to read the table
    mailbox,            \* their closures on the main queue
    shown, appliedMembersSeq,
    \* History: who left while we were out of the room; who parted from another
    \* one while in this; the number drawn by the last change of the active room.
    unseen, misled, activated

serverVars == <<server, ops, unseen, misled>>
vars == <<serverVars, wire, table, stream, activeRoom, switches,
          membersSeq, tasks, mailbox, shown, appliedMembersSeq, activated>>

Peers == Nicks \ {Me}

Events ==
    [type : {"userJoined", "userParted", "kicked"}, nick : Nicks, room : Rooms]
    \cup [type : {"userQuit"}, nick : Nicks]
    \cup [type : {"nickChanged"}, nick : Nicks, new : Nicks]
    \cup [type : {"selfJoined", "selfParted"}, room : Rooms]
    \cup [type : {"names"}, room : Rooms, nicks : SUBSET Nicks]

Tables == [Rooms -> [Nicks -> {"unknown", "here", "departed"}]]

Lists == [room : Rooms \cup {NoRoom}, rows : SUBSET Nicks]

Letters == [seq : Nat \ {0}, list : Lists]

TypeOK ==
    /\ server \in [Rooms -> SUBSET Nicks] /\ ops \in 0..MaxOps
    /\ wire \in Seq(Events) /\ stream \in Seq(Events)
    /\ table \in Tables
    /\ activeRoom \in Rooms \cup {NoRoom} /\ switches \in 0..MaxSwitches
    /\ membersSeq \in Nat /\ activated \in 0..membersSeq
    /\ tasks \subseteq [seq : Nat \ {0}, room : Rooms \cup {NoRoom}]
    /\ mailbox \in Seq(Letters)
    /\ shown \in Lists /\ appliedMembersSeq \in 0..membersSeq
    /\ unseen \in [Rooms -> SUBSET Nicks] /\ misled \in [Rooms -> SUBSET Nicks]

\* The session has no member in the room "".
Here(r) == {n \in Nicks : r \in Rooms /\ table[r][n] = "here"}

Inside == {r \in Rooms : Me \in server[r]}

\* Joined to some rooms, their NAMES received and shown.
Init ==
    /\ server \in Starts /\ ops = 0
    /\ wire = <<>> /\ stream = <<>>
    /\ table = [r \in Rooms |-> [n \in Nicks |->
                  IF r \in Inside /\ n \in server[r] THEN "here" ELSE "unknown"]]
    /\ activeRoom \in Rooms /\ switches = 0
    /\ membersSeq = 0 /\ tasks = {} /\ mailbox = <<>> /\ appliedMembersSeq = 0
    /\ shown = [room |-> activeRoom, rows |-> Here(activeRoom)]
    /\ activated = 0
    /\ unseen = [r \in Rooms |-> {}] /\ misled = [r \in Rooms |-> {}]

-----------------------------------------------------------------------------
(* The server.  It tells us what happens in the rooms we are in.             *)

Tells(seen, e) == wire' = IF seen THEN Append(wire, e) ELSE wire

Operates ==
    /\ ops < MaxOps /\ ops' = ops + 1
    /\ UNCHANGED <<table, stream, activeRoom, switches, membersSeq, tasks, mailbox,
                   shown, appliedMembersSeq, activated>>

UserJoins(n, r) ==
    /\ Operates
    /\ n \notin server[r]
    /\ server' = [server EXCEPT ![r] = @ \cup {n}]
    /\ unseen' = [unseen EXCEPT ![r] = @ \ {n}]
    /\ misled' = [misled EXCEPT ![r] = @ \ {n}]
    /\ Tells(r \in Inside, [type |-> "userJoined", nick |-> n, room |-> r])

\* JOIN, confirmed and followed by the NAMES of the room.
SelfJoins(r) ==
    /\ Operates
    /\ r \notin Inside
    /\ server' = [server EXCEPT ![r] = @ \cup {Me}]
    /\ misled' = [misled EXCEPT ![r] = {}]
    /\ wire' = wire \o <<[type |-> "selfJoined", room |-> r],
                         [type |-> "names", room |-> r, nicks |-> server'[r]]>>
    /\ UNCHANGED unseen

\* PART, a forced part included.
SelfParts(r) ==
    /\ Operates
    /\ r \in Inside
    /\ server' = [server EXCEPT ![r] = @ \ {Me}]
    /\ Tells(TRUE, [type |-> "selfParted", room |-> r])
    /\ UNCHANGED <<unseen, misled>>

UserParts(n, r) ==
    /\ Operates
    /\ n \in server[r] \cap Peers
    /\ server' = [server EXCEPT ![r] = @ \ {n}]
    /\ Tells(r \in Inside, [type |-> "userParted", nick |-> n, room |-> r])
    /\ IF r \in Inside
       THEN /\ misled' = [q \in Rooms |-> misled[q] \cup ({n} \cap server'[q])]
            /\ UNCHANGED unseen
       ELSE /\ unseen' = [unseen EXCEPT ![r] = @ \cup {n}]
            /\ UNCHANGED misled

Kicks(n, r) ==
    /\ Operates
    /\ n \in server[r]
    /\ server' = [server EXCEPT ![r] = @ \ {n}]
    /\ Tells(r \in Inside, [type |-> "kicked", nick |-> n, room |-> r])
    /\ unseen' = IF r \in Inside THEN unseen ELSE [unseen EXCEPT ![r] = @ \cup {n}]
    /\ UNCHANGED misled

Shares(n) == \E r \in Inside : n \in server[r]

UserQuits(n) ==
    /\ Operates
    /\ n \in Peers /\ \E r \in Rooms : n \in server[r]
    /\ server' = [r \in Rooms |-> server[r] \ {n}]
    /\ Tells(Shares(n), [type |-> "userQuit", nick |-> n])
    /\ unseen' = IF Shares(n) THEN unseen
                 ELSE [r \in Rooms |-> unseen[r] \cup ({n} \cap server[r])]
    /\ UNCHANGED misled

Renamed(S, n, m) == IF n \in S THEN (S \ {n}) \cup {m} ELSE S

NickChanges(n, m) ==
    /\ Operates
    /\ n \in Peers /\ \E r \in Rooms : n \in server[r]
    /\ m \in Peers /\ \A r \in Rooms : m \notin server[r]
    /\ server' = [r \in Rooms |-> Renamed(server[r], n, m)]
    /\ Tells(Shares(n), [type |-> "nickChanged", nick |-> n, new |-> m])
    /\ IF Shares(n)
       THEN /\ unseen' = [r \in Rooms |-> Renamed(unseen[r], n, m)]
            /\ misled' = [r \in Rooms |-> Renamed(misled[r], n, m)]
       ELSE /\ unseen' = [r \in Rooms |-> unseen[r] \cup ({n} \cap server[r])]
            /\ UNCHANGED misled

ServerActs ==
    \/ \E r \in Rooms : SelfJoins(r) \/ SelfParts(r)
    \/ \E n \in Peers, r \in Rooms : UserJoins(n, r) \/ UserParts(n, r)
    \/ \E n \in Nicks, r \in Rooms : Kicks(n, r)
    \/ \E n \in Peers : UserQuits(n)
    \/ \E n, m \in Peers : NickChanges(n, m)

-----------------------------------------------------------------------------
(* ProtocolSession: applyStateUpdate() before the event is yielded.          *)

Appear(t, r, N) ==
    [t EXCEPT ![r] = [n \in Nicks |-> IF n \in N THEN "here" ELSE t[r][n]]]

Depart(t, S, n) ==
    [r \in Rooms |-> IF r \in S /\ t[r][n] = "here"
                     THEN [t[r] EXCEPT ![n] = "departed"] ELSE t[r]]

Rename(t, n, m) ==
    [r \in Rooms |-> IF t[r][n] = "unknown" THEN t[r]
                     ELSE [t[r] EXCEPT ![n] = "unknown", ![m] = t[r][n]]]

\* Mutants: a kick departs from every room; a quit from the active one only.
DepartsFromAll(e) == Rooms

DepartsOnScreen(e) ==
    CASE e.type = "userQuit" -> {activeRoom} \cap Rooms
      [] e.type = "userParted" -> Rooms
      [] OTHER -> {e.room}

DepartsFrom(e) ==
    IF e.type \in {"userParted", "userQuit"} THEN Rooms ELSE {e.room}

Updated(t, e) ==
    CASE e.type = "userJoined"  -> Appear(t, e.room, {e.nick})
      [] e.type = "selfJoined"  -> Appear(t, e.room, {Me})
      [] e.type = "names"       -> Appear(t, e.room, e.nicks)
      [] e.type = "selfParted"  -> Depart(t, {e.room}, Me)
      [] e.type = "nickChanged" -> Rename(t, e.nick, e.new)
      [] OTHER                  -> Depart(t, DepartsFrom(e), e.nick)

Receive ==
    /\ wire # <<>> /\ wire' = Tail(wire)
    /\ table' = Updated(table, Head(wire))
    /\ stream' = Append(stream, Head(wire))
    /\ UNCHANGED <<serverVars, activeRoom, switches, membersSeq, tasks, mailbox,
                   shown, appliedMembersSeq, activated>>

-----------------------------------------------------------------------------
(* ChatSessionModel on the engine queue.                                     *)

\* Mutants: the number is drawn late; a room in the background is shown as well.
EmitsOldSeq(r, active) ==
    /\ membersSeq' = membersSeq + 1
    /\ tasks' = tasks \cup IF r = active THEN {[seq |-> membersSeq, room |-> r]} ELSE {}

EmitsAnyRoom(r, active) ==
    /\ membersSeq' = membersSeq + 1
    /\ tasks' = tasks \cup {[seq |-> membersSeq + 1, room |-> r]}

\* emitMembers(): the number is drawn now, the table is read by the Task, which
\* stops at once if its room is not the one that was active here.
EmitMembers(r, active) ==
    /\ membersSeq' = membersSeq + 1
    /\ tasks' = tasks \cup IF r = active THEN {[seq |-> membersSeq + 1, room |-> r]} ELSE {}

\* setActiveRoom(), and its like in handleLocked(); no list for no room.
Activates(r) ==
    /\ activeRoom' = r
    /\ IF r = NoRoom THEN UNCHANGED <<membersSeq, tasks, activated>>
       ELSE EmitMembers(r, r) /\ activated' = membersSeq + 1

\* The room whose list an event refreshes.
Refreshed(e) ==
    IF e.type \in {"userQuit", "nickChanged"} THEN activeRoom ELSE e.room

HandlesMembership(e) ==
    /\ e.type \in {"userJoined", "names", "userParted", "kicked", "userQuit", "nickChanged"}
    /\ EmitMembers(Refreshed(e), activeRoom)
    /\ UNCHANGED <<activeRoom, activated>>

\* A part of the active room falls back to another tab, if there is one.
HandlesSelf(e) ==
    IF e.type = "selfParted" /\ e.room = activeRoom
    THEN \E r \in (Rooms \ {e.room}) \cup {NoRoom} : Activates(r)
    ELSE /\ e.type \in {"selfJoined", "selfParted"}
         /\ UNCHANGED <<activeRoom, membersSeq, tasks, activated>>

\* Mutant: a quit is not told to the list, as awayPeer once was not.
HandlesNoQuit(e) ==
    IF e.type = "userQuit" THEN UNCHANGED <<activeRoom, membersSeq, tasks, activated>>
    ELSE HandlesMembership(e) \/ HandlesSelf(e)

HandleLocked(e) == HandlesMembership(e) \/ HandlesSelf(e)

Handle ==
    /\ stream # <<>> /\ stream' = Tail(stream)
    /\ HandleLocked(Head(stream))
    /\ UNCHANGED <<serverVars, wire, table, switches, mailbox, shown, appliedMembersSeq>>

\* The user picks a tab; leaveRoom() of the last one leaves none.
SetActiveRoom ==
    /\ switches < MaxSwitches /\ switches' = switches + 1
    /\ \E r \in (Rooms \cup {NoRoom}) \ {activeRoom} : Activates(r)
    /\ UNCHANGED <<serverVars, wire, table, stream, mailbox, shown, appliedMembersSeq>>

-----------------------------------------------------------------------------
(* The Tasks and the main queue.                                             *)

TaskReads ==
    \E t \in tasks :
        /\ tasks' = tasks \ {t}
        /\ mailbox' = Append(mailbox,
               [seq |-> t.seq, list |-> [room |-> t.room, rows |-> Here(t.room)]])
        /\ UNCHANGED <<serverVars, wire, table, stream, activeRoom, switches,
                       membersSeq, shown, appliedMembersSeq, activated>>

\* Mutant: the last snapshot to arrive wins.
AppliesAll(m) == shown' = m.list /\ appliedMembersSeq' = m.seq

Applies(m) ==
    IF m.seq > appliedMembersSeq
    THEN shown' = m.list /\ appliedMembersSeq' = m.seq
    ELSE UNCHANGED <<shown, appliedMembersSeq>>

MainApplies ==
    /\ mailbox # <<>> /\ mailbox' = Tail(mailbox)
    /\ Applies(Head(mailbox))
    /\ UNCHANGED <<serverVars, wire, table, stream, activeRoom, switches,
                   membersSeq, tasks, activated>>

Next == ServerActs \/ Receive \/ Handle \/ SetActiveRoom \/ TaskReads \/ MainApplies

Spec ==
    /\ Init /\ [][Next]_vars
    /\ WF_vars(Receive) /\ WF_vars(Handle) /\ WF_vars(TaskReads) /\ WF_vars(MainApplies)

-----------------------------------------------------------------------------
(* Properties.                                                               *)

Beyond(listed, r) == listed \ server[r]
Hidden(listed, r) == server[r] \ listed

\* Ghosts: when everything the server sent has been applied, whoever the table
\* has in a room we are in but is not left it while we were out of the room
\* (NAMES adds to what applyStateUpdate() knows and takes nobody away).
NoGhosts ==
    wire = <<>> => \A r \in Inside : Beyond(Here(r), r) \subseteq unseen[r]

\* Hidden members: a member the table does not have in a room we are in parted
\* from another room since (a part marks the nick departed in every room).
NobodyHidden ==
    wire = <<>> => \A r \in Inside : Hidden(Here(r), r) \subseteq misled[r]

\* Switching: from the list that the change of the active room asked for on, no
\* snapshot of another room is shown, in whatever order the Tasks run.
ListIsOfActiveRoom ==
    activeRoom # NoRoom /\ appliedMembersSeq >= activated => shown.room = activeRoom

\* Stale list: in a room we are in, with nothing under way, the list shown is the
\* table's, but for those a part from another room has marked without a new list
\* being asked for.
QuietListIsTable ==
    wire \o stream \o mailbox = <<>> /\ tasks = {} /\ activeRoom \in Inside =>
        /\ Here(activeRoom) \subseteq shown.rows
        /\ shown.room = activeRoom
        /\ shown.rows \ Here(activeRoom) \subseteq misled[activeRoom] \cup unseen[activeRoom]

\* Convergence: once server and user rest, the list shown becomes the server's,
\* up to those two flaws, and stays it.
ListSettles ==
    <>[](activeRoom \in Inside =>
            /\ Beyond(shown.rows, activeRoom) \subseteq unseen[activeRoom]
            /\ Hidden(shown.rows, activeRoom) \subseteq misled[activeRoom])
=============================================================================
