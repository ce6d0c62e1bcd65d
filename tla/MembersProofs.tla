----------------------------- MODULE MembersProofs -----------------------------
(***************************************************************************)
(* That the list of members is right: the types of Members; that a list    *)
(* asked for by a change of the active room is never replaced by one of    *)
(* another room; what the session's table, and then the list on screen,    *)
(* have to do with the server's rooms.                                     *)
(*                                                                         *)
(* The last two are about what is still under way.  TableInv speaks of the *)
(* table there will be once the wire is read, along the path of tables     *)
(* that leads to it; ListInv of the newest list that was asked for, be it  *)
(* a Task, a closure on the main queue or on screen.                       *)
(***************************************************************************)
EXTENDS Members, TLAPS


LEMMA InitTypes == Init => TypeOK
  BY NamesAssumption, StartsAssumption, BoundsAssumption DEF Init, TypeOK, Tables, Lists, Here, Inside

LEMMA HereTypes == \A r : Here(r) \in SUBSET Nicks
  BY DEF Here

-----------------------------------------------------------------------------
(* The server.                                                               *)

LEMMA TellsTypes ==
  ASSUME wire \in Seq(Events), NEW seen, NEW e \in Events, Tells(seen, e)
  PROVE  wire' \in Seq(Events)
  BY DEF Tells

LEMMA ServerOperates ==
  ASSUME ServerActs PROVE Operates
<1>1. CASE \E r \in Rooms : SelfJoins(r) \/ SelfParts(r)
  BY <1>1 DEF SelfJoins, SelfParts
<1>2. CASE \E n \in Peers, r \in Rooms : UserJoins(n, r) \/ UserParts(n, r)
  BY <1>2 DEF UserJoins, UserParts
<1>3. CASE \E n \in Nicks, r \in Rooms : Kicks(n, r)
  BY <1>3 DEF Kicks
<1>4. CASE \E n \in Peers : UserQuits(n)
  BY <1>4 DEF UserQuits
<1>5. CASE \E n, m \in Peers : NickChanges(n, m)
  BY <1>5 DEF NickChanges
<1> QED BY <1>1, <1>2, <1>3, <1>4, <1>5 DEF ServerActs

LEMMA ServerTypes ==
  ASSUME TypeOK, ServerActs PROVE TypeOK'
<1> USE DEF TypeOK
<1>1. ops' \in 0..MaxOps
      /\ UNCHANGED <<table, stream, activeRoom, switches, membersSeq, tasks, mailbox,
                     shown, appliedMembersSeq, activated>>
  <2>1. Operates
    BY ServerOperates
  <2> QED BY <2>1, BoundsAssumption DEF Operates
<1>2. SUFFICES /\ server' \in [Rooms -> SUBSET Nicks] /\ wire' \in Seq(Events)
               /\ unseen' \in [Rooms -> SUBSET Nicks] /\ misled' \in [Rooms -> SUBSET Nicks]
  BY <1>1
<1>3. CASE \E r \in Rooms : SelfJoins(r)
  <2>1. PICK r \in Rooms : SelfJoins(r)
    BY <1>3
  <2>2. server' \in [Rooms -> SUBSET Nicks]
    BY <2>1, NamesAssumption DEF SelfJoins
  <2>3. [type |-> "selfJoined", room |-> r] \in Events
        /\ [type |-> "names", room |-> r, nicks |-> server'[r]] \in Events
    BY <2>2 DEF Events
  <2>4. <<[type |-> "selfJoined", room |-> r],
          [type |-> "names", room |-> r, nicks |-> server'[r]]>> \in Seq(Events)
    BY <2>3
  <2> QED BY <2>1, <2>2, <2>4 DEF SelfJoins
<1>4. CASE \E r \in Rooms : SelfParts(r)
  <2>1. PICK r \in Rooms : SelfParts(r)
    BY <1>4
  <2>2. [type |-> "selfParted", room |-> r] \in Events
    BY DEF Events
  <2>3. wire' \in Seq(Events)
    BY <2>1, <2>2, TellsTypes DEF SelfParts
  <2> QED BY <2>1, <2>3 DEF SelfParts
<1>5. CASE \E n \in Peers, r \in Rooms : UserJoins(n, r)
  <2>1. PICK n \in Peers, r \in Rooms : UserJoins(n, r)
    BY <1>5
  <2>2. [type |-> "userJoined", nick |-> n, room |-> r] \in Events
    BY DEF Events, Peers
  <2>3. wire' \in Seq(Events)
    BY <2>1, <2>2, TellsTypes DEF UserJoins
  <2> QED BY <2>1, <2>3 DEF UserJoins, Peers
<1>6. CASE \E n \in Peers, r \in Rooms : UserParts(n, r)
  <2>1. PICK n \in Peers, r \in Rooms : UserParts(n, r)
    BY <1>6
  <2>2. [type |-> "userParted", nick |-> n, room |-> r] \in Events
    BY DEF Events, Peers
  <2>3. wire' \in Seq(Events)
    BY <2>1, <2>2, TellsTypes DEF UserParts
  <2>4. server' \in [Rooms -> SUBSET Nicks]
    BY <2>1 DEF UserParts
  <2>5. CASE r \in Inside
    <3>1. /\ misled' = [q \in Rooms |-> misled[q] \cup ({n} \cap server'[q])]
          /\ unseen' = unseen
      BY <2>1, <2>5 DEF UserParts
    <3>2. misled' \in [Rooms -> SUBSET Nicks]
      BY <3>1, <2>4
    <3> QED BY <3>1, <3>2, <2>3, <2>4
  <2>6. CASE r \notin Inside
    <3>1. unseen' = [unseen EXCEPT ![r] = @ \cup {n}] /\ misled' = misled
      BY <2>1, <2>6 DEF UserParts
    <3>2. unseen' \in [Rooms -> SUBSET Nicks]
      BY <3>1 DEF Peers
    <3> QED BY <3>1, <3>2, <2>3, <2>4
  <2> QED BY <2>5, <2>6
<1>7. CASE \E n \in Nicks, r \in Rooms : Kicks(n, r)
  <2>1. PICK n \in Nicks, r \in Rooms : Kicks(n, r)
    BY <1>7
  <2>2. [type |-> "kicked", nick |-> n, room |-> r] \in Events
    BY DEF Events
  <2>3. wire' \in Seq(Events)
    BY <2>1, <2>2, TellsTypes DEF Kicks
  <2> QED BY <2>1, <2>3 DEF Kicks
<1>8. CASE \E n \in Peers : UserQuits(n)
  <2>1. PICK n \in Peers : UserQuits(n)
    BY <1>8
  <2>2. [type |-> "userQuit", nick |-> n] \in Events
    BY DEF Events, Peers
  <2>3. wire' \in Seq(Events)
    BY <2>1, <2>2, TellsTypes DEF UserQuits
  <2> QED BY <2>1, <2>3 DEF UserQuits, Peers
<1>9. CASE \E n, m \in Peers : NickChanges(n, m)
  <2>1. PICK n \in Peers, m \in Peers : NickChanges(n, m)
    BY <1>9
  <2>2. [type |-> "nickChanged", nick |-> n, new |-> m] \in Events
    BY DEF Events, Peers
  <2>3. wire' \in Seq(Events)
    BY <2>1, <2>2, TellsTypes DEF NickChanges
  <2>4. \A S \in SUBSET Nicks : Renamed(S, n, m) \in SUBSET Nicks
    BY DEF Renamed, Peers
  <2>5. server' \in [Rooms -> SUBSET Nicks]
    BY <2>1, <2>4 DEF NickChanges
  <2>6. CASE Shares(n)
    <3>1. /\ unseen' = [r \in Rooms |-> Renamed(unseen[r], n, m)]
          /\ misled' = [r \in Rooms |-> Renamed(misled[r], n, m)]
      BY <2>1, <2>6 DEF NickChanges
    <3>2. \A r \in Rooms : unseen[r] \in SUBSET Nicks /\ misled[r] \in SUBSET Nicks
      OBVIOUS
    <3> QED BY <3>1, <3>2, <2>3, <2>4, <2>5
  <2>7. CASE ~Shares(n)
    BY <2>1, <2>3, <2>5, <2>7 DEF NickChanges, Peers
  <2> QED BY <2>6, <2>7
<1> QED BY <1>3, <1>4, <1>5, <1>6, <1>7, <1>8, <1>9 DEF ServerActs

-----------------------------------------------------------------------------
(* The session.                                                              *)

LEMMA UpdatedTypes ==
  ASSUME NEW t \in Tables, NEW e \in Events PROVE Updated(t, e) \in Tables
<1>1. \A r, N : Appear(t, r, N) \in Tables
  BY DEF Tables, Appear
<1>2. \A S, n : Depart(t, S, n) \in Tables
  BY DEF Tables, Depart
<1>3. \A n, m \in Nicks : Rename(t, n, m) \in Tables
  BY DEF Tables, Rename
<1>4. CASE e.type = "nickChanged"
  <2>1. e.nick \in Nicks /\ e.new \in Nicks
    BY <1>4 DEF Events
  <2> QED BY <2>1, <1>3, <1>4 DEF Updated
<1>5. CASE e.type # "nickChanged"
  BY <1>1, <1>2, <1>5 DEF Updated
<1> QED BY <1>4, <1>5

LEMMA ReceiveTypes ==
  ASSUME TypeOK, Receive PROVE TypeOK'
<1>1. Head(wire) \in Events /\ Tail(wire) \in Seq(Events)
  BY DEF TypeOK, Receive
<1>2. table' \in Tables
  BY <1>1, UpdatedTypes DEF TypeOK, Receive
<1> QED BY <1>1, <1>2 DEF TypeOK, Receive, serverVars

-----------------------------------------------------------------------------
(* The engine queue.                                                         *)

LEMMA EmitTypes ==
  ASSUME TypeOK, NEW r \in Rooms \cup {NoRoom}, NEW active, EmitMembers(r, active)
  PROVE  /\ membersSeq' = membersSeq + 1 /\ membersSeq' \in Nat
         /\ tasks' \subseteq [seq : Nat \ {0}, room : Rooms \cup {NoRoom}]
         /\ appliedMembersSeq \in 0..membersSeq' /\ activated \in 0..membersSeq'
         /\ \A t \in tasks' \ tasks : t = [seq |-> membersSeq', room |-> r] /\ r = active
  BY DEF TypeOK, EmitMembers

LEMMA ActivatesTypes ==
  ASSUME TypeOK, NEW r \in Rooms \cup {NoRoom}, Activates(r)
  PROVE  /\ activeRoom' \in Rooms \cup {NoRoom}
         /\ membersSeq' \in Nat /\ membersSeq <= membersSeq'
         /\ tasks' \subseteq [seq : Nat \ {0}, room : Rooms \cup {NoRoom}]
         /\ appliedMembersSeq \in 0..membersSeq' /\ activated' \in 0..membersSeq'
<1>1. CASE r = NoRoom
  BY <1>1 DEF TypeOK, Activates
<1>2. CASE r # NoRoom
  BY <1>2, EmitTypes DEF TypeOK, Activates
<1> QED BY <1>1, <1>2

LEMMA RefreshedTypes ==
  ASSUME TypeOK, NEW e \in Events,
         e.type \in {"userJoined", "names", "userParted", "kicked", "userQuit", "nickChanged"}
  PROVE  Refreshed(e) \in Rooms \cup {NoRoom}
  BY DEF TypeOK, Refreshed, Events

LEMMA HandleTypes ==
  ASSUME TypeOK, Handle PROVE TypeOK'
<1> DEFINE e == Head(stream)
<1>1. e \in Events /\ stream' \in Seq(Events)
  BY DEF TypeOK, Handle
<1>2. UNCHANGED <<serverVars, wire, table, switches, mailbox, shown, appliedMembersSeq>>
  BY DEF Handle
<1>3. SUFFICES /\ activeRoom' \in Rooms \cup {NoRoom}
               /\ membersSeq' \in Nat
               /\ tasks' \subseteq [seq : Nat \ {0}, room : Rooms \cup {NoRoom}]
               /\ appliedMembersSeq \in 0..membersSeq' /\ activated' \in 0..membersSeq'
  BY <1>1, <1>2 DEF TypeOK, serverVars
<1>4. CASE HandlesMembership(e)
  <2>1. Refreshed(e) \in Rooms \cup {NoRoom}
    BY <1>1, <1>4, RefreshedTypes DEF HandlesMembership
  <2> QED BY <2>1, <1>4, EmitTypes DEF HandlesMembership, TypeOK
<1>5. CASE HandlesSelf(e)
  <2>1. CASE \E r \in Rooms \cup {NoRoom} : Activates(r)
    BY <2>1, ActivatesTypes
  <2>2. CASE UNCHANGED <<activeRoom, membersSeq, tasks, activated>>
    BY <2>2 DEF TypeOK
  <2> QED BY <1>5, <2>1, <2>2 DEF HandlesSelf
<1> QED BY <1>4, <1>5 DEF Handle, HandleLocked

LEMMA SetActiveRoomTypes ==
  ASSUME TypeOK, SetActiveRoom PROVE TypeOK'
<1>1. PICK r \in Rooms \cup {NoRoom} : Activates(r)
  BY DEF SetActiveRoom
<1>2. switches' \in 0..MaxSwitches
  BY BoundsAssumption DEF SetActiveRoom, TypeOK
<1> QED BY <1>1, <1>2, ActivatesTypes DEF SetActiveRoom, TypeOK, serverVars

-----------------------------------------------------------------------------
(* Tasks and main.                                                           *)

LEMMA TaskReadsTypes ==
  ASSUME TypeOK, TaskReads PROVE TypeOK'
<1>1. PICK t \in tasks :
        /\ tasks' = tasks \ {t}
        /\ mailbox' = Append(mailbox,
               [seq |-> t.seq, list |-> [room |-> t.room, rows |-> Here(t.room)]])
        /\ UNCHANGED <<serverVars, wire, table, stream, activeRoom, switches,
                       membersSeq, shown, appliedMembersSeq, activated>>
  BY DEF TaskReads
<1>2. [seq |-> t.seq, list |-> [room |-> t.room, rows |-> Here(t.room)]]
        \in Letters
  BY HereTypes DEF TypeOK, Lists, Letters
<1> QED BY <1>1, <1>2 DEF TypeOK, serverVars

LEMMA FirstAndRest ==
  ASSUME NEW S, NEW s \in Seq(S), s # <<>>
  PROVE  /\ s[1] \in S /\ Head(s) = s[1] /\ Tail(s) \in Seq(S) /\ Len(s) \in Nat \ {0}
         /\ Len(Tail(s)) = Len(s) - 1
         /\ \A i \in 1..Len(Tail(s)) : i + 1 \in 1..Len(s) /\ Tail(s)[i] = s[i + 1]
  OBVIOUS

LEMMA MailboxTypes ==
  ASSUME mailbox \in Seq(Letters)
  PROVE  \A i \in 1..Len(mailbox) : mailbox[i].seq \in Nat
<1>1. \A i \in 1..Len(mailbox) : mailbox[i] \in Letters
  OBVIOUS
<1> QED BY <1>1 DEF Letters

\* The list a closure carries is of the active room if its number is no older
\* than the change to it.
IsCurrent(seq, room) == activeRoom # NoRoom /\ seq >= activated => room = activeRoom

Numbered ==
    /\ \A t \in tasks : t.seq <= membersSeq /\ IsCurrent(t.seq, t.room)
    /\ \A i \in 1..Len(mailbox) :
          mailbox[i].seq <= membersSeq /\ IsCurrent(mailbox[i].seq, mailbox[i].list.room)
    /\ IsCurrent(appliedMembersSeq, shown.room)

IInv == TypeOK /\ Numbered

LEMMA InitNumbered == Init => Numbered
  BY DEF Init, Numbered, IsCurrent

LEMMA MainAppliesKeeps ==
  ASSUME IInv, MainApplies PROVE IInv'
<1> DEFINE m == Head(mailbox)
<1>1. /\ m = mailbox[1] /\ m \in Letters
      /\ mailbox' \in Seq(Letters)
      /\ 1 \in 1..Len(mailbox)
      /\ \A i \in 1..Len(mailbox') : i + 1 \in 1..Len(mailbox) /\ mailbox'[i] = mailbox[i + 1]
  <2>1. mailbox \in Seq(Letters) /\ mailbox # <<>> /\ mailbox' = Tail(mailbox)
    BY DEF IInv, TypeOK, MainApplies
  <2> QED BY <2>1, FirstAndRest
<1>2. m.seq <= membersSeq /\ IsCurrent(m.seq, m.list.room)
  BY <1>1 DEF IInv, Numbered
<1>3. Applies(m) /\ UNCHANGED <<serverVars, wire, table, stream, activeRoom, switches,
                               membersSeq, tasks, activated>>
  BY DEF MainApplies
<1> HIDE DEF m
<1>4. /\ shown' \in Lists /\ appliedMembersSeq' \in 0..membersSeq
      /\ IsCurrent(appliedMembersSeq', shown'.room)
  BY <1>1, <1>2, <1>3 DEF IInv, TypeOK, Numbered, Applies, Letters
<1>5. TypeOK'
  BY <1>1, <1>3, <1>4 DEF IInv, TypeOK, serverVars
<1>6. \A seq, room : IsCurrent(seq, room)' <=> IsCurrent(seq, room)
  BY <1>3 DEF IsCurrent
<1>7. Numbered'
  BY <1>1, <1>3, <1>4, <1>6 DEF IInv, Numbered
<1> QED BY <1>5, <1>7 DEF IInv

LEMMA TaskReadsKeeps ==
  ASSUME IInv, TaskReads PROVE Numbered'
<1>1. PICK t \in tasks :
        /\ tasks' = tasks \ {t}
        /\ mailbox' = Append(mailbox,
               [seq |-> t.seq, list |-> [room |-> t.room, rows |-> Here(t.room)]])
        /\ UNCHANGED <<serverVars, wire, table, stream, activeRoom, switches,
                       membersSeq, shown, appliedMembersSeq, activated>>
  BY DEF TaskReads
<1> DEFINE new == [seq |-> t.seq, list |-> [room |-> t.room, rows |-> Here(t.room)]]
<1>2. t.seq <= membersSeq /\ IsCurrent(t.seq, t.room)
  BY DEF IInv, Numbered
<1>3. new.seq = t.seq /\ new.list.room = t.room
  OBVIOUS
<1> HIDE DEF new
<1>4. mailbox \in Seq(Letters) /\ mailbox' = Append(mailbox, new)
  BY <1>1 DEF IInv, TypeOK, new
<1>5. \A i \in 1..Len(mailbox') :
        mailbox'[i] = new \/ (i \in 1..Len(mailbox) /\ mailbox'[i] = mailbox[i])
  BY <1>4
<1> QED BY <1>1, <1>2, <1>3, <1>5 DEF IInv, Numbered, IsCurrent

\* A number that is drawn is newer than all others and its room the active one.
LEMMA EmitKeeps ==
  ASSUME IInv, NEW r \in Rooms \cup {NoRoom}, EmitMembers(r, activeRoom),
         UNCHANGED <<activeRoom, activated, mailbox, shown, appliedMembersSeq>>
  PROVE  Numbered'
<1>1. /\ membersSeq' = membersSeq + 1 /\ membersSeq \in Nat
      /\ \A t \in tasks' \ tasks : t = [seq |-> membersSeq', room |-> r] /\ r = activeRoom
  BY EmitTypes DEF IInv, TypeOK
<1>2. \A t \in tasks : t.seq \in Nat
  BY DEF IInv, TypeOK
<1>3. \A i \in 1..Len(mailbox) : mailbox[i].seq \in Nat
  BY MailboxTypes DEF IInv, TypeOK
<1> QED BY <1>1, <1>2, <1>3 DEF IInv, Numbered, IsCurrent

\* A change of the active room makes every number drawn before it an old one.
LEMMA ActivatesKeeps ==
  ASSUME IInv, NEW r \in Rooms \cup {NoRoom}, Activates(r),
         UNCHANGED <<mailbox, shown, appliedMembersSeq>>
  PROVE  Numbered'
<1>1. CASE r = NoRoom
  BY <1>1 DEF IInv, Numbered, IsCurrent, Activates
<1>2. CASE r # NoRoom
  <2>1. /\ membersSeq' = membersSeq + 1 /\ membersSeq \in Nat
        /\ activated' = membersSeq + 1 /\ activeRoom' = r
        /\ \A t \in tasks' \ tasks : t = [seq |-> membersSeq', room |-> r]
    BY <1>2, EmitTypes DEF IInv, TypeOK, Activates
  <2>2. \A t \in tasks : t.seq \in Nat
    BY DEF IInv, TypeOK
  <2>3. \A i \in 1..Len(mailbox) : mailbox[i].seq \in Nat
    BY MailboxTypes DEF IInv, TypeOK
  <2>4. appliedMembersSeq \in 0..membersSeq
    BY DEF IInv, TypeOK
  <2> QED BY <2>1, <2>2, <2>3, <2>4 DEF IInv, Numbered, IsCurrent
<1> QED BY <1>1, <1>2

LEMMA HandleKeeps ==
  ASSUME IInv, Handle PROVE Numbered'
<1> DEFINE e == Head(stream)
<1>1. e \in Events /\ UNCHANGED <<mailbox, shown, appliedMembersSeq>>
  BY FirstAndRest DEF IInv, TypeOK, Handle
<1>2. CASE HandlesMembership(e)
  <2>1. Refreshed(e) \in Rooms \cup {NoRoom}
    BY <1>1, <1>2, RefreshedTypes DEF HandlesMembership, IInv
  <2> QED BY <1>1, <1>2, <2>1, EmitKeeps DEF HandlesMembership
<1>3. CASE HandlesSelf(e)
  <2>1. CASE \E r \in Rooms \cup {NoRoom} : Activates(r)
    BY <2>1, <1>1, ActivatesKeeps
  <2>2. CASE UNCHANGED <<activeRoom, membersSeq, tasks, activated>>
    BY <2>2, <1>1 DEF IInv, Numbered, IsCurrent
  <2> QED BY <1>3, <2>1, <2>2 DEF HandlesSelf
<1> QED BY <1>2, <1>3 DEF Handle, HandleLocked

LEMMA SetActiveRoomKeeps ==
  ASSUME IInv, SetActiveRoom PROVE Numbered'
<1>1. PICK r \in Rooms \cup {NoRoom} : Activates(r)
  BY DEF SetActiveRoom
<1> QED BY <1>1, ActivatesKeeps DEF SetActiveRoom

LEMMA Step ==
  ASSUME IInv, [Next]_vars PROVE IInv'
<1>1. CASE ServerActs
  <2>1. Operates
    BY <1>1, ServerOperates
  <2>2. Numbered'
    BY <2>1 DEF Operates, IInv, Numbered, IsCurrent
  <2> QED BY <1>1, <2>2, ServerTypes DEF IInv
<1>2. CASE Receive
  <2>1. Numbered'
    BY <1>2 DEF Receive, IInv, Numbered, IsCurrent
  <2> QED BY <1>2, <2>1, ReceiveTypes DEF IInv
<1>3. CASE Handle
  BY <1>3, HandleTypes, HandleKeeps DEF IInv
<1>4. CASE SetActiveRoom
  BY <1>4, SetActiveRoomTypes, SetActiveRoomKeeps DEF IInv
<1>5. CASE TaskReads
  BY <1>5, TaskReadsTypes, TaskReadsKeeps DEF IInv
<1>6. CASE MainApplies
  BY <1>6, MainAppliesKeeps
<1>7. CASE UNCHANGED vars
  BY <1>7 DEF vars, serverVars, IInv, TypeOK, Numbered, IsCurrent
<1> QED BY <1>1, <1>2, <1>3, <1>4, <1>5, <1>6, <1>7 DEF Next

-----------------------------------------------------------------------------
(* What an event does to who is here.                                        *)

In(t, r) == {n \in Nicks : t[r][n] = "here"}

LEMMA InAppear ==
  ASSUME NEW t \in Tables, NEW r \in Rooms, NEW q \in Rooms, NEW N \in SUBSET Nicks
  PROVE  In(Appear(t, r, N), q) = IF q = r THEN In(t, r) \cup N ELSE In(t, q)
  BY DEF Tables, In, Appear

LEMMA InDepart ==
  ASSUME NEW t \in Tables, NEW S, NEW n \in Nicks, NEW q \in Rooms
  PROVE  In(Depart(t, S, n), q) = IF q \in S THEN In(t, q) \ {n} ELSE In(t, q)
<1> DEFINE d == Depart(t, S, n)
<1>1. CASE q \in S /\ t[q][n] = "here"
  <2>1. d[q] = [t[q] EXCEPT ![n] = "departed"] /\ t[q] \in [Nicks -> {"unknown", "here", "departed"}]
    BY <1>1 DEF Tables, Depart
  <2> QED BY <1>1, <2>1 DEF In
<1>2. CASE ~(q \in S /\ t[q][n] = "here")
  <2>1. d[q] = t[q]
    BY <1>2 DEF Depart
  <2> QED BY <1>2, <2>1 DEF In
<1> QED BY <1>1, <1>2

LEMMA InRename ==
  ASSUME NEW t \in Tables, NEW n \in Nicks, NEW m \in Nicks, n # m, NEW q \in Rooms
  PROVE  \/ In(Rename(t, n, m), q) = In(t, q) /\ n \notin In(t, q)
         \/ In(Rename(t, n, m), q) = Renamed(In(t, q), n, m)
         \/ In(Rename(t, n, m), q) = In(t, q) \ {m} /\ n \notin In(t, q)
<1> DEFINE d == Rename(t, n, m)
<1>1. CASE t[q][n] = "unknown"
  <2>1. d[q] = t[q]
    BY <1>1 DEF Rename
  <2> QED BY <1>1, <2>1 DEF In
<1>2. CASE t[q][n] # "unknown"
  <2>1. d[q] = [t[q] EXCEPT ![n] = "unknown", ![m] = t[q][n]]
        /\ t[q] \in [Nicks -> {"unknown", "here", "departed"}]
    BY <1>2 DEF Tables, Rename
  <2>2. CASE t[q][n] = "here"
    BY <2>1, <2>2 DEF In, Renamed
  <2>3. CASE t[q][n] = "departed"
    BY <2>1, <2>3 DEF In, Renamed
  <2> QED BY <1>2, <2>1, <2>2, <2>3
<1> QED BY <1>1, <1>2

-----------------------------------------------------------------------------
(* The tables the session goes through while it reads what is on the wire.   *)

IsPath(f, t, w) ==
    /\ f \in [0..Len(w) -> Tables] /\ f[0] = t
    /\ \A i \in 1..Len(w) : f[i] = Updated(f[i - 1], w[i])

Extended(f, n, e) == [i \in 0..(n + 1) |-> IF i <= n THEN f[i] ELSE Updated(f[n], e)]

LEMMA Appended ==
  ASSUME NEW S, NEW w \in Seq(S), NEW e \in S
  PROVE  /\ Len(w) \in Nat /\ Append(w, e) \in Seq(S) /\ Len(Append(w, e)) = Len(w) + 1
         /\ Append(w, e)[Len(w) + 1] = e
         /\ \A i \in 1..Len(w) : Append(w, e)[i] = w[i]
  OBVIOUS

LEMMA PathExtends ==
  ASSUME NEW t \in Tables, NEW w \in Seq(Events), NEW e \in Events, NEW f, IsPath(f, t, w)
  PROVE  IsPath(Extended(f, Len(w), e), t, Append(w, e))
<1> DEFINE n == Len(w)
           g == Extended(f, n, e)
           v == Append(w, e)
<1>1. n \in Nat /\ Len(v) = n + 1 /\ v[n + 1] = e /\ \A i \in 1..n : v[i] = w[i]
  BY Appended
<1>2. f \in [0..n -> Tables] /\ f[0] = t /\ \A i \in 1..n : f[i] = Updated(f[i - 1], w[i])
  BY DEF IsPath
<1> HIDE DEF n, v
<1>3. f[n] \in Tables /\ Updated(f[n], e) \in Tables
  BY <1>1, <1>2, UpdatedTypes
<1>4. g \in [0..(n + 1) -> Tables] /\ g[n + 1] = Updated(f[n], e) /\ \A i \in 0..n : g[i] = f[i]
  BY <1>1, <1>2, <1>3 DEF Extended
<1> HIDE DEF g
<1>5. g[0] = t
  BY <1>1, <1>2, <1>4
<1>6. ASSUME NEW i \in 1..(n + 1) PROVE g[i] = Updated(g[i - 1], v[i])
  <2>1. CASE i = n + 1
    <3>1. i - 1 = n /\ n \in 0..n
      BY <1>1, <2>1
    <3> QED BY <1>1, <1>4, <2>1, <3>1
  <2>2. CASE i # n + 1
    <3>1. i \in 1..n /\ i \in 0..n /\ i - 1 \in 0..n
      BY <1>1, <2>2
    <3> QED BY <1>1, <1>2, <1>4, <3>1
  <2> QED BY <2>1, <2>2
<1>7. IsPath(g, t, v)
  BY <1>1, <1>4, <1>5, <1>6 DEF IsPath
<1> QED BY <1>7 DEF g, v, n

Rest(f, n) == [i \in 0..(n - 1) |-> f[i + 1]]

LEMMA PathShortens ==
  ASSUME NEW t, NEW w \in Seq(Events), w # <<>>, NEW f, IsPath(f, t, w)
  PROVE  IsPath(Rest(f, Len(w)), Updated(t, w[1]), Tail(w))
<1> DEFINE n == Len(w)
           g == Rest(f, n)
           v == Tail(w)
<1>1. n \in Nat \ {0} /\ Len(v) = n - 1 /\ \A i \in 1..(n - 1) : i + 1 \in 1..n /\ v[i] = w[i + 1]
  BY FirstAndRest
<1>2. f \in [0..n -> Tables] /\ f[0] = t /\ \A i \in 1..n : f[i] = Updated(f[i - 1], w[i])
  BY DEF IsPath
<1> HIDE DEF n, v
<1>3. g \in [0..(n - 1) -> Tables] /\ \A i \in 0..(n - 1) : g[i] = f[i + 1]
  BY <1>1, <1>2 DEF Rest
<1> HIDE DEF g
<1>4. g[0] = Updated(t, w[1])
  <2>1. 0 \in 0..(n - 1) /\ 0 + 1 = 1 /\ 1 \in 1..n /\ 1 - 1 = 0
    BY <1>1
  <2>2. g[0] = f[1] /\ f[1] = Updated(f[1 - 1], w[1])
    BY <1>2, <1>3, <2>1
  <2> QED BY <1>2, <2>1, <2>2
<1>5. ASSUME NEW i \in 1..(n - 1) PROVE g[i] = Updated(g[i - 1], v[i])
  <2>1. i \in 0..(n - 1) /\ i - 1 \in 0..(n - 1) /\ i - 1 + 1 = i /\ i + 1 - 1 = i /\ i + 1 \in 1..n
    BY <1>1
  <2>2. g[i] = f[i + 1] /\ g[i - 1] = f[i] /\ v[i] = w[i + 1]
    BY <1>1, <1>3, <2>1
  <2>3. f[i + 1] = Updated(f[i + 1 - 1], w[i + 1])
    BY <1>2, <2>1
  <2> QED BY <2>1, <2>2, <2>3
<1>6. IsPath(g, Updated(t, w[1]), v)
  BY <1>1, <1>3, <1>4, <1>5 DEF IsPath
<1> QED BY <1>6 DEF g, v, n

-----------------------------------------------------------------------------
(* Events that ask for a new list of a room, and what the others may do.     *)

Refreshes(e, r) ==
    \/ e.type \in {"userQuit", "nickChanged"}
    \/ e.type \in {"userJoined", "names", "userParted", "kicked"} /\ e.room = r

Shrinks(t, u, r, X) == In(u, r) \subseteq In(t, r) /\ In(t, r) \ In(u, r) \subseteq X

Quiet(f, w, r, X) ==
    \A i \in 1..Len(w) :
        (\A j \in i..Len(w) : ~Refreshes(w[j], r)) => Shrinks(f[i - 1], f[i], r, X)

LEMMA QuietExtends ==
  ASSUME NEW w \in Seq(Events), NEW e \in Events, NEW f, NEW r, NEW X, NEW Y,
         ~Refreshes(e, r) => /\ Quiet(f, w, r, X) /\ X \subseteq Y
                             /\ Shrinks(f[Len(w)], Updated(f[Len(w)], e), r, Y)
  PROVE  Quiet(Extended(f, Len(w), e), Append(w, e), r, Y)
<1> DEFINE n == Len(w)
           g == Extended(f, n, e)
           v == Append(w, e)
<1>1. n \in Nat /\ Len(v) = n + 1 /\ v[n + 1] = e /\ \A i \in 1..n : v[i] = w[i]
  BY Appended
<1>2. g[n + 1] = Updated(f[n], e) /\ \A i \in 0..n : g[i] = f[i]
  BY <1>1 DEF Extended
<1> HIDE DEF n, g, v
<1>3. ASSUME NEW i \in 1..(n + 1), \A j \in i..(n + 1) : ~Refreshes(v[j], r)
      PROVE  Shrinks(g[i - 1], g[i], r, Y)
  <2>1. ~Refreshes(e, r)
    <3>1. n + 1 \in i..(n + 1)
      BY <1>1
    <3> QED BY <1>1, <1>3, <3>1
  <2>2. Quiet(f, w, r, X) /\ X \subseteq Y /\ Shrinks(f[n], Updated(f[n], e), r, Y)
    BY <2>1 DEF n
  <2>3. CASE i = n + 1
    <3>1. i - 1 = n /\ n \in 0..n
      BY <1>1, <2>3
    <3> QED BY <1>2, <2>2, <2>3, <3>1
  <2>4. CASE i # n + 1
    <3>1. i \in 1..n /\ i \in 0..n /\ i - 1 \in 0..n
      BY <1>1, <2>4
    <3>2. \A j \in i..n : j \in i..(n + 1) /\ j \in 1..n
      BY <1>1
    <3>3. \A j \in i..n : ~Refreshes(w[j], r)
      BY <1>1, <1>3, <3>2
    <3>4. Shrinks(f[i - 1], f[i], r, X)
      BY <2>2, <3>1, <3>3 DEF Quiet, n
    <3> QED BY <1>2, <2>2, <3>1, <3>4 DEF Shrinks
  <2> QED BY <2>3, <2>4
<1>4. Quiet(g, v, r, Y)
  BY <1>1, <1>3 DEF Quiet
<1> QED BY <1>4 DEF g, v, n

LEMMA QuietShortens ==
  ASSUME NEW w \in Seq(Events), w # <<>>, NEW f, NEW r, NEW X, Quiet(f, w, r, X)
  PROVE  Quiet(Rest(f, Len(w)), Tail(w), r, X)
<1> DEFINE n == Len(w)
           g == Rest(f, n)
           v == Tail(w)
<1>1. n \in Nat \ {0} /\ Len(v) = n - 1 /\ \A i \in 1..(n - 1) : i + 1 \in 1..n /\ v[i] = w[i + 1]
  BY FirstAndRest
<1>2. \A i \in 0..(n - 1) : g[i] = f[i + 1]
  BY <1>1 DEF Rest
<1> HIDE DEF n, g, v
<1>3. ASSUME NEW i \in 1..(n - 1), \A j \in i..(n - 1) : ~Refreshes(v[j], r)
      PROVE  Shrinks(g[i - 1], g[i], r, X)
  <2>1. i + 1 \in 1..n /\ i + 1 - 1 = i /\ i \in 0..(n - 1) /\ i - 1 \in 0..(n - 1) /\ i - 1 + 1 = i
    BY <1>1
  <2>2. ASSUME NEW j \in (i + 1)..n PROVE ~Refreshes(w[j], r)
    <3>1. j - 1 \in i..(n - 1) /\ j - 1 \in 1..(n - 1) /\ j - 1 + 1 = j
      BY <1>1
    <3>2. v[j - 1] = w[j]
      BY <1>1, <3>1
    <3> QED BY <1>3, <3>1, <3>2
  <2>3. Shrinks(f[i + 1 - 1], f[i + 1], r, X)
    BY <2>1, <2>2 DEF Quiet, n
  <2> QED BY <1>2, <2>1, <2>3
<1>4. Quiet(g, v, r, X)
  BY <1>1, <1>3 DEF Quiet
<1> QED BY <1>4 DEF g, v, n

-----------------------------------------------------------------------------
(* The table that will be once the wire is read, against the server's rooms. *)

Flaws(r) == misled[r] \cup unseen[r]

Lawful(t) ==
    \A r \in Rooms : /\ Beyond(In(t, r), r) \subseteq unseen[r]
                     /\ r \in Inside => Hidden(In(t, r), r) \subseteq misled[r]

TableInv ==
    \E f : \E t \in Tables :
        /\ IsPath(f, table, wire) /\ f[Len(wire)] = t /\ Lawful(t)
        /\ \A r \in Inside : Quiet(f, wire, r, Flaws(r))

LEMMA QuietGrows ==
  ASSUME NEW f, NEW w, NEW r, NEW X, NEW Y, Quiet(f, w, r, X), X \subseteq Y
  PROVE  Quiet(f, w, r, Y)
  BY DEF Quiet, Shrinks

\* What a step of the server may do to the table that will be: from t it becomes
\* u, and rooms that are not in R ask for no list.
Follows(t, u, R) ==
    Lawful(t) =>
        /\ Lawful(u)'
        /\ \A r \in Inside' \ R :
              r \in Inside /\ Flaws(r) \subseteq Flaws(r)' /\ Shrinks(t, u, r, Flaws(r)')

\* What it does to the wire: it adds to its end, and if nothing on it then asks
\* for the list of a room, we have been in that room and its flaws have not gone.
Grows ==
    /\ \A i \in 1..Len(wire) : i \in 1..Len(wire') /\ wire'[i] = wire[i]
    /\ \A r \in Inside' : (\A i \in 1..Len(wire') : ~Refreshes(wire'[i], r)) =>
                                r \in Inside /\ Flaws(r) \subseteq Flaws(r)'

LEMMA Told ==
  ASSUME TypeOK, TableInv, NEW e \in Events, wire' = Append(wire, e), table' = table,
         \A t \in Tables : Follows(t, Updated(t, e), {r \in Rooms : Refreshes(e, r)})
  PROVE  TableInv' /\ Grows
<1>0. PICK f : \E t \in Tables :
        /\ IsPath(f, table, wire) /\ f[Len(wire)] = t /\ Lawful(t)
        /\ \A r \in Inside : Quiet(f, wire, r, Flaws(r))
  BY DEF TableInv
<1>1. PICK t \in Tables :
        /\ IsPath(f, table, wire) /\ f[Len(wire)] = t /\ Lawful(t)
        /\ \A r \in Inside : Quiet(f, wire, r, Flaws(r))
  BY <1>0
<1>2. wire \in Seq(Events) /\ table \in Tables
  BY DEF TypeOK
<1> DEFINE n == Len(wire)
           u == Updated(t, e)
<1>3. u \in Tables
  BY UpdatedTypes
<1> HIDE DEF u
<1>4. /\ Lawful(u)'
      /\ \A r \in Inside' : ~Refreshes(e, r) =>
            r \in Inside /\ Flaws(r) \subseteq Flaws(r)' /\ Shrinks(t, u, r, Flaws(r)')
  <2>1. Inside' \subseteq Rooms
    BY DEF Inside
  <2>2. Lawful(t) /\ Follows(t, u, {r \in Rooms : Refreshes(e, r)})
    BY <1>1 DEF u
  <2> QED BY <2>1, <2>2 DEF Follows
<1> DEFINE g == Extended(f, n, e)
<1>5. IsPath(g, table, Append(wire, e))
  BY <1>1, <1>2, PathExtends
<1>6. ASSUME NEW r \in Inside' PROVE Quiet(g, Append(wire, e), r, Flaws(r)')
  <2>1. ~Refreshes(e, r) => /\ Quiet(f, wire, r, Flaws(r)) /\ Flaws(r) \subseteq Flaws(r)'
                            /\ Shrinks(t, u, r, Flaws(r)')
    BY <1>1, <1>4
  <2> DEFINE X == Flaws(r)
             Y == Flaws(r)'
  <2> HIDE DEF X, Y
  <2>2. ~Refreshes(e, r) => /\ Quiet(f, wire, r, X) /\ X \subseteq Y
                            /\ Shrinks(f[Len(wire)], Updated(f[Len(wire)], e), r, Y)
    BY <1>1, <2>1 DEF X, Y, u
  <2>3. Quiet(g, Append(wire, e), r, Y)
    BY <1>2, <2>2, QuietExtends
  <2> QED BY <2>3 DEF Y
<1>7. g[Len(Append(wire, e))] = u
  <2>1. n \in Nat /\ Len(Append(wire, e)) = n + 1
    BY <1>2, Appended
  <2> QED BY <1>1, <2>1 DEF Extended, u
<1> HIDE DEF g, n
<1>8. IsPath(g, table', wire')
  BY <1>5
<1>9. g[Len(wire')] = u
  BY <1>7
<1>10. \A r \in Inside' : Quiet(g, wire', r, Flaws(r)')
  BY <1>6
<1>11. TableInv'
  BY <1>3, <1>4, <1>8, <1>9, <1>10 DEF TableInv
<1>12. Grows
  <2>1. /\ Len(wire) \in Nat /\ Len(wire') = Len(wire) + 1 /\ wire'[Len(wire) + 1] = e
        /\ \A i \in 1..Len(wire) : wire'[i] = wire[i]
    BY <1>2, Appended
  <2>2. Len(wire) + 1 \in 1..Len(wire') /\ \A i \in 1..Len(wire) : i \in 1..Len(wire')
    BY <2>1
  <2>3. ASSUME NEW r \in Inside', \A i \in 1..Len(wire') : ~Refreshes(wire'[i], r)
        PROVE  r \in Inside /\ Flaws(r) \subseteq Flaws(r)'
    <3>1. ~Refreshes(e, r)
      BY <2>1, <2>2, <2>3
    <3> QED BY <1>4, <3>1
  <2> QED BY <2>1, <2>2, <2>3 DEF Grows
<1> QED BY <1>11, <1>12

LEMMA Untold ==
  ASSUME TypeOK, TableInv, wire' = wire, table' = table,
         \A t \in Tables : Follows(t, t, {})
  PROVE  TableInv' /\ Grows
<1>0. PICK f : \E t \in Tables :
        /\ IsPath(f, table, wire) /\ f[Len(wire)] = t /\ Lawful(t)
        /\ \A r \in Inside : Quiet(f, wire, r, Flaws(r))
  BY DEF TableInv
<1>1. PICK t \in Tables :
        /\ IsPath(f, table, wire) /\ f[Len(wire)] = t /\ Lawful(t)
        /\ \A r \in Inside : Quiet(f, wire, r, Flaws(r))
  BY <1>0
<1>3. /\ Lawful(t)'
      /\ \A r \in Inside' : r \in Inside /\ Flaws(r) \subseteq Flaws(r)'
  BY <1>1 DEF Follows
<1>4. ASSUME NEW r \in Inside' PROVE Quiet(f, wire, r, Flaws(r)')
  BY <1>1, <1>3, QuietGrows
<1>5. TableInv'
  BY <1>1, <1>3, <1>4 DEF TableInv
<1>6. Grows
  BY <1>3 DEF Grows
<1> QED BY <1>5, <1>6

LEMMA UserJoinsLawful ==
  ASSUME TypeOK, TableInv, NEW n \in Peers, NEW r \in Rooms, UserJoins(n, r)
  PROVE  TableInv' /\ Grows
<1>1. /\ n \in Nicks /\ n # Me /\ table' = table
      /\ \A q \in Rooms :
            /\ server'[q] = IF q = r THEN server[q] \cup {n} ELSE server[q]
            /\ unseen'[q] = IF q = r THEN unseen[q] \ {n} ELSE unseen[q]
            /\ misled'[q] = IF q = r THEN misled[q] \ {n} ELSE misled[q]
  BY DEF UserJoins, Operates, Peers, TypeOK
<1>2. Inside' = Inside
  <2>1. \A q \in Rooms : Me \in server'[q] <=> Me \in server[q]
    BY <1>1
  <2> QED BY <2>1 DEF Inside
<1>3. CASE r \in Inside
  <2> DEFINE e == [type |-> "userJoined", nick |-> n, room |-> r]
  <2>1. e \in Events /\ wire' = Append(wire, e)
    BY <1>1, <1>3 DEF UserJoins, Tells, Events
  <2>2. \A q \in Rooms : Refreshes(e, q) <=> q = r
    BY DEF Refreshes
  <2>3. ASSUME NEW t \in Tables PROVE Follows(t, Updated(t, e), {q \in Rooms : Refreshes(e, q)})
    <3> DEFINE u == Updated(t, e)
    <3>1. \A q \in Rooms : In(u, q) = IF q = r THEN In(t, r) \cup {n} ELSE In(t, q)
      BY <1>1, InAppear DEF Updated
    <3> HIDE DEF e, u
    <3>2. Lawful(t) => Lawful(u)'
      BY <1>1, <1>2, <3>1 DEF Lawful, Beyond, Hidden
    <3>3. ASSUME NEW q \in Inside', ~Refreshes(e, q)
          PROVE  q \in Inside /\ Flaws(q) \subseteq Flaws(q)' /\ Shrinks(t, u, q, Flaws(q)')
      <4>1. q \in Rooms /\ q # r
        BY <2>2, <3>3, <1>2 DEF Inside
      <4> QED BY <1>1, <1>2, <3>1, <4>1, <3>3 DEF Shrinks, Flaws
    <3>4. Inside' \subseteq Rooms
      BY DEF Inside
    <3> QED BY <3>2, <3>3, <3>4 DEF Follows, u
  <2> HIDE DEF e
  <2> QED BY <1>1, <2>1, <2>3, Told
<1>4. CASE r \notin Inside
  <2>1. wire' = wire
    BY <1>4 DEF UserJoins, Tells
  <2>2. ASSUME NEW t \in Tables PROVE Follows(t, t, {})
    <3>1. Lawful(t) => Lawful(t)'
      BY <1>1, <1>2, <1>4 DEF Lawful, Beyond, Hidden
    <3>2. \A q \in Inside' : q \in Inside /\ Flaws(q) \subseteq Flaws(q)' /\ Shrinks(t, t, q, Flaws(q)')
      BY <1>1, <1>2, <1>4 DEF Shrinks, Flaws, Inside
    <3> QED BY <3>1, <3>2 DEF Follows
  <2> QED BY <1>1, <2>1, <2>2, Untold
<1> QED BY <1>3, <1>4

LEMMA SelfPartsLawful ==
  ASSUME TypeOK, TableInv, NEW r \in Rooms, SelfParts(r)
  PROVE  TableInv' /\ Grows
<1>1. /\ table' = table /\ unseen' = unseen /\ misled' = misled
      /\ \A q \in Rooms : server'[q] = IF q = r THEN server[q] \ {Me} ELSE server[q]
  BY DEF SelfParts, Operates, TypeOK
<1>2. Inside' = Inside \ {r}
  BY <1>1 DEF Inside
<1> DEFINE e == [type |-> "selfParted", room |-> r]
<1>3. e \in Events /\ wire' = Append(wire, e)
  BY DEF SelfParts, Tells, Events
<1>4. ASSUME NEW t \in Tables PROVE Follows(t, Updated(t, e), {q \in Rooms : Refreshes(e, q)})
  <2> DEFINE u == Updated(t, e)
  <2>1. \A q \in Rooms : In(u, q) = IF q = r THEN In(t, q) \ {Me} ELSE In(t, q)
    <3>1. u = Depart(t, {r}, Me)
      BY DEF Updated
    <3> HIDE DEF u, e
    <3>2. Me \in Nicks
      BY NamesAssumption
    <3>3. ASSUME NEW q \in Rooms
          PROVE  In(Depart(t, {r}, Me), q) = IF q \in {r} THEN In(t, q) \ {Me} ELSE In(t, q)
      BY <3>2, InDepart
    <3> QED BY <3>1, <3>3
  <2> HIDE DEF e, u
  <2>2. Lawful(t) => Lawful(u)'
    BY <1>1, <1>2, <2>1 DEF Lawful, Beyond, Hidden
  <2>3. \A q \in Inside' : q \in Inside /\ Flaws(q) \subseteq Flaws(q)' /\ Shrinks(t, u, q, Flaws(q)')
    BY <1>1, <1>2, <2>1 DEF Shrinks, Flaws, Inside
  <2> QED BY <2>2, <2>3 DEF Follows, u
<1> HIDE DEF e
<1> QED BY <1>1, <1>3, <1>4, Told

LEMMA UserPartsLawful ==
  ASSUME TypeOK, TableInv, NEW n \in Peers, NEW r \in Rooms, UserParts(n, r)
  PROVE  TableInv' /\ Grows
<1>1. /\ n \in Nicks /\ n # Me /\ n \in server[r] /\ table' = table
      /\ \A q \in Rooms :
            /\ server'[q] = IF q = r THEN server[q] \ {n} ELSE server[q]
  BY DEF UserParts, Operates, Peers, TypeOK
<1>2. Inside' = Inside
  BY <1>1 DEF Inside
<1>3. CASE r \in Inside
  <2> DEFINE e == [type |-> "userParted", nick |-> n, room |-> r]
  <2>1. e \in Events /\ wire' = Append(wire, e)
    BY <1>1, <1>3 DEF UserParts, Tells, Events
  <2>2. /\ unseen' = unseen
        /\ \A q \in Rooms : misled'[q] = misled[q] \cup ({n} \cap server'[q])
    BY <1>3 DEF UserParts
  <2>3. \A q \in Rooms : Refreshes(e, q) <=> q = r
    BY DEF Refreshes
  <2>4. ASSUME NEW t \in Tables PROVE Follows(t, Updated(t, e), {q \in Rooms : Refreshes(e, q)})
    <3> DEFINE u == Updated(t, e)
    <3>1. \A q \in Rooms : In(u, q) = In(t, q) \ {n}
      BY <1>1, InDepart DEF Updated, DepartsFrom
    <3> HIDE DEF e, u
    <3>2. Lawful(t) => Lawful(u)'
      BY <1>1, <1>2, <2>2, <3>1 DEF Lawful, Beyond, Hidden
    <3>3. ASSUME NEW q \in Inside', Lawful(t), ~Refreshes(e, q)
          PROVE  q \in Inside /\ Flaws(q) \subseteq Flaws(q)' /\ Shrinks(t, u, q, Flaws(q)')
      <4>1. q \in Rooms /\ q # r /\ q \in Inside
        BY <2>3, <3>3, <1>2 DEF Inside
      <4>2. In(t, q) \ server[q] \subseteq unseen[q]
        BY <3>3, <4>1 DEF Lawful, Beyond
      <4> QED BY <1>1, <2>2, <3>1, <4>1, <4>2 DEF Shrinks, Flaws
    <3>4. Inside' \subseteq Rooms
      BY DEF Inside
    <3> QED BY <3>2, <3>3, <3>4 DEF Follows, u
  <2> HIDE DEF e
  <2> QED BY <1>1, <2>1, <2>4, Told
<1>4. CASE r \notin Inside
  <2>1. /\ wire' = wire /\ misled' = misled
        /\ \A q \in Rooms : unseen'[q] = IF q = r THEN unseen[q] \cup {n} ELSE unseen[q]
    BY <1>4 DEF UserParts, Tells, TypeOK
  <2>2. ASSUME NEW t \in Tables PROVE Follows(t, t, {})
    <3>1. Lawful(t) => Lawful(t)'
      BY <1>1, <1>2, <1>4, <2>1 DEF Lawful, Beyond, Hidden
    <3>2. \A q \in Inside' : q \in Inside /\ Flaws(q) \subseteq Flaws(q)' /\ Shrinks(t, t, q, Flaws(q)')
      BY <1>1, <1>2, <1>4, <2>1 DEF Shrinks, Flaws, Inside
    <3> QED BY <3>1, <3>2 DEF Follows
  <2> QED BY <1>1, <2>1, <2>2, Untold
<1> QED BY <1>3, <1>4

LEMMA KicksLawful ==
  ASSUME TypeOK, TableInv, NEW n \in Nicks, NEW r \in Rooms, Kicks(n, r)
  PROVE  TableInv' /\ Grows
<1>1. /\ n \in server[r] /\ table' = table /\ misled' = misled
      /\ \A q \in Rooms : server'[q] = IF q = r THEN server[q] \ {n} ELSE server[q]
  BY DEF Kicks, Operates, TypeOK
<1>2. Inside' \subseteq Inside /\ Inside' \subseteq Rooms
  BY <1>1 DEF Inside
<1>3. CASE r \in Inside
  <2> DEFINE e == [type |-> "kicked", nick |-> n, room |-> r]
  <2>1. e \in Events /\ wire' = Append(wire, e) /\ unseen' = unseen
    BY <1>3 DEF Kicks, Tells, Events
  <2>2. \A q \in Rooms : Refreshes(e, q) <=> q = r
    BY DEF Refreshes
  <2>3. ASSUME NEW t \in Tables PROVE Follows(t, Updated(t, e), {q \in Rooms : Refreshes(e, q)})
    <3> DEFINE u == Updated(t, e)
    <3>1. \A q \in Rooms : In(u, q) = IF q = r THEN In(t, q) \ {n} ELSE In(t, q)
      <4>1. u = Depart(t, {r}, n)
        BY DEF Updated, DepartsFrom
      <4> HIDE DEF u
      <4> QED BY <4>1, InDepart
    <3> HIDE DEF e, u
    <3>2. Lawful(t) => Lawful(u)'
      BY <1>1, <1>2, <2>1, <3>1 DEF Lawful, Beyond, Hidden
    <3>3. ASSUME NEW q \in Inside', ~Refreshes(e, q)
          PROVE  q \in Inside /\ Flaws(q) \subseteq Flaws(q)' /\ Shrinks(t, u, q, Flaws(q)')
      <4>1. q \in Rooms /\ q # r /\ q \in Inside
        BY <2>2, <3>3, <1>2
      <4> QED BY <1>1, <2>1, <3>1, <4>1 DEF Shrinks, Flaws
    <3> QED BY <1>2, <3>2, <3>3 DEF Follows, u
  <2> HIDE DEF e
  <2> QED BY <1>1, <2>1, <2>3, Told
<1>4. CASE r \notin Inside
  <2>1. wire' = wire /\ \A q \in Rooms : unseen'[q] = IF q = r THEN unseen[q] \cup {n} ELSE unseen[q]
    BY <1>4 DEF Kicks, Tells, TypeOK
  <2>2. ASSUME NEW t \in Tables PROVE Follows(t, t, {})
    <3>1. Lawful(t) => Lawful(t)'
      BY <1>1, <1>2, <1>4, <2>1 DEF Lawful, Beyond, Hidden
    <3>2. \A q \in Inside' : q \in Inside /\ Flaws(q) \subseteq Flaws(q)' /\ Shrinks(t, t, q, Flaws(q)')
      BY <1>1, <1>2, <1>4, <2>1 DEF Shrinks, Flaws
    <3> QED BY <3>1, <3>2 DEF Follows
  <2> QED BY <1>1, <2>1, <2>2, Untold
<1> QED BY <1>3, <1>4

LEMMA UserQuitsLawful ==
  ASSUME TypeOK, TableInv, NEW n \in Peers, UserQuits(n)
  PROVE  TableInv' /\ Grows
<1>1. /\ n \in Nicks /\ n # Me /\ table' = table /\ misled' = misled
      /\ \A q \in Rooms : server'[q] = server[q] \ {n}
  BY DEF UserQuits, Operates, Peers
<1>2. Inside' = Inside
  BY <1>1 DEF Inside
<1>3. CASE Shares(n)
  <2> DEFINE e == [type |-> "userQuit", nick |-> n]
  <2>1. e \in Events /\ wire' = Append(wire, e) /\ unseen' = unseen
    BY <1>1, <1>3 DEF UserQuits, Tells, Events
  <2>2. \A q \in Rooms : Refreshes(e, q)
    BY DEF Refreshes
  <2>3. ASSUME NEW t \in Tables PROVE Follows(t, Updated(t, e), {q \in Rooms : Refreshes(e, q)})
    <3> DEFINE u == Updated(t, e)
    <3>1. \A q \in Rooms : In(u, q) = In(t, q) \ {n}
      BY <1>1, InDepart DEF Updated, DepartsFrom
    <3> HIDE DEF e, u
    <3>2. Lawful(t) => Lawful(u)'
      BY <1>1, <1>2, <2>1, <3>1 DEF Lawful, Beyond, Hidden
    <3>3. Inside' \subseteq Rooms
      BY DEF Inside
    <3> QED BY <2>2, <3>2, <3>3 DEF Follows, u
  <2> HIDE DEF e
  <2> QED BY <1>1, <2>1, <2>3, Told
<1>4. CASE ~Shares(n)
  <2>1. wire' = wire /\ \A q \in Rooms : unseen'[q] = unseen[q] \cup ({n} \cap server[q])
    BY <1>4 DEF UserQuits, Tells
  <2>2. \A q \in Inside : n \notin server[q]
    BY <1>4 DEF Shares
  <2>3. ASSUME NEW t \in Tables PROVE Follows(t, t, {})
    <3>1. Lawful(t) => Lawful(t)'
      BY <1>1, <1>2, <2>1, <2>2 DEF Lawful, Beyond, Hidden
    <3>2. \A q \in Inside' : q \in Inside /\ Flaws(q) \subseteq Flaws(q)' /\ Shrinks(t, t, q, Flaws(q)')
      BY <1>1, <1>2, <2>1 DEF Shrinks, Flaws, Inside
    <3> QED BY <3>1, <3>2 DEF Follows
  <2> QED BY <1>1, <2>1, <2>3, Untold
<1> QED BY <1>3, <1>4

LEMMA NickChangesLawful ==
  ASSUME TypeOK, TableInv, NEW n \in Peers, NEW m \in Peers, NickChanges(n, m)
  PROVE  TableInv' /\ Grows
<1>1. /\ n \in Nicks /\ n # Me /\ m \in Nicks /\ m # Me /\ n # m /\ table' = table
      /\ \A q \in Rooms : m \notin server[q] /\ server'[q] = Renamed(server[q], n, m)
  BY DEF NickChanges, Operates, Peers
<1>2. Inside' = Inside
  BY <1>1 DEF Inside, Renamed
<1>3. CASE Shares(n)
  <2> DEFINE e == [type |-> "nickChanged", nick |-> n, new |-> m]
  <2>1. /\ e \in Events /\ wire' = Append(wire, e)
        /\ \A q \in Rooms : /\ unseen'[q] = Renamed(unseen[q], n, m)
                            /\ misled'[q] = Renamed(misled[q], n, m)
    BY <1>1, <1>3 DEF NickChanges, Tells, Events
  <2>2. \A q \in Rooms : Refreshes(e, q)
    BY DEF Refreshes
  <2>3. ASSUME NEW t \in Tables PROVE Follows(t, Updated(t, e), {q \in Rooms : Refreshes(e, q)})
    <3> DEFINE u == Updated(t, e)
    <3>1. \A q \in Rooms :
             \/ In(u, q) = In(t, q) /\ n \notin In(t, q)
             \/ In(u, q) = Renamed(In(t, q), n, m)
             \/ In(u, q) = In(t, q) \ {m} /\ n \notin In(t, q)
      BY <1>1, InRename DEF Updated
    <3> HIDE DEF e, u
    <3>2. ASSUME Lawful(t), NEW q \in Rooms
          PROVE  /\ In(u, q) \ server'[q] \subseteq unseen'[q]
                 /\ q \in Inside => server'[q] \ In(u, q) \subseteq misled'[q]
      <4>1. /\ In(t, q) \ server[q] \subseteq unseen[q]
            /\ q \in Inside => server[q] \ In(t, q) \subseteq misled[q]
        BY <3>2 DEF Lawful, Beyond, Hidden
      <4> QED BY <1>1, <2>1, <3>1, <4>1 DEF Renamed
    <3>3. Lawful(t) => Lawful(u)'
      BY <1>2, <3>2 DEF Lawful, Beyond, Hidden
    <3>4. Inside' \subseteq Rooms
      BY DEF Inside
    <3> QED BY <2>2, <3>3, <3>4 DEF Follows, u
  <2> HIDE DEF e
  <2> QED BY <1>1, <2>1, <2>3, Told
<1>4. CASE ~Shares(n)
  <2>1. /\ wire' = wire /\ misled' = misled
        /\ \A q \in Rooms : unseen'[q] = unseen[q] \cup ({n} \cap server[q])
    BY <1>4 DEF NickChanges, Tells
  <2>2. \A q \in Inside : n \notin server[q]
    BY <1>4 DEF Shares
  <2>3. ASSUME NEW t \in Tables PROVE Follows(t, t, {})
    <3>1. Lawful(t) => Lawful(t)'
      BY <1>1, <1>2, <2>1, <2>2 DEF Lawful, Beyond, Hidden, Renamed
    <3>2. \A q \in Inside' : q \in Inside /\ Flaws(q) \subseteq Flaws(q)' /\ Shrinks(t, t, q, Flaws(q)')
      BY <1>1, <1>2, <2>1 DEF Shrinks, Flaws, Inside
    <3> QED BY <3>1, <3>2 DEF Follows
  <2> QED BY <1>1, <2>1, <2>3, Untold
<1> QED BY <1>3, <1>4

\* Both events of a join at once: what the first one adds, the second refreshes.
LEMMA SelfJoinsLawful ==
  ASSUME TypeOK, TypeOK', TableInv, NEW r \in Rooms, SelfJoins(r)
  PROVE  TableInv' /\ Grows
<1>1. PICK N : N = server'[r]
  OBVIOUS
<1> DEFINE a == [type |-> "selfJoined", room |-> r]
           b == [type |-> "names", room |-> r, nicks |-> N]
           w == Append(wire, a)
<1>2. /\ N \in SUBSET Nicks /\ table' = table /\ unseen' = unseen
      /\ \A q \in Rooms : /\ server'[q] = IF q = r THEN N ELSE server[q]
                          /\ misled'[q] = IF q = r THEN {} ELSE misled[q]
      /\ N = server[r] \cup {Me}
  BY <1>1, NamesAssumption DEF SelfJoins, Operates, TypeOK
<1>3. a \in Events /\ b \in Events /\ wire \in Seq(Events) /\ w \in Seq(Events) /\ table \in Tables
  BY <1>2 DEF Events, TypeOK
<1>4. wire' = Append(w, b)
  <2>1. wire' = wire \o <<a, b>>
    BY <1>1 DEF SelfJoins
  <2> HIDE DEF a, b
  <2> QED BY <2>1, <1>3
<1>5. Inside' = Inside \cup {r} /\ Inside \subseteq Rooms
  BY <1>2 DEF Inside
<1>6. /\ \A q \in Rooms : ~Refreshes(a, q)
      /\ \A q \in Rooms : Refreshes(b, q) <=> q = r
  BY DEF Refreshes
<1>7. PICK f : \E t \in Tables :
        /\ IsPath(f, table, wire) /\ f[Len(wire)] = t /\ Lawful(t)
        /\ \A q \in Inside : Quiet(f, wire, q, Flaws(q))
  BY DEF TableInv
<1>8. PICK t \in Tables :
        /\ IsPath(f, table, wire) /\ f[Len(wire)] = t /\ Lawful(t)
        /\ \A q \in Inside : Quiet(f, wire, q, Flaws(q))
  BY <1>7
<1> DEFINE u == Updated(t, a)
           v == Updated(u, b)
           g == Extended(f, Len(wire), a)
           h == Extended(g, Len(w), b)
<1>9. u \in Tables /\ v \in Tables
  BY <1>3, <1>8, UpdatedTypes
<1>10. /\ \A q \in Rooms : In(u, q) = IF q = r THEN In(t, q) \cup {Me} ELSE In(t, q)
       /\ \A q \in Rooms : In(v, q) = IF q = r THEN In(u, q) \cup N ELSE In(u, q)
  <2>1. u = Appear(t, r, {Me}) /\ v = Appear(u, r, N)
    BY DEF Updated
  <2> HIDE DEF u, v, g, h, w, a, b
  <2>2. \A q \in Rooms : In(u, q) = IF q = r THEN In(t, q) \cup {Me} ELSE In(t, q)
    <3> DEFINE M == {Me}
    <3>1. M \in SUBSET Nicks
      BY NamesAssumption
    <3> HIDE DEF M
    <3>2. ASSUME NEW q \in Rooms
          PROVE  In(Appear(t, r, M), q) = IF q = r THEN In(t, r) \cup M ELSE In(t, q)
      BY <3>1, InAppear
    <3> USE DEF M
    <3> QED BY <2>1, <3>2
  <2>3. ASSUME NEW q \in Rooms
        PROVE  In(Appear(u, r, N), q) = IF q = r THEN In(u, r) \cup N ELSE In(u, q)
    <3>1. N \in SUBSET Nicks /\ u \in Tables
      BY <1>2, <1>9
    <3> QED BY <3>1, InAppear
  <2> QED BY <2>1, <2>2, <2>3
<1> HIDE DEF a, b, u, v
<1>11. Len(wire) \in Nat /\ Len(w) = Len(wire) + 1 /\ Len(Append(w, b)) = Len(w) + 1
  BY <1>3, Appended
<1>12. g[Len(w)] = u
  BY <1>8, <1>11 DEF Extended, u
<1>13. h[Len(Append(w, b))] = v
  <2> HIDE DEF g, w
  <2> QED BY <1>11, <1>12 DEF Extended, v
<1>14. IsPath(g, table, w)
  BY <1>3, <1>8, PathExtends
<1> HIDE DEF g, w
<1>15. IsPath(h, table, Append(w, b))
  BY <1>3, <1>14, PathExtends
<1>16. Lawful(v)'
  BY <1>2, <1>5, <1>8, <1>10 DEF Lawful, Beyond, Hidden
<1>17. ASSUME NEW q \in Inside' PROVE Quiet(h, Append(w, b), q, Flaws(q)')
  <2> DEFINE X == Flaws(q)
             Y == Flaws(q)'
  <2>1. q \in Rooms
    BY <1>5
  <2>2. CASE q = r
    <3>1. Refreshes(b, q)
      BY <1>6, <2>1, <2>2
    <3> HIDE DEF X, Y
    <3>2. Quiet(h, Append(w, b), q, Y)
      BY <1>3, <3>1, QuietExtends
    <3> QED BY <3>2 DEF Y
  <2>3. CASE q # r
    <3>1. q \in Inside /\ X = Y
      BY <1>2, <1>5, <2>1, <2>3 DEF Flaws
    <3>2. Quiet(f, wire, q, X)
      BY <1>8, <3>1
    <3> HIDE DEF X, Y
    <3>3. Shrinks(f[Len(wire)], Updated(f[Len(wire)], a), q, X)
      BY <1>8, <1>10, <2>1, <2>3 DEF Shrinks, u
    <3>4. Quiet(Extended(f, Len(wire), a), Append(wire, a), q, X)
      BY <1>3, <3>2, <3>3, QuietExtends
    <3>5. Quiet(g, w, q, X)
      BY <3>4 DEF g, w
    <3>6. Shrinks(g[Len(w)], Updated(g[Len(w)], b), q, X)
      BY <1>10, <1>12, <2>1, <2>3 DEF Shrinks, v
    <3>7. Quiet(h, Append(w, b), q, X)
      BY <1>3, <3>5, <3>6, QuietExtends
    <3> QED BY <3>1, <3>7 DEF Y
  <2> QED BY <2>2, <2>3
<1> HIDE DEF h
<1>18. /\ IsPath(h, table', wire') /\ h[Len(wire')] = v
       /\ \A q \in Inside' : Quiet(h, wire', q, Flaws(q)')
  BY <1>2, <1>4, <1>13, <1>15, <1>17
<1>19. TableInv'
  BY <1>9, <1>16, <1>18 DEF TableInv
<1>20. Grows
  <2>1. /\ wire'[Len(w) + 1] = b /\ Len(wire') = Len(w) + 1
        /\ \A i \in 1..Len(w) : wire'[i] = w[i]
    BY <1>3, <1>4, Appended
  <2>2. \A i \in 1..Len(wire) : w[i] = wire[i]
    BY <1>3, Appended DEF w
  <2>3. Len(w) + 1 \in 1..Len(wire') /\ \A i \in 1..Len(wire) : i \in 1..Len(w) /\ i \in 1..Len(wire')
    BY <1>11, <2>1
  <2>4. ASSUME NEW q \in Inside', \A i \in 1..Len(wire') : ~Refreshes(wire'[i], q)
        PROVE  q \in Inside /\ Flaws(q) \subseteq Flaws(q)'
    <3>1. ~Refreshes(b, q)
      BY <2>1, <2>3, <2>4
    <3>2. q \in Rooms /\ q # r /\ q \in Inside
      BY <1>5, <1>6, <3>1
    <3> QED BY <1>2, <3>2 DEF Flaws
  <2> QED BY <2>1, <2>2, <2>3, <2>4 DEF Grows
<1> QED BY <1>19, <1>20

LEMMA ReceiveLawful ==
  ASSUME TypeOK, TableInv, Receive PROVE TableInv'
<1>1. PICK f : \E t \in Tables :
        /\ IsPath(f, table, wire) /\ f[Len(wire)] = t /\ Lawful(t)
        /\ \A q \in Inside : Quiet(f, wire, q, Flaws(q))
  BY DEF TableInv
<1>2. PICK t \in Tables :
        /\ IsPath(f, table, wire) /\ f[Len(wire)] = t /\ Lawful(t)
        /\ \A q \in Inside : Quiet(f, wire, q, Flaws(q))
  BY <1>1
<1>3. /\ wire \in Seq(Events) /\ wire # <<>> /\ wire' = Tail(wire)
      /\ table' = Updated(table, wire[1]) /\ UNCHANGED serverVars
  BY FirstAndRest DEF Receive, TypeOK
<1> DEFINE g == Rest(f, Len(wire))
<1>4. IsPath(g, table', wire')
  BY <1>2, <1>3, PathShortens
<1>5. \A q \in Inside : Quiet(g, wire', q, Flaws(q))
  BY <1>2, <1>3, QuietShortens
<1>6. g[Len(wire')] = t
  <2>1. Len(wire) \in Nat \ {0} /\ Len(wire') = Len(wire) - 1
    BY <1>3, FirstAndRest
  <2> QED BY <1>2, <2>1 DEF Rest
<1> HIDE DEF g
<1>7. Inside' = Inside /\ Lawful(t)' /\ \A q \in Inside : Flaws(q)' = Flaws(q)
  BY <1>2, <1>3 DEF serverVars, Inside, Lawful, Flaws, Beyond, Hidden
<1> QED BY <1>4, <1>5, <1>6, <1>7 DEF TableInv

LEMMA ServerActsLawful ==
  ASSUME TypeOK, TypeOK', TableInv, ServerActs PROVE TableInv' /\ Grows
<1>1. CASE \E r \in Rooms : SelfJoins(r) \/ SelfParts(r)
  BY <1>1, SelfJoinsLawful, SelfPartsLawful
<1>2. CASE \E n \in Peers, r \in Rooms : UserJoins(n, r) \/ UserParts(n, r)
  BY <1>2, UserJoinsLawful, UserPartsLawful
<1>3. CASE \E n \in Nicks, r \in Rooms : Kicks(n, r)
  BY <1>3, KicksLawful
<1>4. CASE \E n \in Peers : UserQuits(n)
  BY <1>4, UserQuitsLawful
<1>5. CASE \E n, m \in Peers : NickChanges(n, m)
  BY <1>5, NickChangesLawful
<1> QED BY <1>1, <1>2, <1>3, <1>4, <1>5 DEF ServerActs

LEMMA InitLawful == Init => TableInv
<1> SUFFICES ASSUME Init PROVE TableInv
  OBVIOUS
<1> DEFINE f == [i \in 0..0 |-> table]
<1>1. wire = <<>> /\ table \in Tables
  BY InitTypes DEF Init, TypeOK
<1>2. Len(wire) = 0 /\ 0 \in 0..0 /\ 1..0 = {}
  BY <1>1
<1>3. IsPath(f, table, wire) /\ f[Len(wire)] = table
  BY <1>1, <1>2 DEF IsPath
<1>4. \A r \in Rooms : In(table, r) = IF r \in Inside THEN server[r] ELSE {}
  BY StartsAssumption DEF Init, In
<1>5. Lawful(table)
  BY <1>4 DEF Lawful, Beyond, Hidden
<1>6. \A r \in Inside : Quiet(f, wire, r, Flaws(r))
  BY <1>2 DEF Quiet
<1> QED BY <1>1, <1>3, <1>5, <1>6 DEF TableInv

\* Everything else leaves the rooms, the wire and the table alone.
LEMMA ElsewhereLawful ==
  ASSUME TableInv, UNCHANGED <<serverVars, wire, table>> PROVE TableInv'
<1>1. PICK f : \E t \in Tables :
        /\ IsPath(f, table, wire) /\ f[Len(wire)] = t /\ Lawful(t)
        /\ \A q \in Inside : Quiet(f, wire, q, Flaws(q))
  BY DEF TableInv
<1>2. PICK t \in Tables :
        /\ IsPath(f, table, wire) /\ f[Len(wire)] = t /\ Lawful(t)
        /\ \A q \in Inside : Quiet(f, wire, q, Flaws(q))
  BY <1>1
<1>3. Inside' = Inside /\ Lawful(t)' /\ \A q \in Inside : Flaws(q)' = Flaws(q)
  BY <1>2 DEF serverVars, Inside, Lawful, Flaws, Beyond, Hidden
<1> QED BY <1>2, <1>3 DEF TableInv

-----------------------------------------------------------------------------
(* The list: if nothing under way asks for a new one, the newest that was    *)
(* asked for is as the table, wherever it is by now.                         *)

Faithful(list) ==
    /\ list.room = activeRoom /\ Here(activeRoom) \subseteq list.rows
    /\ list.rows \ Here(activeRoom) \subseteq Flaws(activeRoom)

Unrefreshed ==
    /\ \A i \in 1..Len(wire) : ~Refreshes(wire[i], activeRoom)
    /\ \A i \in 1..Len(stream) : ~Refreshes(stream[i], activeRoom)

Asked ==
    \E t \in tasks :
        /\ t.room = activeRoom
        /\ \A u \in tasks : u # t => u.seq < t.seq
        /\ \A i \in 1..Len(mailbox) : mailbox[i].seq < t.seq
        /\ appliedMembersSeq < t.seq

Posted ==
    \E i \in 1..Len(mailbox) :
        /\ Faithful(mailbox[i].list)
        /\ \A u \in tasks : u.seq < mailbox[i].seq
        /\ \A j \in 1..Len(mailbox) : j # i => mailbox[j].seq < mailbox[i].seq
        /\ appliedMembersSeq < mailbox[i].seq

Displayed ==
    /\ Faithful(shown)
    /\ \A u \in tasks : u.seq <= appliedMembersSeq
    /\ \A i \in 1..Len(mailbox) : mailbox[i].seq <= appliedMembersSeq

ListInv == activeRoom \in Inside /\ Unrefreshed => Asked \/ Posted \/ Displayed

LEMMA InitListed == Init => ListInv
  BY DEF Init, ListInv, Displayed, Faithful

\* A list stays as the table while the table loses only the flawed.
LEMMA FaithfulStays ==
  ASSUME ListInv, activeRoom \in Inside, Unrefreshed,
         UNCHANGED <<activeRoom, tasks, mailbox, shown, appliedMembersSeq>>,
         Flaws(activeRoom) \subseteq Flaws(activeRoom)',
         Here(activeRoom)' \subseteq Here(activeRoom),
         Here(activeRoom) \ Here(activeRoom)' \subseteq Flaws(activeRoom)'
  PROVE  ListInv'
<1>1. \A list : Faithful(list) => Faithful(list)'
  BY DEF Faithful
<1>2. CASE Asked
  BY <1>2 DEF Asked, ListInv
<1>3. CASE Posted
  BY <1>1, <1>3 DEF Posted, ListInv
<1>4. CASE Displayed
  <2>1. Faithful(shown)'
    BY <1>1, <1>4 DEF Displayed, Faithful
  <2> QED BY <1>4, <2>1 DEF Displayed, ListInv
<1> QED BY <1>2, <1>3, <1>4 DEF ListInv

LEMMA ServerActsListed ==
  ASSUME TypeOK, Grows, Operates, ListInv PROVE ListInv'
<1> SUFFICES ASSUME activeRoom' \in Inside', Unrefreshed' PROVE ListInv'
  BY DEF ListInv
<1>1. UNCHANGED <<table, stream, activeRoom, switches, membersSeq, tasks, mailbox,
                  shown, appliedMembersSeq, activated>>
  BY DEF Operates
<1>2. activeRoom \in Inside /\ Flaws(activeRoom) \subseteq Flaws(activeRoom)'
  BY <1>1 DEF Grows, Unrefreshed, Flaws
<1>3. Unrefreshed
  BY <1>1 DEF Grows, Unrefreshed
<1>4. Here(activeRoom)' = Here(activeRoom)
  BY <1>1 DEF Here
<1> QED BY <1>1, <1>2, <1>3, <1>4, FaithfulStays DEF ListInv

LEMMA ReceiveListed ==
  ASSUME TypeOK, TableInv, Receive, ListInv PROVE ListInv'
<1> SUFFICES ASSUME activeRoom' \in Inside', Unrefreshed' PROVE ListInv'
  BY DEF ListInv
<1>1. /\ wire \in Seq(Events) /\ stream \in Seq(Events) /\ wire # <<>> /\ wire' = Tail(wire)
      /\ stream' = Append(stream, wire[1]) /\ table' = Updated(table, wire[1])
      /\ UNCHANGED serverVars
      /\ UNCHANGED <<activeRoom, tasks, mailbox, shown, appliedMembersSeq>>
  BY FirstAndRest DEF Receive, TypeOK
<1>2. activeRoom \in Inside /\ activeRoom \in Rooms /\ Flaws(activeRoom)' = Flaws(activeRoom)
  BY <1>1 DEF serverVars, Inside, Flaws
<1>3. Unrefreshed
  <2>1. /\ wire[1] \in Events /\ Len(stream) \in Nat /\ Len(wire) \in Nat \ {0}
        /\ Len(wire') = Len(wire) - 1
        /\ \A i \in 1..Len(wire') : wire'[i] = wire[i + 1]
    BY <1>1, FirstAndRest
  <2>2. /\ Len(stream') = Len(stream) + 1 /\ stream'[Len(stream) + 1] = wire[1]
        /\ \A i \in 1..Len(stream) : stream'[i] = stream[i]
    BY <1>1, <2>1, Appended
  <2>3. Len(stream) + 1 \in 1..Len(stream') /\ \A i \in 1..Len(stream) : i \in 1..Len(stream')
    BY <2>1, <2>2
  <2>4. \A i \in 1..Len(stream') : ~Refreshes(stream'[i], activeRoom)
    BY <1>1 DEF Unrefreshed
  <2>5. \A i \in 1..Len(wire') : ~Refreshes(wire'[i], activeRoom)
    BY <1>1 DEF Unrefreshed
  <2>6. ASSUME NEW i \in 1..Len(wire) PROVE ~Refreshes(wire[i], activeRoom)
    <3>1. CASE i = 1
      BY <2>2, <2>3, <2>4, <3>1
    <3>2. CASE i # 1
      <4>1. i - 1 \in 1..Len(wire') /\ i - 1 + 1 = i
        BY <2>1, <3>2
      <4> QED BY <2>1, <2>5, <4>1
    <3> QED BY <3>1, <3>2
  <2> QED BY <2>2, <2>3, <2>4, <2>6 DEF Unrefreshed
<1>4. Shrinks(table, table', activeRoom, Flaws(activeRoom))
  <2>1. PICK f : \E t \in Tables :
          /\ IsPath(f, table, wire) /\ f[Len(wire)] = t /\ Lawful(t)
          /\ \A q \in Inside : Quiet(f, wire, q, Flaws(q))
    BY DEF TableInv
  <2>2. IsPath(f, table, wire) /\ Quiet(f, wire, activeRoom, Flaws(activeRoom))
    BY <1>2, <2>1
  <2>3. 1 \in 1..Len(wire) /\ 1 - 1 = 0
    BY <1>1, FirstAndRest
  <2>4. f[1 - 1] = table /\ f[1] = Updated(f[1 - 1], wire[1])
    BY <2>2, <2>3 DEF IsPath
  <2>5. Shrinks(f[1 - 1], f[1], activeRoom, Flaws(activeRoom))
    BY <1>3, <2>2, <2>3 DEF Quiet, Unrefreshed
  <2> QED BY <1>1, <2>4, <2>5
<1>5. Here(activeRoom) = In(table, activeRoom) /\ Here(activeRoom)' = In(table', activeRoom)
  BY <1>1, <1>2 DEF Here, In
<1> QED BY <1>1, <1>2, <1>3, <1>4, <1>5, FaithfulStays DEF ListInv, Shrinks

\* A number that has just been drawn for the active room is the newest.
LEMMA EmitListed ==
  ASSUME IInv, NEW r \in Rooms, EmitMembers(r, r), activeRoom' = r,
         UNCHANGED <<mailbox, appliedMembersSeq>>
  PROVE  ListInv'
<1> DEFINE t == [seq |-> membersSeq + 1, room |-> r]
<1>1. t \in tasks' /\ t.seq = membersSeq + 1 /\ t.room = r /\ membersSeq \in Nat
      /\ tasks' = tasks \cup {t}
  BY DEF EmitMembers, IInv, TypeOK
<1> HIDE DEF t
<1>2. \A u \in tasks : u.seq \in Nat /\ u.seq <= membersSeq
  BY DEF IInv, TypeOK, Numbered
<1>3. \A i \in 1..Len(mailbox) : mailbox[i].seq \in Nat /\ mailbox[i].seq <= membersSeq
  BY MailboxTypes DEF IInv, TypeOK, Numbered
<1>4. appliedMembersSeq \in Nat /\ appliedMembersSeq <= membersSeq
  BY DEF IInv, TypeOK
<1>5. Asked'
  BY <1>1, <1>2, <1>3, <1>4 DEF Asked
<1> QED BY <1>5 DEF ListInv

LEMMA ActivatesListed ==
  ASSUME IInv, NEW r \in Rooms \cup {NoRoom}, Activates(r),
         UNCHANGED <<serverVars, mailbox, appliedMembersSeq>>
  PROVE  ListInv'
<1>1. CASE r = NoRoom
  BY <1>1, NamesAssumption DEF Activates, ListInv, Inside
<1>2. CASE r # NoRoom
  BY <1>2, EmitListed DEF Activates
<1> QED BY <1>1, <1>2

LEMMA HandleListed ==
  ASSUME IInv, Handle, ListInv PROVE ListInv'
<1> DEFINE e == Head(stream)
<1>1. /\ stream \in Seq(Events) /\ stream # <<>> /\ stream' = Tail(stream)
      /\ e = stream[1] /\ e \in Events
      /\ UNCHANGED <<serverVars, wire, table, switches, mailbox, shown, appliedMembersSeq>>
  BY FirstAndRest DEF Handle, IInv, TypeOK
<1> HIDE DEF e
<1>2. ASSUME UNCHANGED <<activeRoom, tasks>>, ~Refreshes(e, activeRoom) PROVE ListInv'
  <2> SUFFICES ASSUME activeRoom' \in Inside', Unrefreshed' PROVE ListInv'
    BY DEF ListInv
  <2>1. /\ Len(stream) \in Nat \ {0} /\ Len(stream') = Len(stream) - 1
        /\ \A i \in 1..Len(stream') : stream'[i] = stream[i + 1]
    BY <1>1, FirstAndRest
  <2>2. ASSUME NEW i \in 1..Len(stream) PROVE ~Refreshes(stream[i], activeRoom)
    <3>1. CASE i = 1
      BY <1>1, <1>2, <3>1
    <3>2. CASE i # 1
      <4>1. i - 1 \in 1..Len(stream') /\ i - 1 + 1 = i
        BY <2>1, <3>2
      <4>2. \A j \in 1..Len(stream') : ~Refreshes(stream'[j], activeRoom)
        BY <1>2 DEF Unrefreshed
      <4> QED BY <2>1, <4>1, <4>2
    <3> QED BY <3>1, <3>2
  <2>3. Unrefreshed
    BY <1>1, <1>2, <2>2 DEF Unrefreshed
  <2>4. activeRoom \in Inside /\ Flaws(activeRoom)' = Flaws(activeRoom)
    BY <1>1, <1>2 DEF serverVars, Inside, Flaws
  <2>5. Here(activeRoom)' = Here(activeRoom)
    BY <1>1, <1>2 DEF Here
  <2> QED BY <1>1, <1>2, <2>3, <2>4, <2>5, FaithfulStays DEF ListInv
<1>3. CASE HandlesMembership(e)
  <2> DEFINE r == Refreshed(e)
  <2>1. /\ e.type \in {"userJoined", "names", "userParted", "kicked", "userQuit", "nickChanged"}
        /\ r \in Rooms \cup {NoRoom} /\ EmitMembers(r, activeRoom) /\ activeRoom' = activeRoom
    BY <1>1, <1>3, RefreshedTypes DEF HandlesMembership, IInv
  <2>2. CASE r = activeRoom /\ r # NoRoom
    <3>1. r \in Rooms /\ EmitMembers(r, r) /\ activeRoom' = r
      BY <2>1, <2>2
    <3> QED BY <1>1, <3>1, EmitListed
  <2>3. CASE r = activeRoom /\ r = NoRoom
    BY <1>1, <2>1, <2>3, NamesAssumption DEF ListInv, Inside
  <2>4. CASE r # activeRoom
    <3>1. ~Refreshes(e, activeRoom)
      BY <2>1, <2>4 DEF Refreshes, Refreshed
    <3>2. tasks' = tasks
      BY <2>1, <2>4 DEF EmitMembers
    <3> QED BY <1>2, <2>1, <3>1, <3>2
  <2> QED BY <2>2, <2>3, <2>4
<1>4. CASE HandlesSelf(e)
  <2>1. CASE \E r \in Rooms \cup {NoRoom} : Activates(r)
    BY <1>1, <2>1, ActivatesListed
  <2>2. CASE e.type \in {"selfJoined", "selfParted"}
             /\ UNCHANGED <<activeRoom, membersSeq, tasks, activated>>
    <3>1. ~Refreshes(e, activeRoom)
      BY <2>2 DEF Refreshes
    <3> QED BY <1>2, <2>2, <3>1
  <2> QED BY <1>4, <2>1, <2>2 DEF HandlesSelf
<1> QED BY <1>3, <1>4 DEF Handle, HandleLocked, e

LEMMA SetActiveRoomListed ==
  ASSUME IInv, SetActiveRoom PROVE ListInv'
<1>1. PICK r \in Rooms \cup {NoRoom} : Activates(r)
  BY DEF SetActiveRoom
<1> QED BY <1>1, ActivatesListed DEF SetActiveRoom

\* The Task of the newest number reads the table; any other posts an old list.
LEMMA TaskReadsListed ==
  ASSUME IInv, TaskReads, ListInv PROVE ListInv'
<1>1. PICK t \in tasks :
        /\ tasks' = tasks \ {t}
        /\ mailbox' = Append(mailbox,
               [seq |-> t.seq, list |-> [room |-> t.room, rows |-> Here(t.room)]])
        /\ UNCHANGED <<serverVars, wire, table, stream, activeRoom, switches,
                       membersSeq, shown, appliedMembersSeq, activated>>
  BY DEF TaskReads
<1> DEFINE m == [seq |-> t.seq, list |-> [room |-> t.room, rows |-> Here(t.room)]]
           n == Len(mailbox)
<1>2. m.seq = t.seq /\ m.list.room = t.room /\ m.list.rows = Here(t.room)
  OBVIOUS
<1>3. m \in Letters
  BY <1>1, HereTypes DEF IInv, TypeOK, Letters, Lists
<1> HIDE DEF m
<1>4. /\ n \in Nat /\ Len(mailbox') = n + 1 /\ mailbox'[n + 1] = m
      /\ \A i \in 1..n : mailbox'[i] = mailbox[i]
  <2>1. mailbox \in Seq(Letters) /\ mailbox' = Append(mailbox, m)
    BY <1>1 DEF IInv, TypeOK, m
  <2> QED BY <1>3, <2>1, Appended
<1>5. \A i \in 1..Len(mailbox') : (i = n + 1 /\ mailbox'[i] = m) \/ (i \in 1..n /\ mailbox'[i] = mailbox[i])
  BY <1>4
<1>6. n + 1 \in 1..Len(mailbox') /\ \A i \in 1..n : i \in 1..Len(mailbox') /\ i # n + 1
  BY <1>4
<1> HIDE DEF n
<1>7. SUFFICES ASSUME activeRoom' \in Inside', Unrefreshed' PROVE Asked' \/ Posted' \/ Displayed'
  BY DEF ListInv
<1>8. /\ activeRoom \in Inside /\ Unrefreshed
      /\ \A list : Faithful(list)' <=> Faithful(list)
  BY <1>1, <1>7 DEF serverVars, Inside, Unrefreshed, Faithful, Flaws, Here
<1>9. Asked \/ Posted \/ Displayed
  BY <1>8 DEF ListInv
<1>10. CASE Asked
  <2>1. PICK u \in tasks :
          /\ u.room = activeRoom
          /\ \A x \in tasks : x # u => x.seq < u.seq
          /\ \A i \in 1..n : mailbox[i].seq < u.seq
          /\ appliedMembersSeq < u.seq
    BY <1>10 DEF Asked, n
  <2>2. CASE t = u
    <3>1. Faithful(m.list)
      BY <1>2, <2>1, <2>2 DEF Faithful
    <3>2. Posted'
      BY <1>1, <1>2, <1>4, <1>5, <1>6, <1>8, <2>1, <2>2, <3>1 DEF Posted
    <3> QED BY <3>2
  <2>3. CASE t # u
    <3>1. Asked'
      BY <1>1, <1>2, <1>5, <2>1, <2>3 DEF Asked
    <3> QED BY <3>1
  <2> QED BY <2>2, <2>3
<1>11. CASE Posted
  <2>1. PICK i \in 1..n :
          /\ Faithful(mailbox[i].list)
          /\ \A u \in tasks : u.seq < mailbox[i].seq
          /\ \A j \in 1..n : j # i => mailbox[j].seq < mailbox[i].seq
          /\ appliedMembersSeq < mailbox[i].seq
    BY <1>11 DEF Posted, n
  <2>2. mailbox'[i] = mailbox[i] /\ i \in 1..Len(mailbox') /\ i # n + 1
    BY <1>4, <1>6
  <2>3. Posted'
    BY <1>1, <1>2, <1>5, <1>8, <2>1, <2>2 DEF Posted
  <2> QED BY <2>3
<1>12. CASE Displayed
  <2>1. Displayed'
    BY <1>1, <1>2, <1>5, <1>8, <1>12 DEF Displayed, n
  <2> QED BY <2>1
<1> QED BY <1>9, <1>10, <1>11, <1>12

\* Main takes the newest list, or one before it, which changes nothing about it.
LEMMA MainAppliesListed ==
  ASSUME IInv, MainApplies, ListInv PROVE ListInv'
<1> DEFINE m == mailbox[1]
           n == Len(mailbox)
<1>1. /\ mailbox \in Seq(Letters) /\ mailbox # <<>> /\ mailbox' = Tail(mailbox)
      /\ m = Head(mailbox) /\ m \in Letters /\ Applies(m)
      /\ UNCHANGED <<serverVars, wire, table, stream, activeRoom, switches,
                     membersSeq, tasks, activated>>
  BY FirstAndRest DEF MainApplies, IInv, TypeOK
<1>2. /\ n \in Nat \ {0} /\ Len(mailbox') = n - 1 /\ 1 \in 1..n
      /\ \A i \in 1..Len(mailbox') : i + 1 \in 1..n /\ mailbox'[i] = mailbox[i + 1] /\ i + 1 # 1
  BY <1>1, FirstAndRest
<1>3. \A i \in 1..n : i # 1 => i - 1 \in 1..Len(mailbox') /\ mailbox'[i - 1] = mailbox[i]
  <2> TAKE i \in 1..n
  <2> HAVE i # 1
  <2>1. i - 1 \in 1..Len(mailbox') /\ i - 1 + 1 = i
    BY <1>2
  <2> QED BY <1>2, <2>1
<1>4. /\ m.seq \in Nat /\ appliedMembersSeq \in Nat
      /\ \A i \in 1..n : mailbox[i].seq \in Nat
  BY <1>1, MailboxTypes DEF IInv, TypeOK, Letters
<1>5. \/ m.seq > appliedMembersSeq /\ shown' = m.list /\ appliedMembersSeq' = m.seq
      \/ ~(m.seq > appliedMembersSeq) /\ shown' = shown /\ appliedMembersSeq' = appliedMembersSeq
  BY <1>1 DEF Applies
<1>6. \A u \in tasks : u.seq \in Nat
  BY DEF IInv, TypeOK
<1>7. SUFFICES ASSUME activeRoom' \in Inside', Unrefreshed' PROVE Asked' \/ Posted' \/ Displayed'
  BY DEF ListInv
<1>8. /\ activeRoom \in Inside /\ Unrefreshed /\ tasks' = tasks /\ activeRoom' = activeRoom
      /\ \A list : Faithful(list)' <=> Faithful(list)
  BY <1>1, <1>7 DEF serverVars, Inside, Unrefreshed, Faithful, Flaws, Here
<1>9. Asked \/ Posted \/ Displayed
  BY <1>8 DEF ListInv
<1>10. CASE Asked
  <2>1. PICK t \in tasks :
          /\ t.room = activeRoom
          /\ \A u \in tasks : u # t => u.seq < t.seq
          /\ \A i \in 1..n : mailbox[i].seq < t.seq
          /\ appliedMembersSeq < t.seq
    BY <1>10 DEF Asked
  <2> HIDE DEF n
  <2>2. appliedMembersSeq' < t.seq /\ \A i \in 1..Len(mailbox') : mailbox'[i].seq < t.seq
    BY <1>2, <1>5, <2>1
  <2>3. Asked'
    BY <1>8, <2>1, <2>2 DEF Asked
  <2> QED BY <2>3
<1>11. CASE Posted
  <2>1. PICK i \in 1..n :
          /\ Faithful(mailbox[i].list)
          /\ \A u \in tasks : u.seq < mailbox[i].seq
          /\ \A j \in 1..n : j # i => mailbox[j].seq < mailbox[i].seq
          /\ appliedMembersSeq < mailbox[i].seq
    BY <1>11 DEF Posted
  <2> HIDE DEF n
  <2>2. CASE i = 1
    <3>1. shown' = m.list /\ appliedMembersSeq' = m.seq /\ Faithful(m.list)
      BY <1>5, <2>1, <2>2
    <3>2. Faithful(shown)'
      BY <1>8, <3>1 DEF Faithful
    <3>3. \A u \in tasks : u.seq <= m.seq
      BY <1>4, <1>6, <2>1, <2>2
    <3>4. \A j \in 1..Len(mailbox') : mailbox'[j].seq <= m.seq
      BY <1>2, <1>4, <2>1, <2>2
    <3>5. Displayed'
      BY <1>8, <3>1, <3>2, <3>3, <3>4 DEF Displayed
    <3> QED BY <3>5
  <2>3. CASE i # 1
    <3>1. i - 1 \in 1..Len(mailbox') /\ mailbox'[i - 1] = mailbox[i]
      BY <1>3, <2>1, <2>3
    <3>2. appliedMembersSeq' < mailbox[i].seq
      BY <1>2, <1>5, <2>1, <2>3
    <3>3. ASSUME NEW j \in 1..Len(mailbox'), j # i - 1 PROVE mailbox'[j].seq < mailbox[i].seq
      <4>1. j + 1 \in 1..n /\ mailbox'[j] = mailbox[j + 1] /\ j + 1 # i
        BY <1>2, <3>1, <3>3
      <4> QED BY <2>1, <4>1
    <3>4. Posted'
      BY <1>8, <2>1, <3>1, <3>2, <3>3 DEF Posted
    <3> QED BY <3>4
  <2> QED BY <2>2, <2>3
<1>12. CASE Displayed
  <2>1. m.seq <= appliedMembersSeq /\ \A i \in 1..n : mailbox[i].seq <= appliedMembersSeq
    BY <1>2, <1>12 DEF Displayed
  <2> HIDE DEF n, m
  <2>2. shown' = shown /\ appliedMembersSeq' = appliedMembersSeq
    BY <1>4, <1>5, <2>1
  <2>3. \A i \in 1..Len(mailbox') : mailbox'[i].seq <= appliedMembersSeq
    BY <1>2, <2>1
  <2>4. Displayed'
    BY <1>8, <1>12, <2>2, <2>3 DEF Displayed, Faithful, Here, Flaws
  <2> QED BY <2>4
<1> QED BY <1>9, <1>10, <1>11, <1>12

-----------------------------------------------------------------------------
(* The invariant.                                                            *)

WholeInv == IInv /\ TableInv /\ ListInv

LEMMA Invariance == Spec => []WholeInv
<1>1. Init => WholeInv
  BY InitTypes, InitNumbered, InitLawful, InitListed DEF WholeInv, IInv
<1>2. WholeInv /\ [Next]_vars => WholeInv'
  <2> SUFFICES ASSUME WholeInv, [Next]_vars PROVE WholeInv'
    OBVIOUS
  <2>1. IInv /\ IInv' /\ TypeOK /\ TypeOK' /\ TableInv /\ ListInv
    BY Step DEF WholeInv, IInv
  <2>2. SUFFICES TableInv' /\ ListInv'
    BY <2>1 DEF WholeInv
  <2>3. CASE ServerActs
    BY <2>1, <2>3, ServerOperates, ServerActsLawful, ServerActsListed
  <2>4. CASE Receive
    BY <2>1, <2>4, ReceiveLawful, ReceiveListed
  <2>5. CASE Handle
    <3>1. UNCHANGED <<serverVars, wire, table>>
      BY <2>5 DEF Handle
    <3> QED BY <2>1, <2>5, <3>1, ElsewhereLawful, HandleListed
  <2>6. CASE SetActiveRoom
    <3>1. UNCHANGED <<serverVars, wire, table>>
      BY <2>6 DEF SetActiveRoom
    <3> QED BY <2>1, <2>6, <3>1, ElsewhereLawful, SetActiveRoomListed
  <2>7. CASE TaskReads
    <3>1. UNCHANGED <<serverVars, wire, table>>
      BY <2>7 DEF TaskReads
    <3> QED BY <2>1, <2>7, <3>1, ElsewhereLawful, TaskReadsListed
  <2>8. CASE MainApplies
    <3>1. UNCHANGED <<serverVars, wire, table>>
      BY <2>8 DEF MainApplies
    <3> QED BY <2>1, <2>8, <3>1, ElsewhereLawful, MainAppliesListed
  <2>9. CASE UNCHANGED vars
    <3>1. UNCHANGED <<serverVars, wire, table>>
      BY <2>9 DEF vars
    <3>2. ListInv'
      BY <2>1, <2>9 DEF vars, serverVars, ListInv, Inside, Unrefreshed, Asked, Posted,
                        Displayed, Faithful, Flaws, Here
    <3> QED BY <2>1, <3>1, <3>2, ElsewhereLawful
  <2> QED BY <2>3, <2>4, <2>5, <2>6, <2>7, <2>8, <2>9 DEF Next
<1> QED BY <1>1, <1>2, PTL DEF Spec

\* With the wire read, the table that will be is the table.
LEMMA TableIsLawful ==
  ASSUME TypeOK, TableInv, wire = <<>>, NEW r \in Inside
  PROVE  /\ Beyond(Here(r), r) \subseteq unseen[r]
         /\ Hidden(Here(r), r) \subseteq misled[r]
<1>1. PICK f : \E t \in Tables :
        /\ IsPath(f, table, wire) /\ f[Len(wire)] = t /\ Lawful(t)
        /\ \A q \in Inside : Quiet(f, wire, q, Flaws(q))
  BY DEF TableInv
<1>2. Len(wire) = 0
  OBVIOUS
<1>3. Lawful(table)
  BY <1>1, <1>2 DEF IsPath
<1>4. r \in Rooms /\ Here(r) = In(table, r)
  BY DEF Inside, Here, In
<1> QED BY <1>3, <1>4 DEF Lawful

-----------------------------------------------------------------------------
(* Theorems.                                                                 *)

\* Tables, streams, Tasks and the list keep their types; no number is drawn late.
THEOREM TypeCorrect == Spec => []TypeOK
<1>1. WholeInv => TypeOK
  BY DEF WholeInv, IInv
<1> QED BY Invariance, <1>1, PTL

\* Once the list of a change of the active room, or a later one, is shown, the
\* list is the active room's: for any number of rooms, Tasks and events.
THEOREM SwitchedListStays == Spec => []ListIsOfActiveRoom
<1>1. WholeInv => ListIsOfActiveRoom
  BY DEF WholeInv, IInv, Numbered, IsCurrent, ListIsOfActiveRoom
<1> QED BY Invariance, <1>1, PTL

\* No ghosts: for any nicks and rooms, and any interleaving of server and session,
\* whoever the table has in a room we are in is there or left while we were not.
THEOREM GhostsWereUnseen == Spec => []NoGhosts
<1>1. WholeInv => NoGhosts
  BY TableIsLawful DEF WholeInv, IInv, NoGhosts
<1> QED BY Invariance, <1>1, PTL

\* Nobody is hidden but who parted from another room, and so was marked in all.
THEOREM OnlyTheMisledAreHidden == Spec => []NobodyHidden
<1>1. WholeInv => NobodyHidden
  BY TableIsLawful DEF WholeInv, IInv, NobodyHidden
<1> QED BY Invariance, <1>1, PTL

\* When nothing is under way the list shown is the active room's table, up to those
\* two flaws: no event that changes the table fails to ask for a list, and the
\* numbers let no older snapshot, however late its Task ran, have the last word.
THEOREM QuietListIsRight == Spec => []QuietListIsTable
<1>1. WholeInv => QuietListIsTable
  <2> SUFFICES ASSUME WholeInv, wire \o stream \o mailbox = <<>>, tasks = {},
                      activeRoom \in Inside
               PROVE  Faithful(shown)
    BY DEF QuietListIsTable, Faithful, Flaws
  <2>1. wire \in Seq(Events) /\ stream \in Seq(Events) /\ mailbox \in Seq(Letters)
    BY DEF WholeInv, IInv, TypeOK
  <2>2. Len(wire) = 0 /\ Len(stream) = 0 /\ Len(mailbox) = 0
    BY <2>1
  <2>3. Unrefreshed /\ ~Asked /\ ~Posted
    BY <2>2 DEF Unrefreshed, Asked, Posted
  <2> QED BY <2>3 DEF WholeInv, ListInv, Displayed
<1> QED BY Invariance, <1>1, PTL
=============================================================================
