----------------------------- MODULE RoomsProofs -----------------------------
(* Rooms: its types, the agreement of tabs and boxes, the unread count of   *)
(* the active room, the growth of the transcripts, and that live drawing is *)
(* what a reflow draws, for any rooms, commands under way and bounds.       *)
EXTENDS Rooms, Induction, SequenceTheorems, TLAPS

-----------------------------------------------------------------------------
(* The invariant.  The boxes and the view are one part: what a handler does  *)
(* to the one it does with the other in hand.                                *)

\* The active room is read, be there a box for it or not: leaveRoom() removes
\* the box first, and a late line may bring it back while it is still active.
ActiveRead == activeRoom \in Names => unread[activeRoom] = 0

BoxesAndView == BoxTypes /\ ViewTypes /\ TabsAreBoxes /\ ActiveRead
Rest == TasteTypes /\ TaskTypes /\ ServerTypes /\ BoundTypes
IInv == BoxesAndView /\ Rest

\* No open room's transcript loses a line in this step.
Grows ==
    \A r \in rooms \cap rooms' :
        /\ Len(transcript[r]) <= Len(transcript'[r])
        /\ \A i \in 1..Len(transcript[r]) : transcript'[r][i] = transcript[r][i]

-----------------------------------------------------------------------------
(* Tabs.                                                                     *)

\* Removing a tab leaves the others, in order, once each.
LEMMA WithoutTab ==
    ASSUME roomOrder \in Seq(Names), TabsAreBoxes, NEW r \in rooms
    PROVE  /\ Without(roomOrder, r) \in Seq(Names)
           /\ Len(roomOrder) \in Nat /\ Len(Without(roomOrder, r)) = Len(roomOrder) - 1
           /\ rooms \ {r} = {Without(roomOrder, r)[i] : i \in 1..Len(Without(roomOrder, r))}
           /\ \A i, j \in 1..Len(Without(roomOrder, r)) :
                 Without(roomOrder, r)[i] = Without(roomOrder, r)[j] => i = j
           /\ Len(roomOrder) > 1 => Without(roomOrder, r)[1] \in rooms \ {r}
<1> DEFINE n == Len(roomOrder)
           at == CHOOSE k \in 1..n : roomOrder[k] = r
           o == [k \in 1..(n - 1) |-> IF k < at THEN roomOrder[k] ELSE roomOrder[k + 1]]
<1>1. n \in Nat /\ \A k \in 1..n : roomOrder[k] \in Names OBVIOUS
<1>2. at \in 1..n /\ roomOrder[at] = r
  <2>1. \E k \in 1..n : roomOrder[k] = r BY DEF TabsAreBoxes
  <2> QED BY <2>1
<1>3. Without(roomOrder, r) = o BY DEF Without
<1> HIDE DEF at
<1>4. o \in [1..(n - 1) -> Names] /\ n - 1 \in Nat BY <1>1, <1>2
<1>5. o \in Seq(Names) /\ Len(o) = n - 1 BY <1>4
<1>6. \A i, j \in 1..(n - 1) : o[i] = o[j] => i = j
  <2> SUFFICES ASSUME NEW i \in 1..(n - 1), NEW j \in 1..(n - 1), o[i] = o[j] PROVE i = j
      OBVIOUS
  <2> DEFINE up(k) == IF k < at THEN k ELSE k + 1
  <2>1. o[i] = roomOrder[up(i)] /\ o[j] = roomOrder[up(j)] OBVIOUS
  <2>2. up(i) \in 1..n /\ up(j) \in 1..n BY <1>1, <1>2
  <2>3. up(i) = up(j) BY <2>1, <2>2 DEF TabsAreBoxes
  <2> QED BY <2>3, <1>1, <1>2
<1>7. \A i \in 1..(n - 1) : o[i] \in rooms \ {r}
  <2> SUFFICES ASSUME NEW i \in 1..(n - 1) PROVE o[i] \in rooms \ {r} OBVIOUS
  <2> DEFINE up == IF i < at THEN i ELSE i + 1
  <2>1. o[i] = roomOrder[up] /\ up \in 1..n /\ up # at BY <1>1, <1>2
  <2>2. roomOrder[up] # r BY <2>1, <1>2 DEF TabsAreBoxes
  <2> QED BY <2>1, <2>2 DEF TabsAreBoxes
<1>8. \A q \in rooms \ {r} : \E i \in 1..(n - 1) : o[i] = q
  <2> SUFFICES ASSUME NEW q \in rooms \ {r} PROVE \E i \in 1..(n - 1) : o[i] = q OBVIOUS
  <2>1. PICK k \in 1..n : roomOrder[k] = q BY DEF TabsAreBoxes
  <2>2. k # at BY <2>1, <1>2
  <2>3. CASE k < at BY <2>1, <2>3, <1>1, <1>2
  <2>4. CASE k > at
    <3>1. k - 1 \in 1..(n - 1) /\ ~(k - 1 < at) BY <2>4, <1>1, <1>2
    <3>2. o[k - 1] = roomOrder[k] BY <3>1, <1>1
    <3> QED BY <3>1, <3>2, <2>1
  <2> QED BY <2>2, <2>3, <2>4, <1>1, <1>2
<1>9. rooms \ {r} = {o[i] : i \in 1..(n - 1)} BY <1>7, <1>8
<1>10. n > 1 => o[1] \in rooms \ {r} BY <1>7, <1>1
<1> HIDE DEF o
<1> QED BY <1>1, <1>3, <1>5, <1>6, <1>9, <1>10

\* A box is opened with a tab behind the others, or is there with its tab.
LEMMA Ensures ==
    ASSUME BoxTypes, TabsAreBoxes, NEW r \in Names, EnsureRoomBox(r)
    PROVE  /\ rooms' \subseteq Names /\ roomOrder' \in Seq(Names)
           /\ TabsAreBoxes' /\ r \in rooms'
<1>1. CASE r \in rooms BY <1>1 DEF BoxTypes, TabsAreBoxes, EnsureRoomBox
<1>2. CASE r \notin rooms
  <2>1. roomOrder' = Append(roomOrder, r) BY <1>2 DEF EnsureRoomBox
  <2>2. /\ roomOrder' \in Seq(Names) /\ Len(roomOrder) \in Nat
        /\ Len(roomOrder') = Len(roomOrder) + 1
        /\ \A i \in 1..Len(roomOrder) : roomOrder'[i] = roomOrder[i]
        /\ roomOrder'[Len(roomOrder) + 1] = r
    BY <2>1 DEF BoxTypes
  <2>3. rooms' = rooms \cup {r} BY DEF EnsureRoomBox
  <2>4. \A i \in 1..Len(roomOrder) : roomOrder[i] \in rooms BY DEF TabsAreBoxes
  <2>5. \A i \in 1..Len(roomOrder') : i \in 1..Len(roomOrder) \/ i = Len(roomOrder) + 1
    BY <2>2
  <2>6. rooms' = {roomOrder'[i] : i \in 1..Len(roomOrder')}
    <3>1. \A q \in rooms' : \E i \in 1..Len(roomOrder') : roomOrder'[i] = q
      BY <2>2, <2>3 DEF TabsAreBoxes
    <3>2. \A i \in 1..Len(roomOrder') : roomOrder'[i] \in rooms' BY <2>2, <2>3, <2>4, <2>5
    <3> QED BY <3>1, <3>2
  <2>7. \A i, j \in 1..Len(roomOrder') : roomOrder'[i] = roomOrder'[j] => i = j
    BY <1>2, <2>2, <2>4, <2>5 DEF TabsAreBoxes
  <2> QED BY <2>2, <2>3, <2>6, <2>7 DEF TabsAreBoxes, BoxTypes
<1> QED BY <1>1, <1>2

\* A box that is removed takes its tab with it.
LEMMA Removed ==
    ASSUME BoxTypes, TabsAreBoxes, NEW r \in rooms, RemovesBox(r)
    PROVE  /\ rooms' \subseteq Names /\ roomOrder' \in Seq(Names)
           /\ transcript' \in [Names -> Seq(Line)]
           /\ TabsAreBoxes' /\ Grows
           /\ Len(roomOrder) \in Nat
           /\ Len(roomOrder) > 1 => roomOrder'[1] \in rooms'
<1>1. roomOrder' = Without(roomOrder, r) /\ rooms' = rooms \ {r} BY DEF RemovesBox
<1>2. TabsAreBoxes'
  <2>1. /\ rooms \ {r} = {Without(roomOrder, r)[i] : i \in 1..Len(Without(roomOrder, r))}
        /\ \A i, j \in 1..Len(Without(roomOrder, r)) :
              Without(roomOrder, r)[i] = Without(roomOrder, r)[j] => i = j
    BY WithoutTab DEF BoxTypes
  <2> QED BY <1>1, <2>1 DEF TabsAreBoxes
<1>3. <<>> \in Seq(Line) OBVIOUS
<1>4. transcript' = [transcript EXCEPT ![r] = <<>>] BY DEF RemovesBox
<1>5. transcript' \in [Names -> Seq(Line)] BY <1>3, <1>4 DEF BoxTypes
<1>6. Grows
  <2> SUFFICES ASSUME NEW q \in rooms \cap rooms'
               PROVE  transcript'[q] = transcript[q] /\ Len(transcript[q]) \in Nat
      BY DEF Grows
  <2>1. q # r /\ q \in Names BY <1>1 DEF BoxTypes
  <2> QED BY <2>1, <1>4 DEF BoxTypes
<1> QED BY <1>1, <1>2, <1>5, <1>6, WithoutTab DEF BoxTypes

\* What is logged in a room comes behind what it has.
LEMMA Longer ==
    ASSUME BoxTypes, NEW r \in Names
    PROVE  /\ Log(r) \in Seq(Line)
           /\ r \in rooms => Log(r) = transcript[r]
           /\ \A line \in Line : /\ Append(Log(r), line) \in Seq(Line)
                                 /\ Len(Log(r)) <= Len(Append(Log(r), line))
                                 /\ \A i \in 1..Len(Log(r)) : Append(Log(r), line)[i] = Log(r)[i]
<1>1. <<>> \in Seq(Line) OBVIOUS
<1>2. Look \in Line BY DEF Look, Line
<1>3. <<Look>> \in Seq(Line) BY <1>2
<1>4. Log(r) \in Seq(Line) BY <1>1, <1>3 DEF Log, BoxTypes
<1> HIDE DEF Log
<1>5. \A line \in Line : /\ Append(Log(r), line) \in Seq(Line)
                         /\ Len(Log(r)) <= Len(Append(Log(r), line))
                         /\ \A i \in 1..Len(Log(r)) : Append(Log(r), line)[i] = Log(r)[i]
  BY <1>4
<1>6. r \in rooms => Log(r) = transcript[r] BY DEF Log
<1> QED BY <1>4, <1>5, <1>6

\* Opening a box, or logging a line in one, which opens it where needed.
LEMMA Opened ==
    ASSUME BoxTypes, TabsAreBoxes, NEW r \in Names, NEW line \in Line,
           OpensBox(r) \/ Logs(r, line)
    PROVE  /\ rooms' \subseteq Names /\ roomOrder' \in Seq(Names) /\ r \in rooms'
           /\ transcript' \in [Names -> Seq(Line)]
           /\ TabsAreBoxes' /\ Grows
<1>1. EnsureRoomBox(r) BY DEF OpensBox, Logs
<1>2. PICK log : /\ transcript' = [transcript EXCEPT ![r] = log]
                 /\ log = Log(r) \/ log = Append(Log(r), line)
  BY DEF OpensBox, Logs
<1>3. /\ log \in Seq(Line) /\ Len(Log(r)) <= Len(log)
      /\ \A i \in 1..Len(Log(r)) : log[i] = Log(r)[i]
  <2>1. Log(r) \in Seq(Line) => Len(Log(r)) <= Len(Log(r)) OBVIOUS
  <2> QED BY <2>1, <1>2, Longer
<1>4. transcript' \in [Names -> Seq(Line)] BY <1>2, <1>3 DEF BoxTypes
<1>5. Grows
  <2> SUFFICES ASSUME NEW q \in rooms \cap rooms'
               PROVE  /\ Len(transcript[q]) <= Len(transcript'[q])
                      /\ \A i \in 1..Len(transcript[q]) : transcript'[q][i] = transcript[q][i]
      BY DEF Grows
  <2>1. CASE q = r BY <2>1, <1>2, <1>3, Longer DEF BoxTypes
  <2>2. CASE q # r
    <3>1. q \in Names BY DEF BoxTypes
    <3>2. transcript'[q] = transcript[q] /\ Len(transcript[q]) \in Nat
      BY <3>1, <2>2, <1>2 DEF BoxTypes
    <3> QED BY <3>2
  <2> QED BY <2>1, <2>2
<1> QED BY <1>1, <1>4, <1>5, Ensures

\* Nothing is lost where nothing is touched.
LEMMA Untouched ==
    ASSUME BoxTypes, UNCHANGED transcript
    PROVE  Grows
<1> SUFFICES ASSUME NEW q \in rooms \cap rooms'
             PROVE  transcript'[q] = transcript[q] /\ Len(transcript[q]) \in Nat
    BY DEF Grows
<1> QED BY DEF BoxTypes

-----------------------------------------------------------------------------
(* The strip.                                                                *)

LEMMA StripKept ==
    ASSUME ViewTypes
    PROVE  /\ \A line : Draws(line) => DOMAIN strip' = {"open", "shown"} /\ strip'.open \in BOOLEAN
           /\ \A r, log, hides : RebuildsStrip(r, log, hides) =>
                 DOMAIN strip' = {"open", "shown"} /\ strip'.open \in BOOLEAN /\ activeRoom' = r
           /\ ClosesStrip =>
                 DOMAIN strip' = {"open", "shown"} /\ strip'.open \in BOOLEAN /\ activeRoom' = ""
           /\ UNCHANGED strip => DOMAIN strip' = {"open", "shown"} /\ strip'.open \in BOOLEAN
<1>1. ASSUME NEW line, Draws(line)
      PROVE  DOMAIN strip' = {"open", "shown"} /\ strip'.open \in BOOLEAN
  BY <1>1 DEF ViewTypes, Draws
<1>2. ASSUME NEW r, NEW log, NEW hides, RebuildsStrip(r, log, hides)
      PROVE  DOMAIN strip' = {"open", "shown"} /\ strip'.open \in BOOLEAN /\ activeRoom' = r
  BY <1>2 DEF RebuildsStrip
<1>3. ASSUME ClosesStrip
      PROVE  DOMAIN strip' = {"open", "shown"} /\ strip'.open \in BOOLEAN /\ activeRoom' = ""
  BY <1>3 DEF ClosesStrip, NoStrip
<1>4. UNCHANGED strip => DOMAIN strip' = {"open", "shown"} /\ strip'.open \in BOOLEAN
  BY DEF ViewTypes
<1> QED BY <1>1, <1>2, <1>3, <1>4

-----------------------------------------------------------------------------
(* What the handlers do to boxes and view.                                   *)

\* The goal of each of these lemmas.
Handled == BoxesAndView' /\ Grows

LEMMA Messages ==
    ASSUME BoxesAndView, NEW r \in Names, NEW line \in Line, NEW isMessage \in BOOLEAN,
           HandlesMessage(r, line, isMessage)
    PROVE  Handled
<1> USE DEF BoxesAndView
<1>1. Logs(r, line) /\ activeRoom' = activeRoom BY DEF HandlesMessage
<1>2. /\ rooms' \subseteq Names /\ roomOrder' \in Seq(Names)
      /\ transcript' \in [Names -> Seq(Line)] /\ TabsAreBoxes' /\ Grows
  BY <1>1, Opened
<1>3. UNCHANGED strip \/ Draws(line) BY DEF HandlesMessage
<1>4. ViewTypes' BY <1>1, <1>3, StripKept DEF ViewTypes
<1>5. UNCHANGED unread \/ (r # activeRoom /\ unread' = [unread EXCEPT ![r] = @ + 1])
  BY DEF HandlesMessage
<1>6. unread' \in [Names -> Nat]
  <2>1. CASE UNCHANGED unread BY <2>1 DEF BoxTypes
  <2>2. CASE unread' = [unread EXCEPT ![r] = @ + 1]
    <3>1. unread[r] + 1 \in Nat BY DEF BoxTypes
    <3> QED BY <2>2, <3>1 DEF BoxTypes
  <2> QED BY <1>5, <2>1, <2>2
<1>7. ActiveRead' BY <1>1, <1>5 DEF ActiveRead, BoxTypes
<1> QED BY <1>2, <1>4, <1>6, <1>7 DEF Handled, BoxTypes

LEMMA Presences ==
    ASSUME BoxesAndView, NEW r \in Names, HandlesPresence(r)
    PROVE  Handled
<1> USE DEF BoxesAndView
<1>1. Presence \in Line BY DEF Presence, Line
<1>2. /\ rooms' \subseteq Names /\ roomOrder' \in Seq(Names)
      /\ transcript' \in [Names -> Seq(Line)] /\ TabsAreBoxes' /\ Grows
  BY <1>1, Opened DEF HandlesPresence
<1>3. ViewTypes' BY StripKept DEF HandlesPresence, ViewTypes
<1> QED BY <1>2, <1>3 DEF Handled, HandlesPresence, BoxTypes, ActiveRead

LEMMA Confirms ==
    ASSUME BoxesAndView, NEW r \in Names, HandlesConfirm(r)
    PROVE  Handled
<1> USE DEF BoxesAndView
<1>1. Presence \in Line BY DEF Presence, Line
<1>2. /\ rooms' \subseteq Names /\ roomOrder' \in Seq(Names)
      /\ transcript' \in [Names -> Seq(Line)] /\ TabsAreBoxes' /\ Grows
  BY <1>1, Opened DEF HandlesConfirm
<1> QED BY <1>2 DEF Handled, HandlesConfirm, BoxTypes, ActiveRead, ViewTypes, view

LEMMA Announces ==
    ASSUME BoxesAndView, NEW line \in Line, LogsEverywhere(line)
    PROVE  Handled
<1> USE DEF BoxesAndView
<1>1. \A r \in Names : /\ Append(transcript[r], line) \in Seq(Line)
                       /\ Len(transcript[r]) <= Len(Append(transcript[r], line))
                       /\ \A i \in 1..Len(transcript[r]) :
                             Append(transcript[r], line)[i] = transcript[r][i]
  <2>1. \A log \in Seq(Line) : /\ Append(log, line) \in Seq(Line)
                               /\ Len(log) <= Len(Append(log, line))
                               /\ \A i \in 1..Len(log) : Append(log, line)[i] = log[i]
    OBVIOUS
  <2> QED BY <2>1 DEF BoxTypes
<1>2. transcript' \in [Names -> Seq(Line)] BY <1>1 DEF LogsEverywhere, BoxTypes
<1>3. Grows
  <2> SUFFICES ASSUME NEW q \in rooms \cap rooms'
               PROVE  /\ Len(transcript[q]) <= Len(transcript'[q])
                      /\ \A i \in 1..Len(transcript[q]) : transcript'[q][i] = transcript[q][i]
      BY DEF Grows
  <2>1. q \in Names /\ transcript'[q] = Append(transcript[q], line)
    BY DEF LogsEverywhere, BoxTypes
  <2> QED BY <1>1, <2>1
<1>4. ViewTypes' BY StripKept DEF LogsEverywhere, ViewTypes
<1> QED BY <1>2, <1>3, <1>4 DEF Handled, LogsEverywhere, BoxTypes, TabsAreBoxes, ActiveRead

\* A part of the active room reads the room it falls back to.
LEMMA PartsHandled ==
    ASSUME BoxesAndView, NEW r \in Names, HandlesPart(r)
    PROVE  Handled
<1> USE DEF BoxesAndView
<1>1. CASE r \notin rooms
  <2>1. UNCHANGED <<box, view>> BY <1>1 DEF HandlesPart
  <2>2. Grows BY <2>1, Untouched DEF box
  <2>3. BoxTypes' /\ ActiveRead' BY <2>1 DEF box, view, BoxTypes, ActiveRead
  <2>4. ViewTypes' /\ TabsAreBoxes' BY <2>1 DEF box, view, ViewTypes, TabsAreBoxes
  <2> QED BY <2>2, <2>3, <2>4 DEF Handled
<1>2. CASE r \in rooms
  <2>1. /\ rooms' \subseteq Names /\ roomOrder' \in Seq(Names)
        /\ transcript' \in [Names -> Seq(Line)] /\ TabsAreBoxes' /\ Grows
        /\ Len(roomOrder) > 1 => roomOrder'[1] \in rooms'
    BY <1>2, Removed DEF HandlesPart
  <2>2. roomOrder' = Without(roomOrder, r) BY <1>2 DEF HandlesPart, RemovesBox
  <2>3. CASE r # activeRoom /\ unread' = [unread EXCEPT ![r] = 0] /\ UNCHANGED view
    <3>1. unread' \in [Names -> Nat] /\ ActiveRead' /\ ViewTypes'
      BY <2>3 DEF BoxTypes, ActiveRead, ViewTypes, view
    <3> QED BY <2>1, <3>1 DEF Handled, BoxTypes
  <2>4. CASE /\ Len(roomOrder) > 1
             /\ RebuildsStrip(roomOrder'[1], transcript[roomOrder'[1]], ignored)
             /\ unread' = [unread EXCEPT ![r] = 0, ![roomOrder'[1]] = 0]
    <3>1. roomOrder'[1] \in Names BY <2>1, <2>4
    <3>2. ViewTypes' /\ activeRoom' = roomOrder'[1]
      <4>1. /\ DOMAIN strip' = {"open", "shown"} /\ strip'.open \in BOOLEAN
            /\ activeRoom' = roomOrder'[1]
        BY <2>4 DEF RebuildsStrip
      <4> QED BY <3>1, <4>1 DEF ViewTypes
    <3>3. unread' \in [Names -> Nat] /\ unread'[roomOrder'[1]] = 0
      BY <2>4, <3>1 DEF BoxTypes
    <3> QED BY <2>1, <3>2, <3>3 DEF Handled, BoxTypes, ActiveRead
  <2>5. CASE ClosesStrip /\ unread' = [unread EXCEPT ![r] = 0]
    <3>1. ViewTypes' /\ activeRoom' = "" BY <2>5, StripKept DEF ViewTypes
    <3>2. unread' \in [Names -> Nat] /\ (unread[""] = 0 \/ "" \notin Names)
      BY <2>5, NoName DEF BoxTypes
    <3> QED BY <2>1, <3>1, <3>2, NoName DEF Handled, BoxTypes, ActiveRead
  <2> QED BY <1>2, <2>2, <2>3, <2>4, <2>5 DEF HandlesPart
<1> QED BY <1>1, <1>2

LEMMA Activations ==
    ASSUME BoxesAndView, NEW r \in Names, Activates(r),
           UNCHANGED <<rooms, roomOrder, transcript>>
    PROVE  Handled
<1> USE DEF BoxesAndView
<1>1. Grows BY Untouched
<1>2. TabsAreBoxes' BY DEF TabsAreBoxes
<1>3. CASE /\ RebuildsStrip(r, transcript[r], ignored)
           /\ unread' = [unread EXCEPT ![r] = 0]
  <2>1. ViewTypes' /\ activeRoom' = r
    <3>1. DOMAIN strip' = {"open", "shown"} /\ strip'.open \in BOOLEAN /\ activeRoom' = r
      BY <1>3 DEF RebuildsStrip
    <3> QED BY <3>1 DEF ViewTypes
  <2> QED BY <1>1, <1>2, <1>3, <2>1 DEF Handled, BoxTypes, ActiveRead
<1>4. CASE UNCHANGED <<unread, view>>
  BY <1>1, <1>2, <1>4 DEF Handled, BoxTypes, ActiveRead, ViewTypes, view
<1> QED BY <1>3, <1>4 DEF Activates

\* A reflow of the active room, or a strip that closes, with its room or alone.
LEMMA Reflows ==
    ASSUME BoxesAndView, UNCHANGED box, NEW log, NEW hides,
           \/ RebuildsStrip(activeRoom, log, hides) \/ ClosesStrip \/ UNCHANGED view
           \/ UNCHANGED activeRoom /\ strip' = NoStrip
    PROVE  Handled
<1> USE DEF BoxesAndView
<1>1. Grows BY Untouched DEF box
<1>2. ViewTypes' /\ (activeRoom' = activeRoom \/ activeRoom' = "")
  <2>1. CASE RebuildsStrip(activeRoom, log, hides) BY <2>1, StripKept DEF ViewTypes
  <2>2. CASE ClosesStrip BY <2>2, StripKept DEF ViewTypes
  <2>3. CASE UNCHANGED view BY <2>3 DEF ViewTypes, view
  <2>4. CASE UNCHANGED activeRoom /\ strip' = NoStrip BY <2>4 DEF ViewTypes, NoStrip
  <2> QED BY <2>1, <2>2, <2>3, <2>4
<1>3. BoxTypes' /\ TabsAreBoxes' BY DEF box, BoxTypes, TabsAreBoxes
<1> QED BY <1>1, <1>2, <1>3, NoName DEF Handled, box, ActiveRead

-----------------------------------------------------------------------------
(* Tasks and the wire.                                                       *)

Roomed == {"joins", "activates", "drops", "clears", "pends", "renders"}

LEMMA TaskKinds ==
    /\ Idle \in Task
    /\ \A at \in Roomed, r \in Names, goTo \in BOOLEAN, n \in Nat :
          [at |-> at, room |-> r, goTo |-> goTo, text |-> n] \in Task
    /\ \A task \in Task :
          /\ task = [at |-> task.at, room |-> task.room, goTo |-> task.goTo, text |-> task.text]
          /\ task.goTo \in BOOLEAN /\ task.text \in Nat
          /\ task.at \in Roomed => task.room \in Names
<1>1. Idle \in Task BY DEF Idle, Task
<1>2. \A at \in Roomed, r \in Names, goTo \in BOOLEAN, n \in Nat :
         [at |-> at, room |-> r, goTo |-> goTo, text |-> n] \in Task
  BY DEF Task, Roomed
<1>3. ASSUME NEW task \in Task
      PROVE  /\ task = [at |-> task.at, room |-> task.room, goTo |-> task.goTo, text |-> task.text]
             /\ task.goTo \in BOOLEAN /\ task.text \in Nat
             /\ task.at \in Roomed => task.room \in Names
  <2>1. CASE task \in [at : {"idle", "says"}, room : Names \cup {""}, goTo : BOOLEAN, text : Nat]
    BY <2>1 DEF Roomed
  <2>2. CASE task \in [at : Roomed, room : Names, goTo : BOOLEAN, text : Nat] BY <2>2 DEF Roomed
  <2> QED BY <2>1, <2>2 DEF Task, Roomed
<1> QED BY <1>1, <1>2, <1>3

\* A command takes a slot, a task goes on in a room, a task ends.
LEMMA Slots ==
    ASSUME TaskTypes, NEW t \in Tasks
    PROVE  /\ \A task \in Task : Issues(t, task) => tasks' \in [Tasks -> Task]
           /\ \A at \in Roomed : tasks[t].room \in Names /\ Goes(t, at) => tasks' \in [Tasks -> Task]
           /\ Ends(t) => tasks' \in [Tasks -> Task]
           /\ tasks[t].text \in Nat /\ (tasks[t].at \in Roomed => tasks[t].room \in Names)
<1>1. tasks \in [Tasks -> Task] /\ tasks[t] \in Task BY DEF TaskTypes
<1>2. ASSUME NEW task \in Task, Issues(t, task) PROVE tasks' \in [Tasks -> Task]
  BY <1>1, <1>2 DEF Issues
<1>3. ASSUME NEW at \in Roomed, tasks[t].room \in Names, Goes(t, at)
      PROVE  tasks' \in [Tasks -> Task]
  <2> DEFINE next == [at |-> at, room |-> tasks[t].room, goTo |-> tasks[t].goTo,
                      text |-> tasks[t].text]
  <2>1. next \in Task BY <1>1, <1>3, TaskKinds
  <2>2. [tasks[t] EXCEPT !.at = at] = next BY <1>1, TaskKinds
  <2>3. tasks' = [tasks EXCEPT ![t] = [tasks[t] EXCEPT !.at = at]] BY <1>3 DEF Goes
  <2> QED BY <2>1, <2>2, <2>3, <1>1
<1>4. Ends(t) => tasks' \in [Tasks -> Task] BY <1>1, TaskKinds DEF Ends
<1> QED BY <1>1, <1>2, <1>3, <1>4, TaskKinds

\* An event on the wire keeps it a sequence of events, and so does its end.
LEMMA Wires ==
    ASSUME ServerTypes
    PROVE  /\ \A kind \in {"joined", "parted", "kicked", "say", "presence", "announce", "echo"},
                 r \in Names, n \in Nat : Sent(kind, r, n) \in Seq(Event)
           /\ Sent("loggedIn", "", 0) \in Seq(Event)
           /\ \A n \in 0..Len(wire) : Append(SubSeq(wire, 1, n), Hint) \in Seq(Event)
           /\ \A n \in 0..Len(wire) : n < Len(wire) =>
                 SubSeq(wire, 1, n) \o <<Hint, wire[n + 1], Hint>> \in Seq(Event)
           /\ wire # <<>> => Tail(wire) \in Seq(Event) /\ Head(wire) \in Event
<1>1. wire \in Seq(Event) BY DEF ServerTypes
<1>2. \A kind \in {"joined", "parted", "kicked", "say", "presence", "announce", "echo"},
         r \in Names, n \in Nat : [kind |-> kind, room |-> r, text |-> n] \in Event
  BY DEF Event
<1>3. [kind |-> "loggedIn", room |-> "", text |-> 0] \in Event BY DEF Event
<1>4. \A e \in Event : Append(wire, e) \in Seq(Event) BY <1>1
<1>5. wire # <<>> => Tail(wire) \in Seq(Event) /\ Head(wire) \in Event BY <1>1
<1>6. \A n \in 0..Len(wire) : SubSeq(wire, 1, n) \in Seq(Event) BY <1>1
<1>7. Hint \in Event BY DEF Hint, Event
<1>8. \A events \in Seq(Event), e \in Event :
         /\ Append(events, Hint) \in Seq(Event)
         /\ events \o <<Hint, e, Hint>> \in Seq(Event)
  <2>1. \A e \in Event : <<Hint, e, Hint>> \in Seq(Event) BY <1>7
  <2>2. \A events, others \in Seq(Event) : events \o others \in Seq(Event) OBVIOUS
  <2> QED BY <1>7, <2>1, <2>2
<1>9. \A n \in 0..Len(wire) : n < Len(wire) => wire[n + 1] \in Event BY <1>1
<1> QED BY <1>2, <1>3, <1>4, <1>5, <1>6, <1>8, <1>9 DEF Sent

\* Joining, parting, speaking: what the server makes of them.
LEMMA Served ==
    ASSUME ServerTypes, NEW r \in Names, NEW n \in Nat, Joins(r) \/ Parts(r) \/ Says(r, n)
    PROVE  ServerTypes'
<1>1. wire' \in Seq(Event) BY Wires DEF Joins, Parts, Says, ServerTypes
<1> QED BY <1>1 DEF ServerTypes, Joins, Parts, Says

LEMMA Lines ==
    /\ Say \in Line /\ Look \in Line /\ \A n \in Nat : Own(n) \in Line
BY DEF Say, Look, Own, Line

-----------------------------------------------------------------------------
(* The steps of the queue.                                                   *)

\* A handler that changes neither boxes nor view.
LEMMA Elsewhere ==
    ASSUME BoxesAndView, UNCHANGED <<box, view>>
    PROVE  Handled
BY Reflows

LEMMA HandleLockedKeeps ==
    ASSUME IInv, HandleLocked
    PROVE  Handled /\ Rest'
<1> DEFINE e == Head(wire)
<1>1. BoxesAndView /\ ServerTypes /\ TaskTypes BY DEF IInv, Rest
<1>2. e \in Event /\ wire' \in Seq(Event) BY <1>1, Wires DEF HandleLocked
<1>3. e.text \in Nat /\ (e.kind \notin {"loggedIn", "hint"} => e.room \in Names) BY <1>2 DEF Event
<1>4. Handles(e) BY DEF HandleLocked
<1> HIDE DEF e
<1>5. CASE e.kind = "loggedIn" /\ HandlesLogin /\ UNCHANGED <<box, pendingLocalEchoes>>
  <2>1. Handled BY <1>1, <1>5, Reflows DEF HandlesLogin
  <2>2. Home \in Names => <<Home>> \in Seq(Names) OBVIOUS
  <2>3. /\ rejoining' \in Seq(Names) /\ isReconnecting' \in BOOLEAN
        /\ pendingLocalEchoes' = pendingLocalEchoes
    BY <1>1, <1>5, <2>2, HomeAssumption DEF HandlesLogin, BoxesAndView, BoxTypes, TaskTypes
  <2> QED BY <1>2, <2>1, <2>3 DEF IInv, Rest, HandleLocked, TasteTypes, TaskTypes, ServerTypes,
                                  BoundTypes, taste, bounds
<1>6. CASE e.kind = "hint" /\ HandlesHint /\ UNCHANGED <<box, pendingLocalEchoes>>
  <2>1. UNCHANGED view \/ (UNCHANGED activeRoom /\ strip' = NoStrip)
    BY <1>6 DEF HandlesHint, view
  <2>2. Handled BY <1>1, <1>6, <2>1, Reflows
  <2> QED BY <1>2, <1>6, <2>2
          DEF IInv, Rest, HandleLocked, HandlesHint, TasteTypes, TaskTypes, ServerTypes,
              BoundTypes, taste, bounds
<1>7. CASE e.kind = "echo" /\ HandlesEcho(e.room, e.text) /\ UNCHANGED login
  <2>1. Handled
    <3>1. CASE UNCHANGED <<box, view>> BY <3>1, <1>1, Elsewhere
    <3>2. CASE HandlesMessage(e.room, Own(e.text), TRUE)
      BY <3>2, <1>1, <1>3, <1>7, Messages, Lines
    <3> QED BY <3>1, <3>2, <1>7 DEF HandlesEcho
  <2>2. pendingLocalEchoes' \subseteq Nat BY <1>1, <1>7 DEF HandlesEcho, TaskTypes
  <2> QED BY <1>2, <1>7, <2>1, <2>2
          DEF IInv, Rest, HandleLocked, login, TasteTypes, TaskTypes, ServerTypes, BoundTypes,
              taste, bounds
<1>8. CASE /\ \/ e.kind \in {"joined", "kicked"} /\ HandlesConfirm(e.room)
              \/ e.kind = "parted" /\ HandlesPart(e.room)
              \/ e.kind = "say" /\ HandlesMessage(e.room, Say, TRUE)
              \/ e.kind = "presence" /\ HandlesPresence(e.room)
              \/ e.kind = "announce" /\ LogsEverywhere(Look)
           /\ UNCHANGED <<login, pendingLocalEchoes>>
  <2>1. Handled
    <3>1. CASE e.kind \in {"joined", "kicked"} /\ HandlesConfirm(e.room)
      BY <3>1, <1>1, <1>3, Confirms
    <3>2. CASE e.kind = "parted" /\ HandlesPart(e.room) BY <3>2, <1>1, <1>3, PartsHandled
    <3>3. CASE e.kind = "say" /\ HandlesMessage(e.room, Say, TRUE)
      BY <3>3, <1>1, <1>3, Messages, Lines
    <3>4. CASE e.kind = "presence" /\ HandlesPresence(e.room) BY <3>4, <1>1, <1>3, Presences
    <3>5. CASE e.kind = "announce" /\ LogsEverywhere(Look) BY <3>5, <1>1, Announces, Lines
    <3> QED BY <1>8, <3>1, <3>2, <3>3, <3>4, <3>5
  <2> QED BY <1>2, <1>8, <2>1
          DEF IInv, Rest, HandleLocked, login, TasteTypes, TaskTypes, ServerTypes, BoundTypes,
              taste, bounds
<1> QED BY <1>4, <1>5, <1>7, <1>8, <1>6 DEF Handles

-----------------------------------------------------------------------------
(* The steps of the user's commands.                                         *)

LEMMA JoinRoomKeeps ==
    ASSUME IInv, NEW t \in Tasks, NEW r \in Names, NEW goTo \in BOOLEAN, JoinRoom(t, r, goTo)
    PROVE  Handled /\ Rest'
<1>1. BoxesAndView /\ TaskTypes BY DEF IInv, Rest
<1>2. PICK task \in Task : Issues(t, task)
  <2>1. /\ [Idle EXCEPT !.at = "joins", !.room = r, !.goTo = goTo] \in Task
        /\ [Idle EXCEPT !.at = "activates", !.room = r] \in Task
        /\ Idle \in Task
    BY DEF Idle, Task
  <2> QED BY <2>1 DEF JoinRoom
<1>3. tasks' \in [Tasks -> Task] BY <1>1, <1>2, Slots
<1>4. Handled
  <2>1. CASE UNCHANGED <<rooms, roomOrder, transcript>>
    BY <2>1, <1>1, Elsewhere DEF JoinRoom, box, view
  <2>2. CASE OpensBox(r)
    <3>1. HandlesConfirm(r) BY <2>2 DEF HandlesConfirm, JoinRoom
    <3> QED BY <3>1, <1>1, Confirms
  <2> QED BY <2>1, <2>2 DEF JoinRoom
<1> QED BY <1>2, <1>3, <1>4
        DEF IInv, Rest, JoinRoom, login, Issues, TasteTypes, TaskTypes, ServerTypes, BoundTypes,
            taste, server

LEMMA JoinSendsKeeps ==
    ASSUME IInv, NEW t \in Tasks, JoinSends(t)
    PROVE  Handled /\ Rest'
<1>1. BoxesAndView /\ TaskTypes /\ ServerTypes BY DEF IInv, Rest
<1>2. tasks[t].room \in Names BY <1>1, Slots DEF JoinSends, Roomed
<1>3. tasks' \in [Tasks -> Task] BY <1>1, <1>2, Slots DEF JoinSends, Roomed
<1>4. ServerTypes'
  <2>1. CASE UNCHANGED server BY <2>1, <1>1 DEF server, ServerTypes
  <2>2. CASE Joins(tasks[t].room) BY <2>2, <1>1, <1>2, Served
  <2> QED BY <2>1, <2>2 DEF JoinSends
<1>5. Handled BY <1>1, Elsewhere DEF JoinSends
<1> QED BY <1>3, <1>4, <1>5
        DEF IInv, Rest, JoinSends, login, TasteTypes, TaskTypes, BoundTypes, taste, bounds

LEMMA SetActiveRoomKeeps ==
    ASSUME IInv, NEW t \in Tasks, SetActiveRoom(t)
    PROVE  Handled /\ Rest'
<1>1. BoxesAndView /\ TaskTypes BY DEF IInv, Rest
<1>2. tasks[t].room \in Names BY <1>1, Slots DEF SetActiveRoom, Roomed
<1>3. tasks' \in [Tasks -> Task] BY <1>1, Slots DEF SetActiveRoom
<1>4. Handled BY <1>1, <1>2, Activations DEF SetActiveRoom
<1> QED BY <1>3, <1>4
        DEF IInv, Rest, SetActiveRoom, login, TasteTypes, TaskTypes, ServerTypes, BoundTypes,
            taste, server, bounds

LEMMA UserActivatesKeeps ==
    ASSUME IInv, NEW t \in Tasks, NEW r \in Names, UserActivates(t, r)
    PROVE  Handled /\ Rest'
<1>1. BoxesAndView /\ TaskTypes BY DEF IInv, Rest
<1>2. tasks' \in [Tasks -> Task] BY <1>1, Slots, TaskKinds DEF UserActivates
<1>3. Handled BY <1>1, Activations DEF UserActivates
<1> QED BY <1>2, <1>3
        DEF IInv, Rest, UserActivates, login, Issues, TasteTypes, TaskTypes, ServerTypes, BoundTypes,
            taste, server

LEMMA LeaveRoomKeeps ==
    ASSUME IInv, NEW t \in Tasks, NEW r \in Names, LeaveRoom(t, r)
    PROVE  Handled /\ Rest'
<1>1. BoxesAndView /\ TaskTypes /\ ServerTypes BY DEF IInv, Rest
<1>2. PICK task \in Task : Issues(t, task)
  <2>1. [Idle EXCEPT !.at = "drops", !.room = r] \in Task /\ Idle \in Task BY DEF Idle, Task
  <2> QED BY <2>1 DEF LeaveRoom
<1>3. tasks' \in [Tasks -> Task] BY <1>1, <1>2, Slots
<1>4. ServerTypes'
  <2>1. CASE UNCHANGED server BY <2>1, <1>1 DEF server, ServerTypes
  <2>2. CASE Parts(r) BY <2>2, <1>1, Served
  <2> QED BY <2>1, <2>2 DEF LeaveRoom
<1>5. Handled BY <1>1, Elsewhere DEF LeaveRoom
<1> QED BY <1>2, <1>3, <1>4, <1>5
        DEF IInv, Rest, LeaveRoom, login, Issues, TasteTypes, TaskTypes, BoundTypes, taste

\* The box goes; the strip, and with it the active room, waits for the next closure.
LEMMA LeaveDropsKeeps ==
    ASSUME IInv, NEW t \in Tasks, LeaveDrops(t)
    PROVE  Handled /\ Rest'
<1> DEFINE r == tasks[t].room
           next == Without(roomOrder, r)[1]
<1>1. BoxesAndView /\ TaskTypes BY DEF IInv, Rest
<1>2. r \in Names BY <1>1, Slots DEF LeaveDrops, Roomed
<1>3. CASE r \notin rooms /\ Ends(t) /\ UNCHANGED box
  <2>1. tasks' \in [Tasks -> Task] BY <1>1, <1>3, Slots
  <2>2. Handled BY <1>1, <1>3, Elsewhere DEF LeaveDrops
  <2> QED BY <2>1, <2>2
          DEF IInv, Rest, LeaveDrops, login, TasteTypes, TaskTypes, ServerTypes, BoundTypes,
              taste, server, bounds
<1>4. CASE /\ r \in rooms /\ RemovesBox(r) /\ unread' = [unread EXCEPT ![r] = 0]
           /\ \/ Ends(t) \/ Goes(t, "clears")
              \/ /\ Len(roomOrder) > 1
                 /\ tasks' = [tasks EXCEPT ![t] = [Idle EXCEPT !.at = "activates", !.room = next]]
  <2>1. Len(roomOrder) > 1 => next \in Names BY <1>1, <1>4, WithoutTab DEF BoxesAndView, BoxTypes
  <2>2. tasks' \in [Tasks -> Task]
    <3>1. CASE Ends(t) \/ Goes(t, "clears") BY <3>1, <1>1, <1>2, Slots DEF Roomed
    <3>2. CASE /\ Len(roomOrder) > 1
               /\ tasks' = [tasks EXCEPT ![t] = [Idle EXCEPT !.at = "activates", !.room = next]]
      <4>1. next \in Names BY <2>1, <3>2
      <4> HIDE DEF next
      <4>2. [Idle EXCEPT !.at = "activates", !.room = next] \in Task BY <4>1 DEF Idle, Task
      <4> QED BY <1>1, <3>2, <4>2 DEF TaskTypes
    <3> QED BY <1>4, <3>1, <3>2
  <2>3. /\ rooms' \subseteq Names /\ roomOrder' \in Seq(Names)
        /\ transcript' \in [Names -> Seq(Line)] /\ TabsAreBoxes' /\ Grows
    BY <1>1, <1>4, Removed DEF BoxesAndView
  <2>4. unread' \in [Names -> Nat] /\ ActiveRead' /\ ViewTypes'
    BY <1>1, <1>4 DEF LeaveDrops, BoxesAndView, BoxTypes, ActiveRead, ViewTypes, view
  <2> QED BY <2>2, <2>3, <2>4
          DEF Handled, BoxesAndView, BoxTypes, IInv, Rest, LeaveDrops, login, TasteTypes, TaskTypes,
              ServerTypes, BoundTypes, taste, server, bounds
<1> QED BY <1>3, <1>4 DEF LeaveDrops

LEMMA LeaveClearsKeeps ==
    ASSUME IInv, NEW t \in Tasks, LeaveClears(t)
    PROVE  Handled /\ Rest'
<1>1. BoxesAndView /\ TaskTypes BY DEF IInv, Rest
<1>2. tasks' \in [Tasks -> Task] BY <1>1, Slots DEF LeaveClears
<1>3. Handled BY <1>1, Reflows DEF LeaveClears
<1> QED BY <1>2, <1>3
        DEF IInv, Rest, LeaveClears, login, TasteTypes, TaskTypes, ServerTypes, BoundTypes,
            taste, server, bounds

LEMMA SendKeeps ==
    ASSUME IInv, NEW t \in Tasks, Send(t)
    PROVE  Handled /\ Rest'
<1> DEFINE task == [Idle EXCEPT !.at = "says", !.room = activeRoom, !.text = commands + 1]
<1>1. BoxesAndView /\ TaskTypes /\ BoundTypes BY DEF IInv, Rest
<1>2. task \in Task
  <2>1. \A room \in Names \cup {""}, n \in Nat :
           [Idle EXCEPT !.at = "says", !.room = room, !.text = n] \in Task
    BY DEF Idle, Task
  <2>2. activeRoom \in Names \cup {""} BY <1>1 DEF BoxesAndView, ViewTypes
  <2>3. commands + 1 \in Nat BY <1>1 DEF BoundTypes
  <2> QED BY <2>1, <2>2, <2>3
<1>3. tasks' \in [Tasks -> Task] BY <1>1, <1>2, Slots DEF Send
<1>4. Handled BY <1>1, Elsewhere DEF Send
<1> QED BY <1>3, <1>4
        DEF IInv, Rest, Send, login, Issues, TasteTypes, TaskTypes, ServerTypes, BoundTypes,
            taste, server

LEMMA SaySendsKeeps ==
    ASSUME IInv, NEW t \in Tasks, SaySends(t)
    PROVE  Handled /\ Rest'
<1>1. BoxesAndView /\ TaskTypes /\ ServerTypes BY DEF IInv, Rest
<1>2. CASE MayUse(tasks[t].room) /\ Says(tasks[t].room, tasks[t].text) /\ Goes(t, "pends")
  <2>1. tasks[t].room \in Names BY <1>1, <1>2 DEF MayUse, ServerTypes
  <2>2. ServerTypes' BY <1>1, <1>2, <2>1, Slots, Served
  <2>3. tasks' \in [Tasks -> Task] BY <1>1, <1>2, <2>1, Slots DEF Roomed
  <2>4. Handled BY <1>1, Elsewhere DEF SaySends
  <2> QED BY <2>2, <2>3, <2>4
          DEF IInv, Rest, SaySends, login, TasteTypes, TaskTypes, BoundTypes, taste, bounds
<1>3. CASE Ends(t) /\ UNCHANGED server
  <2>1. tasks' \in [Tasks -> Task] BY <1>1, <1>3, Slots
  <2>2. Handled BY <1>1, Elsewhere DEF SaySends
  <2> QED BY <1>3, <2>1, <2>2
          DEF IInv, Rest, SaySends, login, TasteTypes, TaskTypes, ServerTypes, BoundTypes,
              taste, server, bounds
<1> QED BY <1>2, <1>3 DEF SaySends

LEMMA SayPendsKeeps ==
    ASSUME IInv, NEW t \in Tasks, SayPends(t)
    PROVE  Handled /\ Rest'
<1>1. BoxesAndView /\ TaskTypes BY DEF IInv, Rest
<1>2. tasks' \in [Tasks -> Task] BY <1>1, Slots DEF SayPends, Roomed
<1>3. pendingLocalEchoes' \subseteq Nat BY <1>1, Slots DEF SayPends, TaskTypes
<1>4. Handled BY <1>1, Elsewhere DEF SayPends
<1> QED BY <1>2, <1>3, <1>4
        DEF IInv, Rest, SayPends, login, TasteTypes, TaskTypes, ServerTypes, BoundTypes,
            taste, server, bounds

LEMMA SayRendersKeeps ==
    ASSUME IInv, NEW t \in Tasks, SayRenders(t)
    PROVE  Handled /\ Rest'
<1>1. BoxesAndView /\ TaskTypes BY DEF IInv, Rest
<1>2. tasks' \in [Tasks -> Task] BY <1>1, Slots DEF SayRenders
<1>3. tasks[t].room \in Names /\ tasks[t].text \in Nat BY <1>1, Slots DEF SayRenders, Roomed
<1>4. Handled BY <1>1, <1>3, Messages, Lines DEF SayRenders
<1> QED BY <1>2, <1>4
        DEF IInv, Rest, SayRenders, login, TasteTypes, TaskTypes, ServerTypes, BoundTypes,
            taste, server, bounds

LEMMA ChangeCharacterKeeps ==
    ASSUME IInv, NEW t \in Tasks, ChangeCharacter(t)
    PROVE  Handled /\ Rest'
<1>1. BoxesAndView /\ TaskTypes BY DEF IInv, Rest
<1>2. tasks' \in [Tasks -> Task] BY <1>1, Slots, TaskKinds DEF ChangeCharacter
<1>3. Handled
  <2>1. CASE LogsEverywhere(Look) BY <2>1, <1>1, Announces, Lines
  <2>2. CASE UNCHANGED <<box, view>> BY <2>2, <1>1, Elsewhere
  <2> QED BY <2>1, <2>2 DEF ChangeCharacter
<1>4. TasteTypes' BY DEF IInv, Rest, ChangeCharacter, login, TasteTypes
<1> QED BY <1>2, <1>3, <1>4
        DEF IInv, Rest, ChangeCharacter, login, Issues, TaskTypes, ServerTypes, BoundTypes, server

LEMMA SetIgnoredKeeps ==
    ASSUME IInv, NEW t \in Tasks, SetIgnored(t)
    PROVE  Handled /\ Rest'
<1>1. BoxesAndView /\ TaskTypes BY DEF IInv, Rest
<1>2. tasks' \in [Tasks -> Task] BY <1>1, Slots, TaskKinds DEF SetIgnored
<1>3. Handled
  <2>1. CASE RebuildsStrip(activeRoom, transcript[activeRoom], ignored')
    BY <2>1, <1>1, Reflows DEF SetIgnored
  <2>2. CASE UNCHANGED view BY <2>2, <1>1, Reflows DEF SetIgnored
  <2> QED BY <2>1, <2>2 DEF SetIgnored
<1>4. TasteTypes' BY DEF IInv, Rest, SetIgnored, TasteTypes
<1>5. Issues(t, Idle) /\ UNCHANGED <<pendingLocalEchoes, login, server>> BY DEF SetIgnored
<1> QED BY <1>2, <1>3, <1>4, <1>5
        DEF IInv, Rest, Issues, login, TaskTypes, ServerTypes, BoundTypes, server

LEMMA SetViewportKeeps ==
    ASSUME IInv, NEW t \in Tasks, SetViewport(t)
    PROVE  Handled /\ Rest'
<1>1. BoxesAndView /\ TaskTypes BY DEF IInv, Rest
<1>2. tasks' \in [Tasks -> Task] BY <1>1, Slots, TaskKinds DEF SetViewport
<1>3. PICK log : RebuildsStrip(activeRoom, log, ignored) BY DEF SetViewport
<1>4. Handled BY <1>1, <1>3, Reflows DEF SetViewport
<1>5. Issues(t, Idle) /\ UNCHANGED <<taste, pendingLocalEchoes, login, server>>
  BY DEF SetViewport
<1> QED BY <1>2, <1>4, <1>5
        DEF IInv, Rest, Issues, login, TasteTypes, TaskTypes, ServerTypes, BoundTypes,
            taste, server

-----------------------------------------------------------------------------
(* The login's Task, the server and the network.                             *)

LEMMA RejoinSendsKeeps ==
    ASSUME IInv, RejoinSends
    PROVE  Handled /\ Rest'
<1>1. BoxesAndView /\ TaskTypes /\ ServerTypes BY DEF IInv, Rest
<1>2. rejoining' \in Seq(Names) /\ Head(rejoining) \in Names BY <1>1 DEF RejoinSends, TaskTypes
<1>3. ServerTypes'
  <2>1. CASE UNCHANGED server BY <2>1, <1>1 DEF server, ServerTypes
  <2>2. CASE Joins(Head(rejoining)) BY <2>2, <1>1, <1>2, Served
  <2> QED BY <2>1, <2>2 DEF RejoinSends
<1>4. Handled BY <1>1, Elsewhere DEF RejoinSends
<1> QED BY <1>2, <1>3, <1>4
        DEF IInv, Rest, RejoinSends, TasteTypes, TaskTypes, BoundTypes, taste, bounds

LEMMA EnvironmentKeeps ==
    ASSUME IInv, Environment
    PROVE  Handled /\ Rest'
<1>1. BoxesAndView /\ TaskTypes /\ ServerTypes BY DEF IInv, Rest
<1>2. CASE ConnectionDrops
  <2>1. wire' \in Seq(Event) BY <1>1, <1>2, Wires DEF ConnectionDrops
  <2>2. Handled BY <1>1, <1>2, Elsewhere DEF ConnectionDrops
  <2>3. /\ status' = "gone" /\ joined' = {} /\ registered' = {} /\ drops' = drops + 1
        /\ UNCHANGED <<taste, pendingLocalEchoes, tasks, login, commands, lines>>
    BY <1>2 DEF ConnectionDrops
  <2>4. BoundTypes' BY <2>3 DEF IInv, Rest, BoundTypes
  <2> QED BY <2>1, <2>2, <2>3, <2>4
          DEF IInv, Rest, login, TasteTypes, TaskTypes, ServerTypes, taste
<1>3. CASE LogsIn
  <2>1. wire' \in Seq(Event) BY <1>1, <1>3, Wires DEF LogsIn
  <2>2. Handled BY <1>1, <1>3, Elsewhere DEF LogsIn
  <2> QED BY <1>3, <2>1, <2>2
          DEF IInv, Rest, LogsIn, login, TasteTypes, TaskTypes, ServerTypes, BoundTypes, taste, bounds
<1>4. ASSUME NEW r \in Names, NEW kind \in {"say", "presence", "announce", "parted", "kicked"},
             ServerSends(kind, r)
      PROVE  Handled /\ Rest'
  <2>1. wire' \in Seq(Event) BY <1>1, <1>4, Wires DEF ServerSends
  <2>2. Handled BY <1>1, <1>4, Elsewhere DEF ServerSends
  <2> QED BY <1>4, <2>1, <2>2
          DEF IInv, Rest, ServerSends, login, TasteTypes, TaskTypes, ServerTypes, BoundTypes, taste
<1>5. CASE Attempts \/ GivesUp
  <2>1. Handled BY <1>1, <1>5, Elsewhere DEF Attempts, GivesUp
  <2>2. <<>> \in Seq(Names) OBVIOUS
  <2> QED BY <1>5, <2>1, <2>2
          DEF IInv, Rest, Attempts, GivesUp, TasteTypes, TaskTypes, ServerTypes, BoundTypes,
              taste, bounds
<1> QED BY <1>2, <1>3, <1>4, <1>5 DEF Environment

-----------------------------------------------------------------------------
(* Types, tabs, unread counts and transcripts.                               *)

LEMMA Starts == Init => IInv
<1> SUFFICES ASSUME Init PROVE IInv OBVIOUS
<1>1. BoxTypes /\ ViewTypes /\ ActiveRead
  <2>1. <<>> \in Seq(Line) /\ <<Home>> \in Seq(Names) BY HomeAssumption
  <2>2. BoxTypes BY <2>1, HomeAssumption DEF Init, BoxTypes
  <2> QED BY <2>2, HomeAssumption DEF Init, ViewTypes, ActiveRead
<1>2. TabsAreBoxes BY DEF Init, TabsAreBoxes
<1>3. Rest
  <2>1. <<>> \in Seq(Names) /\ <<>> \in Seq(Event) OBVIOUS
  <2>2. TaskTypes BY <2>1, TaskKinds DEF Init, TaskTypes
  <2>3. ServerTypes BY <2>1 DEF Init, ServerTypes
  <2> QED BY <2>2, <2>3 DEF Init, Rest, TasteTypes, BoundTypes
<1> QED BY <1>1, <1>2, <1>3 DEF IInv, BoxesAndView

LEMMA Keeps ==
    ASSUME IInv, [Next]_vars
    PROVE  IInv' /\ Grows
<1>1. CASE UNCHANGED vars
  <2>1. Handled BY <1>1, Elsewhere DEF IInv, vars
  <2>2. Rest'
    BY <1>1 DEF IInv, Rest, vars, login, TasteTypes, TaskTypes, ServerTypes, BoundTypes,
                taste, server, bounds
  <2> QED BY <2>1, <2>2 DEF IInv, Handled
<1>2. CASE System
  <2>1. ASSUME NEW t \in Tasks, Continues(t) PROVE Handled /\ Rest'
    BY <2>1, JoinSendsKeeps, SetActiveRoomKeeps, LeaveDropsKeeps, LeaveClearsKeeps,
       SaySendsKeeps, SayPendsKeeps, SayRendersKeeps DEF Continues
  <2> QED BY <1>2, <2>1, HandleLockedKeeps, RejoinSendsKeeps DEF System, IInv, Handled
<1>3. CASE Environment BY <1>3, EnvironmentKeeps DEF IInv, Handled
<1>4. ASSUME NEW t \in Tasks, Command(t) PROVE Handled /\ Rest'
  BY <1>4, JoinRoomKeeps, UserActivatesKeeps, LeaveRoomKeeps, SendKeeps,
     ChangeCharacterKeeps, SetIgnoredKeeps, SetViewportKeeps DEF Command
<1> QED BY <1>1, <1>2, <1>3, <1>4 DEF Next, IInv, Handled

LEMMA Invariance == Spec => []IInv
<1>1. IInv /\ [Next]_vars => IInv' BY Keeps
<1> QED BY <1>1, Starts, PTL DEF Spec

\* The types of Rooms hold for any rooms, commands and bounds.
THEOREM TypeCorrect == Spec => []TypeOK
<1>1. IInv => TypeOK BY DEF IInv, BoxesAndView, Rest, TypeOK
<1> QED BY <1>1, Invariance, PTL

\* The tab bar and the rooms dictionary agree, whatever joins, leaves, parts and
\* late events come in between.
THEOREM TabsMatchBoxes == Spec => []TabsAreBoxes
<1>1. IInv => TabsAreBoxes BY DEF IInv, BoxesAndView
<1> QED BY <1>1, Invariance, PTL

\* The active room has no unread lines, even after its box was removed and made again.
THEOREM ActiveRoomIsRead == Spec => []UnreadInBackground
<1>1. IInv => UnreadInBackground
  BY DEF IInv, BoxesAndView, BoxTypes, ActiveRead, UnreadInBackground
<1> QED BY <1>1, Invariance, PTL

\* No step, be it a reflow, a rejoin, an echo or a character switch, takes a line
\* from the transcript of a room that stays open.
THEOREM LogIsCanonical == Spec => TranscriptOnlyGrows
<1>1. IInv /\ [Next]_vars =>
         [\A r \in rooms \cap rooms' :
             /\ Len(transcript[r]) <= Len(transcript'[r])
             /\ \A i \in 1..Len(transcript[r]) : transcript'[r][i] = transcript[r][i]]_vars
  BY Keeps DEF Grows
<1> QED BY <1>1, Invariance, PTL DEF Spec, TranscriptOnlyGrows

-----------------------------------------------------------------------------
(* The replay of a log, as a fold.                                           *)

Shows(hides) ==
    [p \in Seq(Line) \X Line |-> IF Hidden(p[2], hides) THEN p[1] ELSE Append(p[1], p[2])]

LEMMA ShowsTypes ==
    ASSUME NEW hides
    PROVE  /\ Shows(hides) \in [Seq(Line) \X Line -> Seq(Line)] /\ <<>> \in Seq(Line)
           /\ \A shown \in Seq(Line), line \in Line :
                 Shows(hides)[<<shown, line>>] =
                    IF Hidden(line, hides) THEN shown ELSE Append(shown, line)
<1>1. \A p \in Seq(Line) \X Line :
         (IF Hidden(p[2], hides) THEN p[1] ELSE Append(p[1], p[2])) \in Seq(Line)
  <2>1. \A shown \in Seq(Line), line \in Line : Append(shown, line) \in Seq(Line) OBVIOUS
  <2> QED BY <2>1
<1>2. <<>> \in Seq(Line) OBVIOUS
<1> QED BY <1>1, <1>2 DEF Shows

IsShown(f, log, hides) ==
    f = [i \in 0..Len(log) |->
            IF i = 0 THEN <<>>
            ELSE IF Hidden(log[i], hides) THEN f[i - 1] ELSE Append(f[i - 1], log[i])]

Shown(log, hides) == CHOOSE f : IsShown(f, log, hides)

LEMMA ReplayIsShown ==
    ASSUME NEW log, NEW hides
    PROVE  Replay(log, hides) = Shown(log, hides)[Len(log)]
BY DEF Replay, Shown, IsShown

LEMMA ReplayIsFold ==
    ASSUME NEW log \in Seq(Line), NEW hides
    PROVE  Replay(log, hides) = Fold(Shows(hides), <<>>, log)
<1> DEFINE n == Len(log)
           T == Seq(Line)
           step == Shows(hides)
           f == Run(step, <<>>, log)
           g == Shown(log, hides)
<1>1. n \in Nat /\ \A i \in 1..n : log[i] \in Line OBVIOUS
<1>2. step \in [T \X Line -> T] /\ <<>> \in T BY ShowsTypes
<1>3. \A shown \in T, line \in Line :
         step[<<shown, line>>] = IF Hidden(line, hides) THEN shown ELSE Append(shown, line)
  BY ShowsTypes
<1>4. IsRun(f, step, <<>>, log, n) BY RunIsRun
<1> HIDE DEF n, step, f, T
<1>5. \A i \in 0..n : f[i] \in T BY <1>1, <1>2, <1>4, RunTypes
<1>6. ASSUME NEW i \in 0..n
      PROVE  f[i] = IF i = 0 THEN <<>>
                    ELSE IF Hidden(log[i], hides) THEN f[i - 1] ELSE Append(f[i - 1], log[i])
  <2>1. f[i] = IF i = 0 THEN <<>> ELSE step[<<f[i - 1], log[i]>>] BY <1>4 DEF IsRun
  <2>2. CASE i # 0
    <3>1. i - 1 \in 0..n /\ i \in 1..n BY <1>1, <2>2
    <3> QED BY <1>1, <1>3, <1>5, <2>1, <2>2, <3>1
  <2> QED BY <2>1, <2>2
<1>7. IsShown(f, log, hides)
  <2>1. f = [i \in 0..n |-> f[i]] BY <1>4 DEF IsRun
  <2> QED BY <1>6, <2>1 DEF IsShown, n
<1>8. IsShown(g, log, hides) BY <1>7 DEF Shown
<1> HIDE DEF g
<1>9. g = [i \in 0..n |->
              IF i = 0 THEN <<>>
              ELSE IF Hidden(log[i], hides) THEN g[i - 1] ELSE Append(g[i - 1], log[i])]
  BY <1>8 DEF IsShown, n
<1>10. g[0] = <<>>
  <2>1. 0 \in 0..n BY <1>1
  <2> QED BY <1>9, <2>1
<1>11. g = [i \in 0..n |-> g[i]] BY <1>9
<1>12. ASSUME NEW i \in Nat, i + 1 <= n, g[i] \in T
       PROVE  g[i + 1] = step[<<g[i], log[i + 1]>>]
  <2>1. i + 1 \in 1..n /\ i + 1 \in 0..n /\ i + 1 # 0 /\ i + 1 - 1 = i BY <1>1, <1>12
  <2> DEFINE k == i + 1
  <2>2. k \in 0..n /\ k # 0 /\ k - 1 = i BY <2>1
  <2> HIDE DEF k
  <2>3. g[k] = IF Hidden(log[k], hides) THEN g[k - 1] ELSE Append(g[k - 1], log[k])
    BY <1>9, <2>2
  <2>4. g[k] = step[<<g[i], log[k]>>]
    <3>1. log[k] \in Line BY <1>1, <2>1 DEF k
    <3> QED BY <1>3, <1>12, <2>2, <2>3, <3>1
  <2> QED BY <2>4 DEF k
<1>13. Takes(g, T, Line, step, <<>>, log)
  <2>1. log \in Seq(Line) OBVIOUS
  <2> QED BY <1>2, <1>10, <1>11, <1>12, <2>1 DEF Takes, n
<1>14. g[n] = Fold(step, <<>>, log) BY <1>13, FoldFollowed DEF n
<1> QED BY <1>14, ReplayIsShown DEF g, n, step

\* A line at the end of a log is at the end of its replay, unless it is hidden.
LEMMA ReplayAppend ==
    ASSUME NEW log \in Seq(Line), NEW line \in Line, NEW hides
    PROVE  Replay(Append(log, line), hides) =
              IF Hidden(line, hides) THEN Replay(log, hides)
                                     ELSE Append(Replay(log, hides), line)
<1> DEFINE T == Seq(Line)
           shown == Fold(Shows(hides), <<>>, log)
<1>1. Append(log, line) \in Seq(Line) OBVIOUS
<1>2. Shows(hides) \in [T \X Line -> T] /\ <<>> \in T BY ShowsTypes
<1> HIDE DEF T
<1>3. shown \in T BY <1>2, FoldTypes
<1>4. Fold(Shows(hides), <<>>, Append(log, line)) = Shows(hides)[<<shown, line>>]
  BY FoldAppend
<1>5. /\ Replay(log, hides) = shown
      /\ Replay(Append(log, line), hides) = Fold(Shows(hides), <<>>, Append(log, line))
  BY <1>1, ReplayIsFold
<1> HIDE DEF shown
<1>6. Shows(hides)[<<shown, line>>] = IF Hidden(line, hides) THEN shown ELSE Append(shown, line)
  BY <1>3, ShowsTypes DEF T
<1> QED BY <1>4, <1>5, <1>6

-----------------------------------------------------------------------------
(* The live strip and the replay, step by step.                              *)

\* A step that leaves the active room in step with its log where it was.
Live == activeRoom' # activeRoom \/ (InStep /\ activeRoom \in rooms) => InStep'

\* A closed strip, or an active room without a box, is in step with anything.
LEMMA Closed ==
    ASSUME ~strip'.open \/ activeRoom' \notin rooms' PROVE Live
BY DEF Live, InStep

\* Nothing of what the active room shows has changed.
LEMMA Unmoved ==
    ASSUME UNCHANGED <<activeRoom, strip, ignored>>,
           activeRoom \in rooms => transcript'[activeRoom] = transcript[activeRoom]
    PROVE  Live
BY DEF Live, InStep

LEMMA Rebuilt ==
    ASSUME NEW r, RebuildsStrip(r, transcript'[r], ignored') PROVE Live
BY DEF RebuildsStrip, Live, InStep

\* A line that is logged in the active room is drawn there, or hidden.
LEMMA Drawn ==
    ASSUME BoxesAndView, NEW line \in Line, UNCHANGED <<activeRoom, ignored>>,
           activeRoom \in rooms =>
               transcript'[activeRoom] = Append(transcript[activeRoom], line),
           IF Hidden(line, ignored) THEN UNCHANGED strip ELSE Draws(line)
    PROVE  Live
<1> SUFFICES ASSUME InStep, activeRoom \in rooms, strip'.open
             PROVE  strip'.shown = Replay(transcript'[activeRoom'], ignored')
    BY DEF Live, InStep
<1> DEFINE log == transcript[activeRoom]
<1>1. log \in Seq(Line) BY DEF BoxesAndView, BoxTypes
<1>2. transcript'[activeRoom'] = Append(log, line) /\ ignored' = ignored OBVIOUS
<1>3. DOMAIN strip = {"open", "shown"} BY DEF BoxesAndView, ViewTypes
<1>4. strip.open BY DEF Draws
<1>5. strip.shown = Replay(log, ignored) BY <1>4 DEF InStep
<1> HIDE DEF log
<1>6. Replay(Append(log, line), ignored) =
         IF Hidden(line, ignored) THEN Replay(log, ignored) ELSE Append(Replay(log, ignored), line)
  BY <1>1, ReplayAppend
<1>7. CASE Hidden(line, ignored) BY <1>2, <1>5, <1>6, <1>7
<1>8. CASE ~Hidden(line, ignored)
  <2>1. strip' = [strip EXCEPT !.shown = Append(@, line)] BY <1>4, <1>8 DEF Draws
  <2>2. strip'.shown = Append(strip.shown, line) BY <1>3, <2>1
  <2> QED BY <1>2, <1>5, <1>6, <1>8, <2>2
<1> QED BY <1>7, <1>8

LEMMA Logged ==
    ASSUME BoxTypes, NEW r \in Names, NEW line
    PROVE  /\ Logs(r, line) =>
                 /\ r \in rooms => transcript'[r] = Append(transcript[r], line)
                 /\ \A q \in rooms : q # r => transcript'[q] = transcript[q]
           /\ OpensBox(r) => \A q \in rooms : transcript'[q] = transcript[q]
           /\ RemovesBox(r) => /\ r \notin rooms'
                               /\ \A q \in Names : q # r => transcript'[q] = transcript[q]
<1>1. transcript \in [Names -> Seq(Line)] /\ rooms \subseteq Names BY DEF BoxTypes
<1>2. Logs(r, line) => /\ r \in rooms => transcript'[r] = Append(transcript[r], line)
                       /\ \A q \in rooms : q # r => transcript'[q] = transcript[q]
  BY <1>1 DEF Logs, Log
<1>3. OpensBox(r) => \A q \in rooms : transcript'[q] = transcript[q]
  BY <1>1 DEF OpensBox, Log
<1>4. RemovesBox(r) => /\ r \notin rooms'
                       /\ \A q \in Names : q # r => transcript'[q] = transcript[q]
  BY <1>1 DEF RemovesBox
<1> QED BY <1>2, <1>3, <1>4

LEMMA MessagesLive ==
    ASSUME BoxesAndView, NEW r \in Names, NEW line \in Line, NEW isMessage \in BOOLEAN,
           HandlesMessage(r, line, isMessage), UNCHANGED ignored
    PROVE  Live
<1>1. Logs(r, line) /\ activeRoom' = activeRoom BY DEF HandlesMessage
<1>2. CASE r = activeRoom
  <2>1. IF Hidden(line, ignored) THEN UNCHANGED strip ELSE Draws(line)
    BY <1>2 DEF HandlesMessage
  <2> QED BY <1>1, <1>2, <2>1, Logged, Drawn DEF BoxesAndView
<1>3. CASE r # activeRoom
  <2>1. UNCHANGED strip BY <1>3 DEF HandlesMessage
  <2> QED BY <1>1, <1>3, <2>1, Logged, Unmoved DEF BoxesAndView
<1> QED BY <1>2, <1>3

LEMMA PresencesLive ==
    ASSUME BoxesAndView, NEW r \in Names, HandlesPresence(r), UNCHANGED ignored
    PROVE  Live
<1>1. Presence \in Line /\ ~Hidden(Presence, ignored) BY DEF Presence, Line, Hidden
<1>2. Logs(r, Presence) /\ activeRoom' = activeRoom BY DEF HandlesPresence
<1>3. CASE r = activeRoom
  <2>1. Draws(Presence) BY <1>3 DEF HandlesPresence
  <2> QED BY <1>1, <1>2, <1>3, <2>1, Logged, Drawn DEF BoxesAndView
<1>4. CASE r # activeRoom
  <2>1. UNCHANGED strip BY <1>4 DEF HandlesPresence
  <2> QED BY <1>2, <1>4, <2>1, Logged, Unmoved DEF BoxesAndView
<1> QED BY <1>3, <1>4

LEMMA ConfirmsLive ==
    ASSUME BoxesAndView, NEW r \in Names, OpensBox(r), UNCHANGED <<view, ignored>>
    PROVE  Live
BY Logged, Unmoved DEF BoxesAndView, view

LEMMA AnnouncesLive ==
    ASSUME BoxesAndView, LogsEverywhere(Look), UNCHANGED ignored
    PROVE  Live
<1>1. Look \in Line /\ ~Hidden(Look, ignored) BY DEF Look, Line, Hidden
<1>2. /\ activeRoom' = activeRoom /\ Draws(Look)
      /\ activeRoom \in rooms => transcript'[activeRoom] = Append(transcript[activeRoom], Look)
  BY DEF LogsEverywhere, BoxesAndView, BoxTypes
<1> QED BY <1>1, <1>2, Drawn

\* The room that a part falls back to has not lost its log.
LEMMA PartsLive ==
    ASSUME BoxesAndView, NEW r \in Names, HandlesPart(r), UNCHANGED ignored
    PROVE  Live
<1>1. CASE UNCHANGED <<box, view>>
  BY <1>1, Unmoved DEF box, view
<1>2. CASE r \in rooms /\ RemovesBox(r)
  <2>1. /\ r \notin rooms'
        /\ \A q \in Names : q # r => transcript'[q] = transcript[q]
    BY <1>2, Logged DEF BoxesAndView
  <2>2. CASE r # activeRoom /\ UNCHANGED view
    BY <2>1, <2>2, Unmoved DEF view, BoxesAndView, BoxTypes
  <2> DEFINE fallback == Without(roomOrder, r)[1]
  <2>3. CASE /\ Len(roomOrder) > 1
             /\ RebuildsStrip(fallback, transcript[fallback], ignored)
    <3>1. fallback \in rooms \ {r} BY <1>2, <2>3, WithoutTab DEF BoxesAndView, BoxTypes
    <3> HIDE DEF fallback
    <3>2. transcript'[fallback] = transcript[fallback] BY <2>1, <3>1 DEF BoxesAndView, BoxTypes
    <3> QED BY <2>3, <3>2, Rebuilt
  <2>4. CASE ClosesStrip BY <2>4, Closed DEF ClosesStrip, NoStrip
  <2> QED BY <1>2, <2>2, <2>3, <2>4 DEF HandlesPart
<1> QED BY <1>1, <1>2 DEF HandlesPart

LEMMA ActivatesLive ==
    ASSUME NEW r \in Names, Activates(r), UNCHANGED <<transcript, ignored>>
    PROVE  Live
<1>1. CASE RebuildsStrip(r, transcript[r], ignored) BY <1>1, Rebuilt
<1>2. CASE UNCHANGED view BY <1>2, Unmoved DEF view
<1> QED BY <1>1, <1>2 DEF Activates

LEMMA Aside ==
    ASSUME UNCHANGED <<box, view, taste>>
    PROVE  Live
BY Unmoved DEF box, view, taste

LEMMA HandleLockedLive ==
    ASSUME IInv, HandleLocked
    PROVE  Live
<1> DEFINE e == Head(wire)
<1>1. BoxesAndView /\ ServerTypes BY DEF IInv, Rest
<1>2. e \in Event BY <1>1, Wires DEF HandleLocked
<1>3. e.text \in Nat /\ (e.kind \notin {"loggedIn", "hint"} => e.room \in Names) BY <1>2 DEF Event
<1>4. Handles(e) /\ UNCHANGED taste BY DEF HandleLocked
<1> HIDE DEF e
<1>5. UNCHANGED ignored BY <1>4 DEF taste
<1>6. CASE UNCHANGED <<box, view>> BY <1>4, <1>6, Aside
<1>7. CASE e.kind \notin {"loggedIn", "hint"} /\ HandlesMessage(e.room, Own(e.text), TRUE)
  BY <1>1, <1>3, <1>5, <1>7, MessagesLive, Lines
<1>8. CASE e.kind \notin {"loggedIn", "hint"} /\ HandlesMessage(e.room, Say, TRUE)
  BY <1>1, <1>3, <1>5, <1>8, MessagesLive, Lines
<1>9. CASE e.kind \notin {"loggedIn", "hint"} /\ HandlesConfirm(e.room)
  BY <1>1, <1>3, <1>5, <1>9, ConfirmsLive DEF HandlesConfirm
<1>10. CASE e.kind \notin {"loggedIn", "hint"} /\ HandlesPart(e.room)
  BY <1>1, <1>3, <1>5, <1>10, PartsLive
<1>11. CASE e.kind \notin {"loggedIn", "hint"} /\ HandlesPresence(e.room)
  BY <1>1, <1>3, <1>5, <1>11, PresencesLive
<1>12. CASE LogsEverywhere(Look) BY <1>1, <1>5, <1>12, AnnouncesLive
<1>13. CASE UNCHANGED box /\ HandlesLogin
  <2>1. CASE RebuildsStrip(activeRoom, transcript[activeRoom], ignored)
    BY <1>5, <1>13, <2>1, Rebuilt DEF box
  <2>2. CASE UNCHANGED view BY <1>4, <1>13, <2>2, Aside
  <2> QED BY <1>13, <2>1, <2>2 DEF HandlesLogin
<1>14. CASE UNCHANGED box /\ HandlesHint
  <2>1. CASE strip' = NoStrip BY <2>1, Closed DEF NoStrip
  <2>2. CASE UNCHANGED view BY <1>4, <1>14, <2>2, Aside
  <2> QED BY <1>14, <2>1, <2>2 DEF HandlesHint, view
<1>15. \/ UNCHANGED <<box, view>> \/ LogsEverywhere(Look)
       \/ UNCHANGED box /\ (HandlesLogin \/ HandlesHint)
       \/ /\ e.kind \notin {"loggedIn", "hint"}
          /\ \/ HandlesMessage(e.room, Own(e.text), TRUE) \/ HandlesMessage(e.room, Say, TRUE)
             \/ HandlesConfirm(e.room) \/ HandlesPart(e.room) \/ HandlesPresence(e.room)
  BY <1>4 DEF Handles, HandlesEcho
<1> QED BY <1>6, <1>7, <1>8, <1>9, <1>10, <1>11, <1>12, <1>13,
           <1>14, <1>15

LEMMA CommandsLive ==
    ASSUME IInv, NEW t \in Tasks, Command(t)
    PROVE  Live
<1>1. BoxesAndView BY DEF IInv
<1>2. ASSUME NEW r \in Names, NEW goTo \in BOOLEAN, JoinRoom(t, r, goTo) PROVE Live
  <2>1. CASE UNCHANGED <<rooms, roomOrder, transcript>>
    BY <1>2, <2>1, Aside DEF JoinRoom, box, view
  <2>2. CASE OpensBox(r)
    BY <1>1, <1>2, <2>2, ConfirmsLive DEF JoinRoom, taste
  <2> QED BY <1>2, <2>1, <2>2 DEF JoinRoom
<1>3. ASSUME NEW r \in Names, UserActivates(t, r) PROVE Live
  BY <1>3, ActivatesLive DEF UserActivates, taste
<1>4. ASSUME NEW r \in Names, LeaveRoom(t, r) PROVE Live BY <1>4, Aside DEF LeaveRoom
<1>5. CASE Send(t) BY <1>5, Aside DEF Send
<1>6. CASE ChangeCharacter(t)
  <2>1. UNCHANGED ignored BY <1>6 DEF ChangeCharacter
  <2>2. CASE LogsEverywhere(Look) BY <1>1, <2>1, <2>2, AnnouncesLive
  <2>3. CASE UNCHANGED <<box, view>> BY <2>1, <2>3, Unmoved DEF box, view
  <2> QED BY <1>6, <2>2, <2>3 DEF ChangeCharacter
<1>7. CASE SetIgnored(t)
  <2>1. UNCHANGED box BY <1>7 DEF SetIgnored
  <2>2. CASE RebuildsStrip(activeRoom, transcript[activeRoom], ignored')
    BY <2>1, <2>2, Rebuilt DEF box
  <2>3. CASE activeRoom = "" /\ UNCHANGED view
    BY <1>1, <2>1, <2>3, Closed, NoName DEF box, view, BoxesAndView, BoxTypes
  <2> QED BY <1>7, <2>2, <2>3 DEF SetIgnored
<1>8. CASE SetViewport(t)
  <2>1. UNCHANGED <<box, taste>> BY <1>8 DEF SetViewport
  <2>2. CASE activeRoom = ""
    <3>1. activeRoom' = "" BY <1>8, <2>2 DEF SetViewport, RebuildsStrip
    <3> QED BY <1>1, <2>1, <3>1, Closed, NoName DEF box, BoxesAndView, BoxTypes
  <2>3. CASE activeRoom # ""
    <3>1. RebuildsStrip(activeRoom, transcript[activeRoom], ignored)
      BY <1>8, <2>3 DEF SetViewport
    <3> QED BY <2>1, <3>1, Rebuilt DEF box, taste
  <2> QED BY <2>2, <2>3
<1> QED BY <1>2, <1>3, <1>4, <1>5, <1>6, <1>7, <1>8 DEF Command

LEMMA ContinuesLive ==
    ASSUME IInv, NEW t \in Tasks, Continues(t)
    PROVE  Live
<1>1. BoxesAndView /\ TaskTypes BY DEF IInv, Rest
<1>2. CASE JoinSends(t) \/ SaySends(t) \/ SayPends(t)
  BY <1>2, Aside DEF JoinSends, SaySends, SayPends, box, view
<1>3. CASE SetActiveRoom(t)
  <2>1. tasks[t].room \in Names BY <1>1, <1>3, Slots DEF SetActiveRoom, Roomed
  <2> QED BY <1>3, <2>1, ActivatesLive DEF SetActiveRoom, taste
<1>4. CASE LeaveDrops(t)
  <2> DEFINE r == tasks[t].room
  <2>1. r \in Names BY <1>1, <1>4, Slots DEF LeaveDrops, Roomed
  <2>2. UNCHANGED <<view, taste>> BY <1>4 DEF LeaveDrops
  <2> HIDE DEF r
  <2>3. CASE UNCHANGED box BY <2>2, <2>3, Aside
  <2>4. CASE RemovesBox(r)
    <3>1. /\ r \notin rooms'
          /\ \A q \in Names : q # r => transcript'[q] = transcript[q]
      BY <1>1, <2>1, <2>4, Logged DEF BoxesAndView
    <3>2. CASE r = activeRoom BY <2>2, <3>1, <3>2, Closed DEF view
    <3>3. CASE r # activeRoom
      BY <1>1, <2>2, <3>1, <3>3, Unmoved DEF view, taste, BoxesAndView, BoxTypes
    <3> QED BY <3>2, <3>3
  <2> QED BY <1>4, <2>3, <2>4 DEF LeaveDrops, r
<1>5. CASE LeaveClears(t) BY <1>5, Closed DEF LeaveClears, ClosesStrip, NoStrip
<1>6. CASE SayRenders(t)
  <2>1. tasks[t].room \in Names /\ tasks[t].text \in Nat
    BY <1>1, <1>6, Slots DEF SayRenders, Roomed
  <2> QED BY <1>1, <1>6, <2>1, MessagesLive, Lines DEF SayRenders, taste
<1> QED BY <1>2, <1>3, <1>4, <1>5, <1>6 DEF Continues

LEMMA StaysLive ==
    ASSUME IInv, [Next]_vars
    PROVE  Live
<1>1. CASE UNCHANGED vars BY <1>1, Aside DEF vars
<1>2. CASE RejoinSends \/ Environment
  BY <1>2, Aside
     DEF RejoinSends, Environment, ConnectionDrops, LogsIn, Attempts, GivesUp, ServerSends
<1> QED BY <1>1, <1>2, HandleLockedLive, CommandsLive, ContinuesLive DEF Next, System

\* Only the login and the give-up end a reconnect: the one with a strip for the
\* active room, the other without a session.
LEMMA ComesBack ==
    ASSUME [Next]_vars
    PROVE  Returns
<1>1. CASE UNCHANGED isReconnecting BY <1>1 DEF Returns
<1>2. CASE HandlesLogin
  <2>1. CASE isReconnecting /\ activeRoom \in rooms
    <3>1. strip' = [open |-> TRUE, shown |-> Replay(transcript[activeRoom], ignored)]
      BY <1>2, <2>1 DEF HandlesLogin, RebuildsStrip
    <3> QED BY <3>1 DEF Returns
  <2>2. CASE ~(isReconnecting /\ activeRoom \in rooms) BY <2>2 DEF Returns
  <2> QED BY <2>1, <2>2
<1>3. CASE HandlesHint BY <1>3 DEF HandlesHint, Returns
<1>4. CASE GivesUp BY <1>4 DEF GivesUp, Returns
<1>5. CASE HandleLocked
  <2>1. HandlesLogin \/ HandlesHint \/ UNCHANGED login
    BY <1>5 DEF HandleLocked, Handles
  <2> QED BY <2>1, <1>1, <1>2, <1>3 DEF login
<1>6. CASE \/ UNCHANGED vars \/ RejoinSends \/ ConnectionDrops \/ LogsIn \/ Attempts
           \/ \E r \in Names, kind \in {"say", "presence", "announce", "parted", "kicked"} :
                 ServerSends(kind, r)
  BY <1>1, <1>6 DEF vars, RejoinSends, ConnectionDrops, LogsIn, Attempts, ServerSends, login
<1>7. ASSUME NEW t \in Tasks, Command(t) \/ Continues(t) PROVE Returns
  BY <1>1, <1>7
     DEF Command, JoinRoom, UserActivates, LeaveRoom, Send, ChangeCharacter, SetIgnored,
         SetViewport, Continues, JoinSends, SetActiveRoom, LeaveDrops, LeaveClears, SaySends,
         SayPends, SayRenders, login
<1> QED BY <1>4, <1>5, <1>6, <1>7 DEF Next, System, Environment

\* Live drawing and replay agree in every step: a line drawn is what the reflow would
\* add, whatever is ignored; a strip built for another room shows that room; and
\* the strip that a drop has taken away is, once a login ends the reconnect, the
\* replay of all that was logged before and meanwhile.
THEOREM LiveDrawingIsReplay == Spec => LiveIsReplay
<1>1. IInv /\ [Next]_vars =>
         [/\ activeRoom' # activeRoom \/ (InStep /\ activeRoom \in rooms) => InStep'
          /\ Returns]_vars
  BY StaysLive, ComesBack DEF Live
<1> QED BY <1>1, Invariance, PTL DEF Spec, LiveIsReplay
=============================================================================
