----------------------------- MODULE FramerProofs -----------------------------
(***************************************************************************)
(* The framer cuts every stream of lines right, for every set of line      *)
(* lengths, buffer size and number of lines: the buffer's bounds and the   *)
(* two ways to lose bytes are invariants, and every step is one of         *)
(* LineStream or a stutter.                                                *)
(***************************************************************************)
EXTENDS Framer, TLAPS

\* What the last message says of the buffer: it starts where that message
\* ended, or the message was an 800 that emptied it.
FollowsLast ==
    messages # <<>> =>
        LET m == messages[Len(messages)]
        IN \/ start = m[2]
           \/ m[2] \in growing /\ start + 1 - m[1] <= DefaultMax

IInv == TypeOK /\ BufferFits /\ DropsOnlyOverlong /\ LosesOnlyBehindCaps /\ FollowsLast

USE LengthsAssumption, SizesAssumption, MaxLinesAssumption

LEMMA InitHolds == Init => IInv
  BY DEF Init, IInv, TypeOK, BufferFits, DropsOnlyOverlong, LosesOnlyBehindCaps, FollowsLast

\* The new line ends behind everything the client has.
LEMMA ServerWritesKeeps ==
  ASSUME IInv, ServerWrites PROVE IInv'
<1> USE DEF IInv
<1>1. PICK n \in Lengths :
        /\ written' = written + n
        /\ newlines' = newlines \cup {written + n}
        /\ growing' \in {growing, growing \cup {written + n}}
  BY DEF ServerWrites
<1>2. n \in Nat \ {0} /\ written' \in Nat
  BY <1>1 DEF TypeOK
<1>3. UNCHANGED <<received, offset, start, stop, nMaxMsgLength, messages>>
  BY DEF ServerWrites
<1>4. TypeOK'
  <2>1. newlines' \subseteq 1..written' /\ growing' \subseteq newlines'
    BY <1>1, <1>2 DEF TypeOK
  <2>2. lines' \in 0..MaxLines
    BY DEF ServerWrites, TypeOK
  <2> QED BY <2>1, <2>2, <1>1, <1>2, <1>3 DEF TypeOK
<1>5. HoldsLine' <=> HoldsLine
  BY <1>1, <1>2, <1>3 DEF HoldsLine, Buffered, TypeOK
<1>6. BufferFits' /\ DropsOnlyOverlong'
  BY <1>3, <1>5 DEF BufferFits, DropsOnlyOverlong
<1>7. growing \subseteq growing'
  BY <1>1
<1>8. LosesOnlyBehindCaps' /\ FollowsLast'
  BY <1>3, <1>7 DEF LosesOnlyBehindCaps, FollowsLast
<1> QED BY <1>4, <1>6, <1>8

LEMMA ReceiveKeeps ==
  ASSUME IInv, Receive PROVE IInv'
<1> USE DEF IInv, Receive, server
<1>1. TypeOK'
  BY DEF TypeOK
<1>2. HoldsLine' <=> HoldsLine
  BY DEF HoldsLine, Buffered
<1>3. BufferFits' /\ DropsOnlyOverlong' /\ LosesOnlyBehindCaps' /\ FollowsLast'
  BY <1>2 DEF BufferFits, DropsOnlyOverlong, LosesOnlyBehindCaps, FollowsLast
<1> QED BY <1>1, <1>3

\* There is room, so nothing has been dropped: the bite adjoins the buffer.
LEMMA BiteKeeps ==
  ASSUME IInv, Bite PROVE IInv'
<1> USE DEF IInv
<1> DEFINE n == AtMost(received - offset, Space)
<1>1. n \in Nat /\ n <= received - offset /\ n <= Space
  BY DEF Bite, Space, AtMost, TypeOK, BufferFits
<1>2. stop = offset
  BY DEF Bite, Space, TypeOK, DropsOnlyOverlong
<1>3. stop' = offset + n /\ offset' = offset + n
      /\ UNCHANGED <<server, received, start, nMaxMsgLength, messages>>
  BY DEF Bite, Copies
<1> HIDE DEF n
<1>4. TypeOK'
  BY <1>1, <1>2, <1>3 DEF TypeOK, server
<1>5. BufferFits' /\ DropsOnlyOverlong'
  BY <1>1, <1>2, <1>3 DEF TypeOK, Space, BufferFits, DropsOnlyOverlong
<1>6. LosesOnlyBehindCaps' /\ FollowsLast'
  BY <1>3 DEF LosesOnlyBehindCaps, FollowsLast, server
<1> QED BY <1>4, <1>5, <1>6

LEMMA GivesUpKeeps ==
  ASSUME IInv, GivesUp PROVE IInv'
<1> USE DEF IInv, GivesUp, server
<1>1. TypeOK'
  BY DEF TypeOK
<1>2. ~HoldsLine'
  BY DEF HoldsLine, Buffered
<1>3. BufferFits' /\ DropsOnlyOverlong'
  BY <1>2 DEF BufferFits, DropsOnlyOverlong, Space, TypeOK
<1>4. LosesOnlyBehindCaps' /\ FollowsLast'
  BY DEF LosesOnlyBehindCaps, FollowsLast
<1> QED BY <1>1, <1>3, <1>4

\* The line that is cut starts at the buffer's start, where the last one left it.
LEMMA CutKeeps ==
  ASSUME IInv, Cut PROVE IInv'
<1> USE DEF IInv
<1>1. PICK n \in newlines :
        /\ Buffered(n) /\ \A k \in newlines : Buffered(k) => n <= k
        /\ messages' = Append(messages, <<start + 1, n>>)
        /\ IF n \in growing /\ nMaxMsgLength < GrownMax
           THEN InitAlloc
           ELSE ShiftsRest(n) /\ UNCHANGED nMaxMsgLength
        /\ UNCHANGED <<server, received, offset, stop>>
  BY DEF Cut
<1>2. n \in Nat /\ start < n /\ n <= stop
  BY <1>1 DEF Buffered, TypeOK
<1>3. UNCHANGED <<written, newlines, growing, lines, received, offset, stop>>
  BY <1>1 DEF server
<1>11. start \in Nat /\ stop \in Nat /\ nMaxMsgLength \in Nat /\ stop - start <= nMaxMsgLength
  BY DEF TypeOK, BufferFits
<1>4. HoldsLine /\ stop = offset
  BY <1>1 DEF HoldsLine, DropsOnlyOverlong, TypeOK
<1>5. /\ start' \in n..stop
      /\ nMaxMsgLength' \in {DefaultMax, GrownMax} /\ nMaxMsgLength <= nMaxMsgLength'
      /\ \/ start' = n
         \/ n \in growing /\ start' - start <= DefaultMax
  <2>1. CASE n \in growing /\ nMaxMsgLength < GrownMax
    <3>1. nMaxMsgLength = DefaultMax /\ nMaxMsgLength' = GrownMax /\ start' = stop
      BY <1>1, <2>1 DEF InitAlloc, TypeOK
    <3> QED BY <1>2, <2>1, <3>1 DEF BufferFits, TypeOK
  <2>2. CASE ~(n \in growing /\ nMaxMsgLength < GrownMax)
    BY <1>1, <1>2, <2>2 DEF ShiftsRest, TypeOK
  <2> QED BY <2>1, <2>2
<1>6. messages' \in Seq(Nat \X Nat)
      /\ Len(messages') = Len(messages) + 1 /\ Len(messages) \in Nat
      /\ messages'[Len(messages) + 1] = <<start + 1, n>>
      /\ \A i \in 1..Len(messages) : messages'[i] = messages[i]
  BY <1>1, <1>2 DEF TypeOK
<1>7. TypeOK'
  BY <1>2, <1>3, <1>5, <1>6 DEF TypeOK
<1>8. BufferFits' /\ DropsOnlyOverlong'
  <2>1. stop' - start' <= nMaxMsgLength'
    <3>1. start' \in Nat /\ start' > start /\ nMaxMsgLength' \in Nat
      BY <1>2, <1>5, <1>11
    <3>2. stop' = stop
      BY <1>3
    <3>3. start < start' /\ nMaxMsgLength <= nMaxMsgLength'
      BY <3>1, <1>5
    <3> DEFINE end == stop from == start to == start' max == nMaxMsgLength grown == nMaxMsgLength'
    <3>4. /\ end \in Nat /\ from \in Nat /\ to \in Nat /\ max \in Nat /\ grown \in Nat
          /\ end - from <= max /\ from < to /\ max <= grown
      BY <3>1, <3>3, <1>11
    <3> HIDE DEF end, from, to, max, grown
    <3>5. end - to <= grown
      BY <3>4
    <3> QED BY <3>2, <3>5 DEF end, to, grown
  <2>2. ~(stop' < offset')
    BY <1>3, <1>4 DEF TypeOK
  <2> QED BY <2>1, <2>2 DEF BufferFits, DropsOnlyOverlong
<1>9. FollowsLast'
  <2>1. start' = n \/ (n \in growing' /\ start' + 1 - (start + 1) <= DefaultMax)
    <3>1. start' \in Nat
      BY <1>2, <1>5, <1>11
    <3> DEFINE from == start to == start'
    <3>2. from \in Nat /\ to \in Nat
      BY <3>1, <1>11
    <3>3. to = n \/ (n \in growing' /\ to - from <= DefaultMax)
      BY <1>3, <1>5
    <3> HIDE DEF from, to
    <3>4. to = n \/ (n \in growing' /\ to + 1 - (from + 1) <= DefaultMax)
      BY <3>2, <3>3
    <3> QED BY <3>4 DEF from, to
  <2>2. messages'[Len(messages')][1] = start + 1 /\ messages'[Len(messages')][2] = n
    BY <1>6
  <2> QED BY <2>1, <2>2 DEF FollowsLast
<1>10. LosesOnlyBehindCaps'
  <2> SUFFICES ASSUME NEW i \in 1..Len(messages)
               PROVE  \/ messages'[i + 1][1] = messages'[i][2] + 1
                      \/ /\ messages'[i][2] \in growing'
                         /\ messages'[i + 1][1] - messages'[i][1] <= DefaultMax
    BY <1>6 DEF LosesOnlyBehindCaps
  <2>1. CASE i < Len(messages)
    <3>1. i \in 1..(Len(messages) - 1) /\ i + 1 \in 1..Len(messages)
      BY <2>1, <1>6
    <3>2. messages'[i] = messages[i] /\ messages'[i + 1] = messages[i + 1]
      BY <3>1, <1>6
    <3> QED BY <3>1, <3>2, <1>3 DEF LosesOnlyBehindCaps
  <2>2. CASE i = Len(messages)
    <3>1. messages'[i] = messages[Len(messages)] /\ messages'[i + 1][1] = start + 1
      BY <2>2, <1>6
    <3>2. messages # <<>>
      BY <2>2, <1>6
    <3> DEFINE m == messages[Len(messages)]
    <3>3. start = m[2] \/ (m[2] \in growing /\ start + 1 - m[1] <= DefaultMax)
      BY <3>2 DEF FollowsLast
    <3>4. messages'[i][2] = m[2] /\ messages'[i][1] = m[1]
      BY <3>1
    <3> HIDE DEF m
    <3>5. CASE start = m[2]
      BY <3>1, <3>4, <3>5
    <3>6. CASE m[2] \in growing /\ start + 1 - m[1] <= DefaultMax
      <4> DEFINE next == messages'[i + 1][1] last == messages'[i][1] first == m[1]
      <4>1. next = start + 1 /\ last = first
        BY <3>1, <3>4
      <4>2. m \in Nat \X Nat
        BY <3>2 DEF TypeOK, m
      <4>3. first \in Nat /\ start + 1 - first <= DefaultMax
        BY <4>2, <3>6
      <4> HIDE DEF next, last, first
      <4>4. next - last <= DefaultMax
        BY <4>1, <4>3, <1>11
      <4> QED BY <4>4, <3>4, <3>6, <1>3, Zenon DEF next, last
    <3> QED BY <3>3, <3>5, <3>6
  <2> QED BY <2>1, <2>2, <1>6
<1> QED BY <1>7, <1>8, <1>9, <1>10

LEMMA NextKeeps ==
  ASSUME IInv, [Next]_vars PROVE IInv'
<1>1. CASE UNCHANGED vars
  <2> USE <1>1 DEF IInv, vars, server
  <2>1. TypeOK' /\ BufferFits' /\ LosesOnlyBehindCaps' /\ FollowsLast'
    BY DEF TypeOK, BufferFits, LosesOnlyBehindCaps, FollowsLast
  <2>2. DropsOnlyOverlong'
    BY DEF DropsOnlyOverlong, HoldsLine, Buffered
  <2> QED BY <2>1, <2>2
<1> QED
  BY <1>1, ServerWritesKeeps, ReceiveKeeps, BiteKeeps, GivesUpKeeps, CutKeeps DEF Next

LEMMA Invariance == Spec => []IInv
<1>1. IInv /\ [Next]_vars => IInv'
  BY NextKeeps
<1> QED BY InitHolds, <1>1, PTL DEF Spec

-----------------------------------------------------------------------------
(* Theorems.                                                                 *)

\* The positions keep their order: what is processed, buffered, copied, handed
\* over and written.
THEOREM TypeCorrect == Spec => []TypeOK
<1>1. IInv => TypeOK
  BY DEF IInv
<1> QED BY Invariance, <1>1, PTL

\* Neither a block of any size nor the handler of an 800 overfills m_szInput.
THEOREM BufferNeverOverflows == Spec => []BufferFits
<1>1. IInv => BufferFits
  BY DEF IInv
<1> QED BY Invariance, <1>1, PTL

\* Bytes are dropped behind one line that is longer than the buffer only.
THEOREM DropsAreOverlong == Spec => []DropsOnlyOverlong
<1>1. IInv => DropsOnlyOverlong
  BY DEF IInv
<1> QED BY Invariance, <1>1, PTL

\* Messages adjoin, but for less than a buffer behind a growing 800.
THEOREM LossIsBehindCaps == Spec => []LosesOnlyBehindCaps
<1>1. IInv => LosesOnlyBehindCaps
  BY DEF IInv
<1> QED BY Invariance, <1>1, PTL

\* Every step of the framer is a step of LineStream or a stutter.
THEOREM FramerImplementsLineStream == Spec => Lines!Safety
<1>1. Init => Lines!Init
  BY DEF Init, Lines!Init
<1>2. IInv /\ [Next]_vars => [Lines!Write \/ Lines!Take]_(Lines!vars)
  <2> SUFFICES ASSUME IInv, [Next]_vars PROVE [Lines!Write \/ Lines!Take]_(Lines!vars)
    OBVIOUS
  <2> USE DEF IInv
  <2>1. CASE ServerWrites
    BY <2>1 DEF ServerWrites, Lines!Write
  <2>2. CASE Receive \/ Bite \/ GivesUp
    BY <2>2 DEF Receive, Bite, GivesUp, server, Lines!vars
  <2>3. CASE Cut
    <3>1. PICK n \in newlines :
            /\ Buffered(n) /\ \A k \in newlines : Buffered(k) => n <= k
            /\ messages' = Append(messages, <<start + 1, n>>)
            /\ IF n \in growing /\ nMaxMsgLength < GrownMax
               THEN InitAlloc
               ELSE ShiftsRest(n) /\ UNCHANGED nMaxMsgLength
            /\ UNCHANGED <<server, received, offset, stop>>
      BY <2>3 DEF Cut
    <3>2. Lines!IsNext(n)
      BY <3>1 DEF Lines!IsNext, Buffered, TypeOK
    <3>3. n - start <= nMaxMsgLength
      BY <3>1 DEF Buffered, TypeOK, BufferFits
    <3>4. IF Lines!Grows(n)
          THEN nMaxMsgLength' = GrownMax /\ start' \in n..written
          ELSE nMaxMsgLength' = nMaxMsgLength /\ start' = n
      BY <3>1 DEF Lines!Grows, InitAlloc, ShiftsRest, Buffered, TypeOK
    <3>5. UNCHANGED <<written, newlines, growing>>
      BY <3>1 DEF server
    <3> QED BY <3>1, <3>2, <3>3, <3>4, <3>5 DEF Lines!Take
  <2>4. CASE UNCHANGED vars
    BY <2>4 DEF vars, server, Lines!vars
  <2> QED BY <2>1, <2>2, <2>3, <2>4 DEF Next
<1> QED BY <1>1, <1>2, Invariance, PTL DEF Spec, Lines!Safety
=============================================================================
