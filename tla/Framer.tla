-------------------------------- MODULE Framer --------------------------------
(***************************************************************************)
(* ccOnReceiveBytes(): blocks of bytes, cut by the network where it likes, *)
(* are copied into a buffer of m_nMaxMsgLength bytes and cut into lines.   *)
(*                                                                         *)
(* Bytes are their positions in the server's stream, from 1: the buffer    *)
(* holds what has been copied since the last cut, so it is an interval,    *)
(* and a message is right if its interval is that of a line.  One step is  *)
(* one turn of one of the function's two loops.                            *)
(***************************************************************************)
EXTENDS Integers, Sequences

CONSTANTS
    Lengths,            \* lengths of the server's lines, newline included
    DefaultMax,         \* the buffer's size before
    GrownMax,           \* ... and after the 800 that advertises a larger one
    MaxLines            \* bounds the server

ASSUME LengthsAssumption == Lengths \subseteq Nat \ {0}
ASSUME SizesAssumption == DefaultMax \in Nat \ {0} /\ GrownMax \in Nat /\ GrownMax > DefaultMax
ASSUME MaxLinesAssumption == MaxLines \in Nat

VARIABLES
    written, newlines, growing,     \* the server's bytes, ends of lines, ends of its 800s
    lines,                          \* how many lines it has sent
    received, offset,               \* the end of the block at hand; how far it is copied
    start, stop,                    \* m_szInput holds the bytes start + 1 .. stop
    nMaxMsgLength,
    messages                        \* what ccProcessMessage() has been given

server == <<written, newlines, growing, lines>>
vars   == <<server, received, offset, start, stop, nMaxMsgLength, messages>>

TypeOK ==
    /\ written \in Nat /\ newlines \subseteq 1..written /\ growing \subseteq newlines
    /\ lines \in 0..MaxLines
    /\ received \in 0..written /\ offset \in 0..received
    /\ stop \in 0..offset /\ start \in 0..stop
    /\ nMaxMsgLength \in {DefaultMax, GrownMax}
    /\ messages \in Seq(Nat \X Nat)

Init ==
    /\ written = 0 /\ newlines = {} /\ growing = {} /\ lines = 0
    /\ received = 0 /\ offset = 0
    /\ start = 0 /\ stop = 0
    /\ nMaxMsgLength = DefaultMax
    /\ messages = <<>>

-----------------------------------------------------------------------------
(* The network.                                                              *)

ServerWrites ==
    /\ lines < MaxLines
    /\ \E n \in Lengths :
        /\ written' = written + n
        /\ newlines' = newlines \cup {written + n}
        /\ growing' \in {growing, growing \cup {written + n}}
    /\ lines' = lines + 1
    /\ UNCHANGED <<received, offset, start, stop, nMaxMsgLength, messages>>

Buffered(n) == n \in newlines /\ start < n /\ n <= stop

HoldsLine == \E n \in newlines : Buffered(n)

\* A completion of NWConnection.receive() hands over a block of any size.
Receive ==
    /\ offset = received /\ ~HoldsLine
    /\ received' \in (received + 1)..written
    /\ UNCHANGED <<server, offset, start, stop, nMaxMsgLength, messages>>

-----------------------------------------------------------------------------
(* The loops.                                                                *)

Space == nMaxMsgLength - (stop - start)

AtMost(a, b) == IF a < b THEN a ELSE b

\* Mutant: the room left is taken for the room there is.
CopiesFullSize ==
    LET n == AtMost(received - offset, nMaxMsgLength)
    IN stop' = offset + n /\ offset' = offset + n

\* Mutant: what does not fit is dropped, as before the outer loop was added.
CopiesOnce == stop' = offset + AtMost(received - offset, Space) /\ offset' = received

Copies ==
    LET n == AtMost(received - offset, Space)
    IN stop' = offset + n /\ offset' = offset + n

\* The outer loop: as much of the block as there is room for.
Bite ==
    /\ offset < received /\ ~HoldsLine
    /\ Space > 0
    /\ Copies
    /\ UNCHANGED <<server, received, start, nMaxMsgLength, messages>>

\* A full buffer without a newline: the rest of the block is dropped.
GivesUp ==
    /\ offset < received /\ ~HoldsLine
    /\ Space = 0
    /\ offset' = received
    /\ UNCHANGED <<server, received, start, stop, nMaxMsgLength, messages>>

\* HrInitAlloc(), from the handler of the first 800: new, empty buffers.
InitAlloc == nMaxMsgLength' = GrownMax /\ start' = stop

\* Mutants: the shift starts before the newline, or behind the byte after it.
ShiftsShort(n) == start' = n - 1
ShiftsLong(n) == start' = n + 1
ShiftsRest(n) == start' = n

\* The inner loop: the first line in the buffer is cut off and processed.
Cut ==
    \E n \in newlines :
        /\ Buffered(n) /\ \A k \in newlines : Buffered(k) => n <= k
        /\ messages' = Append(messages, <<start + 1, n>>)
        /\ IF n \in growing /\ nMaxMsgLength < GrownMax
           THEN InitAlloc
           ELSE ShiftsRest(n) /\ UNCHANGED nMaxMsgLength
        /\ UNCHANGED <<server, received, offset, stop>>

Next == ServerWrites \/ Receive \/ Bite \/ GivesUp \/ Cut

Spec ==
    /\ Init /\ [][Next]_vars
    /\ WF_vars(Receive) /\ WF_vars(Bite) /\ WF_vars(GivesUp) /\ WF_vars(Cut)

-----------------------------------------------------------------------------
(* Properties.                                                               *)

\* Buffer: no more than m_nMaxMsgLength bytes are ever resident in m_szInput
\* (the doc comment of ccOnReceiveBytes), however blocks and lines are cut
\* and whatever the handler of an 800 does to the buffer between two turns.
BufferFits == stop - start <= nMaxMsgLength

\* Deafness: bytes are discarded only while the buffer is full of one line
\* that does not end in it.  A stream of lines that fit is copied to the end.
DropsOnlyOverlong ==
    stop < offset => stop - start = nMaxMsgLength /\ ~HoldsLine

\* Growth: the handler of the 800 empties the buffer in the middle of the
\* drain.  What it loses is what the last bite had copied behind the 800 (the
\* "every byte" of the doc comment does not hold there), and nothing else: two
\* messages adjoin, or the first of them was an 800 and the gap less than a buffer.
LosesOnlyBehindCaps ==
    \A i \in 1..(Len(messages) - 1) :
        \/ messages[i + 1][1] = messages[i][2] + 1
        \/ /\ messages[i][2] \in growing
           /\ messages[i + 1][1] - messages[i][1] <= DefaultMax

Lines == INSTANCE LineStream WITH
    Smallest <- DefaultMax, Grown <- GrownMax,
    limit <- nMaxMsgLength, cursor <- start

\* Framing: the framer implements the abstract stream of lines, liveness
\* included: each line that fits is handed over whole, once, in order.
ImplementsLineStream == Lines!Spec
=============================================================================
