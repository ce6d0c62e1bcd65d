------------------------------ MODULE LineStream ------------------------------
(***************************************************************************)
(* What the engine's line framer promises to the protocol handlers: every  *)
(* line of the server, whole, once and in order.  It knows two exceptions. *)
(* The 800 that makes the buffers grow may take bytes behind it along, and *)
(* a line longer than the buffer blocks everything from there on.          *)
(* Bytes are their positions in the server's stream, from 1.               *)
(***************************************************************************)
EXTENDS Integers, Sequences

CONSTANTS
    Lengths,        \* lengths of lines, newline included
    Smallest, Grown \* the limit before and after an 800

VARIABLES
    written,        \* bytes the server has sent
    newlines,       \* where its lines end
    growing,        \* where its 800 lines end
    limit,          \* the longest line that can be taken
    cursor,         \* all bytes up to here have been dealt with
    messages        \* the lines handed to the handlers, as <<first, last>>

vars == <<written, newlines, growing, limit, cursor, messages>>

Init ==
    /\ written = 0 /\ newlines = {} /\ growing = {}
    /\ limit = Smallest /\ cursor = 0 /\ messages = <<>>

Write ==
    \E n \in Lengths :
        /\ written' = written + n
        /\ newlines' = newlines \cup {written + n}
        /\ growing' \in {growing, growing \cup {written + n}}
        /\ UNCHANGED <<limit, cursor, messages>>

IsNext(n) == n \in newlines /\ n > cursor /\ \A k \in newlines : k > cursor => k >= n

Grows(n) == n \in growing /\ limit < Grown

\* The next line is handed over; an 800 that grows the buffers may lose bytes.
Take ==
    \E n \in newlines :
        /\ IsNext(n)
        /\ n - cursor <= limit
        /\ messages' = Append(messages, <<cursor + 1, n>>)
        /\ IF Grows(n) THEN limit' = Grown /\ cursor' \in n..written
                       ELSE limit' = limit /\ cursor' = n
        /\ UNCHANGED <<written, newlines, growing>>

Safety == Init /\ [][Write \/ Take]_vars

Spec == Safety /\ WF_vars(Take)
=============================================================================
