-------------------------------- MODULE RoomList --------------------------------
(***************************************************************************)
(* The room list: LIST requested from the room list window, its answer     *)
(* gathered line by line by the model and posted to the main actor, in the *)
(* app of Shell, where connections drop, come back and are replaced.       *)
(*                                                                         *)
(* A list has two rows, each naming its list and the model that asked.     *)
(* The answers of one session stay in order; their place among the other   *)
(* events matters only for the hint of a drop, which is the last of them.  *)
(***************************************************************************)
EXTENDS Shell

CONSTANTS
    AnnouncesList,      \* whether the server begins an answer with 321
    MaxRequests         \* bounds the user

ASSUME AnnouncesAssumption == AnnouncesList \in BOOLEAN
ASSUME RequestsAssumption == MaxRequests \in Nat

VARIABLES
    roomListRequestInFlight, roomListAccum,
    asking,             \* requestRoomList() between its closure and session.list()
    answers,            \* list events of each model's session, not yet handled
    requests,
    lostAnswer          \* history: the last request was refused silently or its answer lost

listVars == <<roomListRequestInFlight, roomListAccum, asking, answers, requests,
              lostAnswer>>
vars == <<shellVars, listVars>>
shellButTroubles == <<main, mailbox, stage, session, isShutDown, retry, stream, engine,
                      history>>

Lines == [is : {"begin", "end", "error"}] \cup [is : {"item"}, row : Rows]
Accums == [open : BOOLEAN, items : Seq(Rows)]
Closed == [open |-> FALSE, items |-> <<>>]

ListTypeOK ==
    /\ roomListRequestInFlight \in [Models -> BOOLEAN]
    /\ roomListAccum \in [Models -> Accums]
    /\ asking \in [Models -> Nat] /\ answers \in [Models -> Seq(Lines)]
    /\ requests \in 0..MaxRequests
    /\ lostAnswer \in [Models -> BOOLEAN]

\* Types of the shell and its room lists: what is posted to the main actor is one of
\* the things a model tells, and a Task of requestRoomList() sends its LIST once.
ShellTypeOK == TypeOK /\ ListTypeOK

ListInit ==
    /\ Init
    /\ roomListRequestInFlight = [m \in Models |-> FALSE]
    /\ roomListAccum = [m \in Models |-> Closed]
    /\ asking = [m \in Models |-> 0] /\ answers = [m \in Models |-> <<>>]
    /\ requests = 0
    /\ lostAnswer = [m \in Models |-> FALSE]

-----------------------------------------------------------------------------
(* requestRoomList().                                                        *)

RequestStarts ==
    /\ model # 0 /\ requests < MaxRequests /\ ~roomListRequestInFlight[model]
    /\ requests' = requests + 1
    /\ roomListRequestInFlight' = [roomListRequestInFlight EXCEPT ![model] = TRUE]
    /\ asking' = [asking EXCEPT ![model] = @ + 1]
    /\ lostAnswer' = [lostAnswer EXCEPT ![model] = FALSE]
    /\ UNCHANGED <<shellVars, roomListAccum, answers>>

Row(m, n) == [is |-> "item", row |-> [of |-> m, list |-> n]]
Begin == IF AnnouncesList THEN <<[is |-> "begin"]>> ELSE <<>>
Answer(m, n) == Begin \o <<Row(m, n), Row(m, n), [is |-> "end"]>>

\* session.list(), refused unless logged in; the server answers or refuses in turn,
\* by an error or by a numeric that makes none (263; 902 to 907 on IRCX servers).
RequestSends(m) ==
    /\ asking[m] > 0 /\ asking' = [asking EXCEPT ![m] = @ - 1]
    /\ IF session[m] = "up" /\ ~isShutDown[m]
       THEN \/ /\ answers' = [answers EXCEPT ![m] = @ \o Answer(m, requests)]
               /\ UNCHANGED <<troubles, lostAnswer>>
            \/ /\ Troubles
               /\ \/ /\ answers' = [answers EXCEPT ![m] = Append(@, [is |-> "error"])]
                     /\ UNCHANGED lostAnswer
                  \/ lostAnswer' = [lostAnswer EXCEPT ![m] = TRUE] /\ UNCHANGED answers
       ELSE lostAnswer' = [lostAnswer EXCEPT ![m] = TRUE] /\ UNCHANGED <<answers, troubles>>
    /\ UNCHANGED <<shellButTroubles, roomListRequestInFlight, roomListAccum, requests>>

\* An error line that has nothing to do with the list.
Errs(m) ==
    /\ session[m] = "up" /\ ~isShutDown[m]
    /\ Troubles
    /\ answers' = [answers EXCEPT ![m] = Append(@, [is |-> "error"])]
    /\ UNCHANGED <<shellButTroubles, roomListRequestInFlight, roomListAccum, asking,
                   requests, lostAnswer>>

-----------------------------------------------------------------------------
(* handleLocked().                                                           *)

Frees(m) == roomListRequestInFlight' = [roomListRequestInFlight EXCEPT ![m] = FALSE]

\* Mutants: an answer is added to what is there; an error or the end leaves the
\* request open.
ListBeginsAdding(m) ==
    roomListAccum' = [roomListAccum EXCEPT ![m].open = TRUE]
    /\ UNCHANGED <<roomListRequestInFlight, mailbox>>

ListErrsOnly(m) == UNCHANGED <<roomListRequestInFlight, roomListAccum, mailbox>>

ListEndsOnly(m) ==
    /\ mailbox' = Append(mailbox, [from |-> m, says |-> "roomList",
                                   rows |-> roomListAccum[m].items])
    /\ roomListAccum' = [roomListAccum EXCEPT ![m] = Closed]
    /\ UNCHANGED roomListRequestInFlight

ListBegins(m) ==
    /\ roomListAccum' = [roomListAccum EXCEPT ![m] = [open |-> TRUE, items |-> <<>>]]
    /\ UNCHANGED <<roomListRequestInFlight, mailbox>>

ListAdds(m, row) ==
    /\ roomListAccum' = IF roomListAccum[m].open
                        THEN [roomListAccum EXCEPT ![m].items = Append(@, row)]
                        ELSE roomListAccum
    /\ UNCHANGED <<roomListRequestInFlight, mailbox>>

\* Without a beginning the rows were dropped and an empty list is posted.
ListEnds(m) ==
    /\ mailbox' = Append(mailbox, [from |-> m, says |-> "roomList",
                                   rows |-> roomListAccum[m].items])
    /\ roomListAccum' = [roomListAccum EXCEPT ![m] = Closed]
    /\ Frees(m)

ListErrs(m) == Frees(m) /\ UNCHANGED <<roomListAccum, mailbox>>

HandlesLine(m, line) ==
    \/ line.is = "begin" /\ ListBegins(m)
    \/ line.is = "item"  /\ ListAdds(m, line.row)
    \/ line.is = "end"   /\ ListEnds(m)
    \/ line.is = "error" /\ ListErrs(m)

HandleList(m) ==
    /\ answers[m] # <<>> /\ answers' = [answers EXCEPT ![m] = Tail(@)]
    /\ HandlesLine(m, Head(answers[m]))
    /\ UNCHANGED <<main, stage, session, isShutDown, retry, stream, engine, troubles,
                   history, asking, requests, lostAnswer>>

-----------------------------------------------------------------------------
(* The steps of the shell, with what they do to lists.                       *)

\* A connection ends anywhere in the answers under way.
Cuts(m) ==
    \E k \in 0..Len(answers[m]) :
        /\ answers' = [answers EXCEPT ![m] = SubSeq(@, 1, k)]
        /\ lostAnswer' = [lostAnswer EXCEPT ![m] = @ \/ k < Len(answers[m])]
        /\ UNCHANGED <<roomListRequestInFlight, roomListAccum, asking, requests>>

ListDrops(m) == Drops(m) /\ Cuts(m)

\* shutdown() ends the consumer, and handleLocked() ignores what still comes.
DownDropsAnswers ==
    /\ answers' = [m \in Models |-> IF isShutDown'[m] THEN <<>> ELSE answers[m]]
    /\ UNCHANGED <<roomListRequestInFlight, roomListAccum, asking, requests,
                   lostAnswer>>

ListMainActs == MainActs /\ DownDropsAnswers

\* The hint of a drop comes after the lines that arrived before it.
ListHandle(m) ==
    /\ Handle(m) /\ (Head(stream[m]) = "hint" => answers[m] = <<>>)
    /\ UNCHANGED listVars

ListGivesUp(m) ==
    GivesUp(m) /\ IF session[m] = "up" THEN Cuts(m) ELSE UNCHANGED listVars

Elsewhere(m) ==
    /\ Starts(m) \/ LogsIn(m) \/ RejectsNick(m) \/ Announces(m) \/ Reattempts(m)
       \/ TimesOut(m)
    /\ UNCHANGED listVars

Next ==
    \/ ListMainActs \/ RequestStarts
    \/ \E m \in Models : \/ RequestSends(m) \/ Errs(m) \/ HandleList(m)
                         \/ ListDrops(m) \/ ListHandle(m) \/ ListGivesUp(m) \/ Elsewhere(m)

\* Tasks and engine queue run; user, server, network and main actor may stop.
Fairness == \A m \in Models : WF_vars(RequestSends(m) \/ HandleList(m))

Spec == ListInit /\ [][Next]_vars /\ Fairness

-----------------------------------------------------------------------------
(* Properties.                                                               *)

\* Whole lists: what is posted and shown is one answer from its first row to its
\* last, or nothing, whatever errors and drops cut into the answers before it.
IsWhole(rows) ==
    rows = <<>> \/ \E m \in Models, n \in 1..MaxRequests :
                      rows = [k \in 1..2 |-> [of |-> m, list |-> n]]

AnswersAreWhole ==
    /\ IsWhole(roomList)
    /\ \A k \in 1..Len(mailbox) : mailbox[k].says = "roomList" => IsWhole(mailbox[k].rows)

\* Whose list: the list on screen is of the current connection, unless something
\* arrived of one that was gone.
ListIsOfModel ==
    ~late /\ overtaken = {} => \A k \in 1..Len(roomList) : roomList[k].of = model

\* Wedge: a request in flight that nothing will end lost its answer to a drop, or
\* was refused without an error event; an error or a list ends every other.
WedgedOnlyByLoss ==
    \A m \in Models :
        roomListRequestInFlight[m] /\ asking[m] = 0 /\ answers[m] = <<>> /\ ~isShutDown[m] =>
            lostAnswer[m]

\* Answer: every request ends, its answer is lost, or the model is shut down.
RequestEnds ==
    \A m \in Models : roomListRequestInFlight[m] ~>
        (~roomListRequestInFlight[m] \/ lostAnswer[m] \/ isShutDown[m])
=============================================================================
