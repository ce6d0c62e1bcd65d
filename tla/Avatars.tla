-------------------------------- MODULE Avatars --------------------------------
(***************************************************************************)
(* Who looks like whom: peers announce a character, perhaps with a URL to  *)
(* fetch it from; the live strip dresses them as events come, a reflow     *)
(* replays the active room's transcript into a fresh strip, and fetches    *)
(* that run outside the engine queue land in between.                      *)
(*                                                                         *)
(* Closures of the engine queue are one action each.  The greeting that    *)
(* answers a first announcement, ignored peers and our own character are   *)
(* left out (the latter two are in Rooms); the rooms stay open.            *)
(***************************************************************************)
EXTENDS Integers, Sequences

CONSTANTS
    Nicks, Rooms,
    Arts,               \* characters that peers announce, none on disk at first
    DefaultOrder,       \* characters for peers without one, taken in turn
    None,
    MaxEvents,          \* bounds the peers
    MaxRebuilds         \* bounds the user

Looks == Arts \cup {DefaultOrder[i] : i \in DOMAIN DefaultOrder}

ASSUME NoneAssumption == None \notin Arts /\ \A i \in DOMAIN DefaultOrder : DefaultOrder[i] # None
ASSUME DefaultsAssumption == DefaultOrder \in Seq(Looks) /\ DefaultOrder # <<>>
ASSUME BoundsAssumption == MaxEvents \in Nat /\ MaxRebuilds \in Nat

VARIABLES
    transcript, activeRoom,
    strip,              \* strip and bridge: see Strips
    files,              \* characters in the user's directory
    inFlightAvatarDownloads,
    downloads,          \* detached Tasks
    events, rebuilds,
    \* History: the peers that a fetch has dressed as what they do not announce, or
    \* has left as they were although it brought what they announce; whether, since
    \* the strip was made, a fetch has landed or has dressed a peer amiss.
    misdressed, drifted

peers == <<transcript, events>>
fetches == <<inFlightAvatarDownloads, downloads>>
vars == <<peers, activeRoom, strip, files, fetches, rebuilds, misdressed, drifted>>

Entries ==
    [is : {"says"}, nick : Nicks] \cup [is : {"appears"}, nick : Nicks, art : Arts]

\* participantIDs and what each wears, announcedAvatarNames, nextDefaultIndex up to
\* the length of the cycle, and the panels drawn.
Strips ==
    [worn : [Nicks -> Looks \cup {None}], announced : [Nicks -> Arts \cup {None}],
     next : 0..(Len(DefaultOrder) - 1), panels : Seq([nick : Nicks, look : Looks])]

Blank ==
    [worn |-> [n \in Nicks |-> None], announced |-> [n \in Nicks |-> None],
     next |-> 0, panels |-> <<>>]

Tasks == [nick : Nicks, art : Arts, at : {"fetching", "landed", "over"}]

TypeOK ==
    /\ transcript \in [Rooms -> Seq(Entries)] /\ activeRoom \in Rooms
    /\ strip \in Strips
    /\ files \subseteq Arts
    /\ inFlightAvatarDownloads \subseteq Arts /\ downloads \subseteq Tasks
    /\ events \in 0..MaxEvents /\ rebuilds \in 0..MaxRebuilds
    /\ misdressed \subseteq Nicks /\ drifted \in BOOLEAN

Init ==
    /\ transcript = [r \in Rooms |-> <<>>] /\ activeRoom \in Rooms
    /\ strip = Blank
    /\ files = {} /\ inFlightAvatarDownloads = {} /\ downloads = {}
    /\ events = 0 /\ rebuilds = 0
    /\ misdressed = {} /\ drifted = FALSE

-----------------------------------------------------------------------------
(* ProtocolStripBridge.                                                      *)

\* Mutant: the cycle has no end.
CyclesOn(s) == s.next + 1

Cycles(s) == (s.next + 1) % Len(DefaultOrder)

\* resolve(avatarName:) and the participant it is for: a character on disk, or the
\* next of the defaults.
Dress(on, s, n, art) ==
    IF art \in on
    THEN [s EXCEPT !.worn[n] = art]
    ELSE [s EXCEPT !.worn[n] = DefaultOrder[s.next + 1], !.next = Cycles(s)]

\* Mutant: a new participant is given a default, whatever it announced.
EnsurePlain(on, s, n) == IF s.worn[n] # None THEN s ELSE Dress(on, s, n, None)

EnsureParticipant(on, s, n) ==
    IF s.worn[n] # None THEN s ELSE Dress(on, s, n, s.announced[n])

Says(on, s, n) ==
    LET t == EnsureParticipant(on, s, n)
    IN [t EXCEPT !.panels = Append(@, [nick |-> n, look |-> t.worn[n]])]

AppearsAs(on, s, n, art) ==
    LET t == [s EXCEPT !.announced[n] = art]
    IN IF t.worn[n] = None THEN t ELSE Dress(on, t, n, art)

\* With the characters that are on disk.
Applied(on, s, entry) ==
    IF entry.is = "says" THEN Says(on, s, entry.nick)
                         ELSE AppearsAs(on, s, entry.nick, entry.art)

ReplayFrom(on, s, entries) ==
    LET after[i \in 0..Len(entries)] ==
            IF i = 0 THEN s ELSE Applied(on, after[i - 1], entries[i])
    IN after[Len(entries)]

Replay(on, entries) == ReplayFrom(on, Blank, entries)

-----------------------------------------------------------------------------
(* handleLocked().                                                           *)

Logs(R, entry) ==
    /\ events < MaxEvents /\ events' = events + 1
    /\ transcript' = [r \in Rooms |-> IF r \in R THEN Append(transcript[r], entry)
                                                 ELSE transcript[r]]

Draws(R, entry) == strip' = IF activeRoom \in R THEN Applied(files, strip, entry) ELSE strip

\* A text of a peer, who may just have joined.
Speaks(n, r) ==
    LET entry == [is |-> "says", nick |-> n] IN
    /\ Logs({r}, entry) /\ Draws({r}, entry)
    /\ UNCHANGED <<activeRoom, files, fetches, rebuilds, misdressed, drifted>>

\* downloadAvatarIfNeededLocked(), for an announcement with a URL.
DownloadIfNeeded(n, art) ==
    IF art \in files \cup inFlightAvatarDownloads THEN UNCHANGED fetches
    ELSE /\ inFlightAvatarDownloads' = inFlightAvatarDownloads \cup {art}
         /\ downloads' = downloads \cup {[nick |-> n, art |-> art, at |-> "fetching"]}

\* .appearsAs of a peer, to one room or privately, which counts for all of them.
Announces(n, art, R) ==
    LET entry == [is |-> "appears", nick |-> n, art |-> art] IN
    /\ Logs(R, entry) /\ Draws(R, entry)
    /\ misdressed' = IF activeRoom \in R THEN misdressed \ {n} ELSE misdressed
    /\ DownloadIfNeeded(n, art) \/ UNCHANGED fetches
    /\ UNCHANGED <<activeRoom, files, rebuilds, drifted>>

Scopes == {{r} : r \in Rooms} \cup {Rooms}

-----------------------------------------------------------------------------
(* The Tasks.                                                                *)

Goes(d, stage) == downloads' = (downloads \ {d}) \cup {[d EXCEPT !.at = stage]}

\* AvatarDownloader.fetch() moves a valid file to the directory, or throws.
FetchEnds(d) ==
    /\ d.at = "fetching"
    /\ \/ /\ Goes(d, "landed")
          /\ files' = files \cup {d.art} /\ drifted' = TRUE
          /\ misdressed' = misdressed \cup
                {n \in Nicks \ {d.nick} : strip.worn[n] # None /\ strip.announced[n] = d.art}
       \/ Goes(d, "over") /\ UNCHANGED <<files, misdressed, drifted>>
    /\ UNCHANGED <<peers, activeRoom, strip, inFlightAvatarDownloads, rebuilds>>

\* The first closure: whoever announced it wears it, if on the strip there is now.
LandedRuns(d) ==
    /\ d.at = "landed" /\ Goes(d, "over")
    /\ IF strip.worn[d.nick] = None THEN UNCHANGED <<strip, misdressed, drifted>>
       ELSE /\ strip' = [strip EXCEPT !.worn[d.nick] = d.art]
            /\ IF strip.announced[d.nick] = d.art
               THEN misdressed' = misdressed \ {d.nick} /\ UNCHANGED drifted
               ELSE misdressed' = misdressed \cup {d.nick} /\ drifted' = TRUE
    /\ UNCHANGED <<peers, activeRoom, files, inFlightAvatarDownloads, rebuilds>>

\* Mutant: only a fetch that succeeded is taken out.
ReleasesLanded(d) ==
    inFlightAvatarDownloads' = IF d.art \in files THEN inFlightAvatarDownloads \ {d.art}
                                                  ELSE inFlightAvatarDownloads

Releases(d) == inFlightAvatarDownloads' = inFlightAvatarDownloads \ {d.art}

\* The closure of the defer block, on every exit.
DeferRuns(d) ==
    /\ d.at = "over"
    /\ downloads' = downloads \ {d}
    /\ Releases(d)
    /\ UNCHANGED <<peers, activeRoom, strip, files, rebuilds, misdressed, drifted>>

-----------------------------------------------------------------------------

\* Mutant: the resolver and its place in the cycle outlive the strip.
RebuiltOnCycle(r) == ReplayFrom(files, [Blank EXCEPT !.next = strip.next], transcript[r])

Rebuilt(r) == Replay(files, transcript[r])

\* rebuildStripLocked(): another tab, or the same one at another size.
RebuildStrip(r) ==
    /\ rebuilds < MaxRebuilds /\ rebuilds' = rebuilds + 1
    /\ activeRoom' = r
    /\ strip' = Rebuilt(r)
    /\ misdressed' = {} /\ drifted' = FALSE
    /\ UNCHANGED <<peers, files, fetches>>

Next ==
    \/ \E n \in Nicks, r \in Rooms : Speaks(n, r)
    \/ \E n \in Nicks, art \in Arts, R \in Scopes : Announces(n, art, R)
    \/ \E d \in downloads : FetchEnds(d) \/ LandedRuns(d) \/ DeferRuns(d)
    \/ \E r \in Rooms : RebuildStrip(r)

Spec == Init /\ [][Next]_vars

-----------------------------------------------------------------------------
(* Properties.                                                               *)

\* One fetch: a character is in flight just while one Task, and no more, is there
\* to take it out again, so it is not fetched twice at a time, nor barred for good.
FetchedOnce ==
    /\ inFlightAvatarDownloads = {d.art : d \in downloads}
    /\ \A d, e \in downloads : d.art = e.art => d = e

\* Dress: a peer on the strip wears what it announced in the active room, if that is
\* on disk and its closure has run, unless a fetch for an older announcement landed
\* after it, or the fetch that brought it was that of another peer.
DressedAsAnnounced ==
    \A n \in Nicks :
        \/ strip.worn[n] \in {None, strip.announced[n]}
        \/ strip.announced[n] \notin files
        \/ n \in misdressed
        \/ \E d \in downloads : d.nick = n /\ d.art = strip.announced[n] /\ d.at = "landed"

\* Reflow: as long as no fetch has landed or dressed a peer amiss since the strip was
\* made, a reflow would draw the strip that is there, panel by panel, with the same
\* defaults for those without a character.
StripIsReplay == ~drifted => strip = Replay(files, transcript[activeRoom])
=============================================================================
