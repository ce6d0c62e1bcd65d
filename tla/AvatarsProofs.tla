----------------------------- MODULE AvatarsProofs -----------------------------
(***************************************************************************)
(* FetchedOnce, DressedAsAnnounced and StripIsReplay for any peers,        *)
(* characters, transcripts and bounds.  A fetch is held by its character   *)
(* alone.  The strip needs the replay of a transcript as a fold, which a   *)
(* further event takes one step further, as Draws takes the strip; every   *)
(* replay dresses whoever announced a character that is on disk.           *)
(***************************************************************************)
EXTENDS Avatars, Induction, TLAPS

-----------------------------------------------------------------------------
(* The fetches, which do not depend on the strip.                            *)

FetchTypes == downloads \subseteq Tasks /\ inFlightAvatarDownloads \subseteq Arts

IInv == FetchTypes /\ FetchedOnce

-----------------------------------------------------------------------------

LEMMA GoesKeeps ==
  ASSUME IInv, NEW d \in downloads, NEW stage \in {"fetching", "landed", "over"},
         Goes(d, stage), UNCHANGED inFlightAvatarDownloads
  PROVE  IInv'
<1> DEFINE moved == [d EXCEPT !.at = stage]
<1>1. /\ d \in Tasks /\ moved \in Tasks /\ moved.art = d.art
      /\ downloads' = (downloads \ {d}) \cup {moved}
  BY DEF IInv, FetchTypes, Tasks, Goes
<1>2. FetchTypes'
  BY <1>1 DEF IInv, FetchTypes
<1> HIDE DEF moved
<1>3. {e.art : e \in downloads'} = {e.art : e \in downloads}
  BY <1>1
<1>4. \A e, f \in downloads' : e.art = f.art => e = f
  BY <1>1 DEF IInv, FetchedOnce
<1> QED BY <1>2, <1>3, <1>4 DEF IInv, FetchedOnce

LEMMA DownloadKeeps ==
  ASSUME IInv, NEW n \in Nicks, NEW art \in Arts, DownloadIfNeeded(n, art)
  PROVE  IInv'
<1>1. CASE art \in files \cup inFlightAvatarDownloads
  BY <1>1 DEF DownloadIfNeeded, fetches, IInv, FetchTypes, FetchedOnce
<1>2. CASE art \notin files \cup inFlightAvatarDownloads
  <2> DEFINE new == [nick |-> n, art |-> art, at |-> "fetching"]
  <2>1. /\ inFlightAvatarDownloads' = inFlightAvatarDownloads \cup {art}
        /\ downloads' = downloads \cup {new}
        /\ new \in Tasks /\ new.art = art
    BY <1>2 DEF DownloadIfNeeded, Tasks
  <2> HIDE DEF new
  <2>2. FetchTypes'
    BY <2>1 DEF IInv, FetchTypes
  <2>3. \A e \in downloads : e.art # art
    BY <1>2 DEF IInv, FetchedOnce
  <2>4. {e.art : e \in downloads'} = {e.art : e \in downloads} \cup {art}
    BY <2>1
  <2>5. \A e, f \in downloads' : e.art = f.art => e = f
    BY <2>1, <2>3 DEF IInv, FetchedOnce
  <2> QED BY <2>1, <2>2, <2>4, <2>5 DEF IInv, FetchedOnce
<1> QED BY <1>1, <1>2

LEMMA DeferKeeps ==
  ASSUME IInv, NEW d \in downloads, DeferRuns(d)
  PROVE  IInv'
<1>1. /\ downloads' = downloads \ {d}
      /\ inFlightAvatarDownloads' = inFlightAvatarDownloads \ {d.art}
  BY DEF DeferRuns, Releases
<1>2. {e.art : e \in downloads'} = {e.art : e \in downloads} \ {d.art}
  BY <1>1 DEF IInv, FetchedOnce
<1>3. FetchTypes' /\ \A e, f \in downloads' : e.art = f.art => e = f
  BY <1>1 DEF IInv, FetchTypes, FetchedOnce
<1> QED BY <1>1, <1>2, <1>3 DEF IInv, FetchedOnce

LEMMA Untouched ==
  ASSUME IInv, UNCHANGED fetches PROVE IInv'
  BY DEF IInv, FetchTypes, FetchedOnce, fetches

LEMMA Initially == Init => IInv
  BY DEF Init, IInv, FetchTypes, FetchedOnce

LEMMA Inductive == IInv /\ [Next]_vars => IInv'
<1> SUFFICES ASSUME IInv, [Next]_vars PROVE IInv'
  OBVIOUS
<1>1. ASSUME NEW n \in Nicks, NEW r \in Rooms, Speaks(n, r) PROVE IInv'
  BY <1>1, Untouched DEF Speaks
<1>2. ASSUME NEW n \in Nicks, NEW art \in Arts, NEW R \in Scopes, Announces(n, art, R)
      PROVE  IInv'
  <2>1. DownloadIfNeeded(n, art) \/ UNCHANGED fetches
    BY <1>2 DEF Announces
  <2> QED BY <2>1, Untouched, DownloadKeeps
<1>3. ASSUME NEW d \in downloads, FetchEnds(d) PROVE IInv'
  <2>1. UNCHANGED inFlightAvatarDownloads /\ (Goes(d, "landed") \/ Goes(d, "over"))
    BY <1>3 DEF FetchEnds
  <2> QED BY <2>1, GoesKeeps
<1>4. ASSUME NEW d \in downloads, LandedRuns(d) PROVE IInv'
  <2>1. UNCHANGED inFlightAvatarDownloads /\ Goes(d, "over")
    BY <1>4 DEF LandedRuns
  <2> QED BY <2>1, GoesKeeps
<1>5. ASSUME NEW d \in downloads, DeferRuns(d) PROVE IInv'
  BY <1>5, DeferKeeps
<1>6. ASSUME NEW r \in Rooms, RebuildStrip(r) PROVE IInv'
  BY <1>6, Untouched DEF RebuildStrip
<1>7. CASE UNCHANGED vars
  BY <1>7, Untouched DEF vars
<1> QED BY <1>1, <1>2, <1>3, <1>4, <1>5, <1>6, <1>7 DEF Next

\* A character is in flight just while one Task is there to take it out again
\* (downloadAvatarIfNeededLocked(), its guard and its defer block).
THEOREM OneFetchAtATime == Spec => []FetchedOnce
<1>1. IInv => FetchedOnce
  BY DEF IInv
<1> QED BY Initially, Inductive, <1>1, PTL DEF Spec

-----------------------------------------------------------------------------
(* The strip.                                                                *)

\* Whoever is on the strip and announced a character that is on disk wears it.
Dressed(on) ==
    {s \in Strips : \A n \in Nicks :
        s.worn[n] \in {None, s.announced[n]} \/ s.announced[n] \notin on}

LEMMA Characters ==
  /\ \A look \in Looks : look # None
  /\ \A k \in 0..(Len(DefaultOrder) - 1) :
        /\ DefaultOrder[k + 1] \in Looks
        /\ (k + 1) % Len(DefaultOrder) \in 0..(Len(DefaultOrder) - 1)
  /\ 0 \in 0..(Len(DefaultOrder) - 1)
<1>1. DefaultOrder \in Seq(Looks) /\ DefaultOrder # <<>>
  BY DefaultsAssumption
<1>2. Len(DefaultOrder) \in Nat \ {0} /\ DOMAIN DefaultOrder = 1..Len(DefaultOrder)
  BY <1>1
<1>3. \A look \in Looks : look # None
  BY NoneAssumption DEF Looks
<1>4. ASSUME NEW k \in 0..(Len(DefaultOrder) - 1)
      PROVE  /\ DefaultOrder[k + 1] \in Looks
             /\ (k + 1) % Len(DefaultOrder) \in 0..(Len(DefaultOrder) - 1)
  <2>1. k + 1 \in DOMAIN DefaultOrder
    BY <1>2
  <2> QED BY <1>1, <1>2, <2>1
<1> QED BY <1>2, <1>3, <1>4

\* From s to t, n has been dressed, as art if that is on disk.
WornBy(on, n, art, s, t) ==
    /\ t \in Strips /\ t.announced = s.announced /\ t.worn[n] # None
    /\ t.worn[n] = art \/ art \notin on
    /\ \A p \in Nicks : p # n => t.worn[p] = s.worn[p]

LEMMA DressTypes ==
  ASSUME NEW on, NEW s \in Strips, NEW n \in Nicks, NEW art, art \in on => art \in Arts
  PROVE  WornBy(on, n, art, s, Dress(on, s, n, art))
<1> DEFINE t == Dress(on, s, n, art)
           D == DefaultOrder[s.next + 1]
<1>1. /\ s.worn \in [Nicks -> Looks \cup {None}] /\ s.announced \in [Nicks -> Arts \cup {None}]
      /\ s.next \in 0..(Len(DefaultOrder) - 1) /\ s.panels \in Seq([nick : Nicks, look : Looks])
      /\ s = [worn |-> s.worn, announced |-> s.announced, next |-> s.next, panels |-> s.panels]
  BY DEF Strips
<1>2. D \in Looks /\ Cycles(s) \in 0..(Len(DefaultOrder) - 1)
  BY <1>1, Characters DEF Cycles
<1> HIDE DEF D
<1> SUFFICES WornBy(on, n, art, s, t)
  OBVIOUS
<1>3. CASE art \in on
  <2>1. art \in Looks /\ art # None
    BY <1>3, Characters DEF Looks
  <2>2. t = [worn |-> [s.worn EXCEPT ![n] = art], announced |-> s.announced,
             next |-> s.next, panels |-> s.panels]
    BY <1>1, <1>3 DEF Dress
  <2> HIDE DEF t
  <2> QED BY <1>1, <2>1, <2>2 DEF Strips, WornBy
<1>4. CASE art \notin on
  <2>1. D # None
    BY <1>2, Characters
  <2>2. t = [worn |-> [s.worn EXCEPT ![n] = D], announced |-> s.announced,
             next |-> Cycles(s), panels |-> s.panels]
    BY <1>1, <1>4 DEF Dress, D
  <2> HIDE DEF t
  <2> QED BY <1>1, <1>2, <1>4, <2>1, <2>2 DEF Strips, WornBy
<1> QED BY <1>3, <1>4

\* The entry of a text: who is new is dressed, nobody else changes clothes.
LEMMA SaysTypes ==
  ASSUME NEW on \in SUBSET Arts, NEW s \in Strips, NEW n \in Nicks,
         NEW t, t = Says(on, s, n)
  PROVE  /\ t \in Strips /\ t.announced = s.announced
         /\ \/ t.worn = s.worn
            \/ t.worn[n] = s.announced[n] \/ s.announced[n] \notin on
         /\ \A p \in Nicks : p # n => t.worn[p] = s.worn[p]
<1> DEFINE u == EnsureParticipant(on, s, n)
           line == [nick |-> n, look |-> u.worn[n]]
<1>1. /\ u \in Strips /\ u.announced = s.announced /\ u.worn[n] # None
      /\ u.worn = s.worn \/ u.worn[n] = s.announced[n] \/ s.announced[n] \notin on
      /\ \A p \in Nicks : p # n => u.worn[p] = s.worn[p]
  <2>1. CASE s.worn[n] # None
    BY <2>1 DEF EnsureParticipant
  <2>2. CASE s.worn[n] = None
    <3>1. u = Dress(on, s, n, s.announced[n])
      BY <2>2 DEF EnsureParticipant
    <3>2. s.announced[n] \in on => s.announced[n] \in Arts
      OBVIOUS
    <3>3. WornBy(on, n, s.announced[n], s, u)
      BY <3>1, <3>2, DressTypes
    <3> HIDE DEF u
    <3> QED BY <3>3 DEF WornBy
  <2> QED BY <2>1, <2>2
<1>2. t = [u EXCEPT !.panels = Append(u.panels, line)]
  BY DEF Says
<1> HIDE DEF u
<1>3. line \in [nick : Nicks, look : Looks]
  BY <1>1 DEF Strips
<1> HIDE DEF line
<1>4. /\ u.worn \in [Nicks -> Looks \cup {None}] /\ u.announced \in [Nicks -> Arts \cup {None}]
      /\ u.next \in 0..(Len(DefaultOrder) - 1) /\ u.panels \in Seq([nick : Nicks, look : Looks])
      /\ u = [worn |-> u.worn, announced |-> u.announced, next |-> u.next, panels |-> u.panels]
  BY <1>1 DEF Strips
<1>5. Append(u.panels, line) \in Seq([nick : Nicks, look : Looks])
  BY <1>3, <1>4
<1>6. t = [worn |-> u.worn, announced |-> u.announced, next |-> u.next,
           panels |-> Append(u.panels, line)]
  BY <1>2, <1>4
<1>7. t \in Strips /\ t.worn = u.worn /\ t.announced = u.announced
  BY <1>4, <1>5, <1>6 DEF Strips
<1> QED BY <1>1, <1>7

\* From s to t, n has announced art.
AnnouncedBy(on, n, art, s, t) ==
    /\ t \in Strips
    /\ \A p \in Nicks : t.announced[p] = IF p = n THEN art ELSE s.announced[p]
    /\ t.worn[n] \in {None, art} \/ art \notin on
    /\ \A p \in Nicks : p # n => t.worn[p] = s.worn[p]

\* The entry of an announcement: who is on the strip is dressed anew.
LEMMA AppearsTypes ==
  ASSUME NEW on, NEW s \in Strips, NEW n \in Nicks, NEW art \in Arts,
         NEW t, t = AppearsAs(on, s, n, art)
  PROVE  AnnouncedBy(on, n, art, s, t)
<1> SUFFICES /\ t \in Strips
             /\ \A p \in Nicks : t.announced[p] = IF p = n THEN art ELSE s.announced[p]
             /\ t.worn[n] \in {None, art} \/ art \notin on
             /\ \A p \in Nicks : p # n => t.worn[p] = s.worn[p]
  BY DEF AnnouncedBy
<1> DEFINE u == [s EXCEPT !.announced[n] = art]
<1>1. /\ u \in Strips /\ u.worn = s.worn
      /\ \A p \in Nicks : u.announced[p] = IF p = n THEN art ELSE s.announced[p]
  BY DEF Strips
<1>2. t = IF u.worn[n] = None THEN u ELSE Dress(on, u, n, art)
  BY DEF AppearsAs
<1> HIDE DEF u
<1>3. CASE u.worn[n] = None
  BY <1>1, <1>2, <1>3
<1>4. CASE u.worn[n] # None
  <2>1. t = Dress(on, u, n, art) /\ u \in Strips
    BY <1>1, <1>2, <1>4
  <2>2. WornBy(on, n, art, u, t)
    BY <2>1, DressTypes
  <2> QED BY <1>1, <2>2 DEF WornBy
<1> QED BY <1>3, <1>4

\* What is dressed as announced stays so, whatever comes next.
LEMMA AppliedDressed ==
  ASSUME NEW on \in SUBSET Arts, NEW s \in Dressed(on), NEW entry \in Entries
  PROVE  Applied(on, s, entry) \in Dressed(on)
<1> DEFINE t == Applied(on, s, entry)
<1>1. s \in Strips /\ \A n \in Nicks :
         s.worn[n] \in {None, s.announced[n]} \/ s.announced[n] \notin on
  BY DEF Dressed
<1>2. CASE entry.is = "says"
  <2>1. entry.nick \in Nicks /\ t = Says(on, s, entry.nick)
    BY <1>2 DEF Entries, Applied
  <2> HIDE DEF t
  <2> DEFINE n == entry.nick
  <2>2. /\ t \in Strips /\ t.announced = s.announced
        /\ \/ t.worn = s.worn
           \/ t.worn[n] = s.announced[n] \/ s.announced[n] \notin on
        /\ \A p \in Nicks : p # n => t.worn[p] = s.worn[p]
    BY <1>1, <2>1, SaysTypes
  <2>3. t \in Dressed(on)
    BY <1>1, <2>2 DEF Dressed
  <2> QED BY <2>3 DEF t
<1>3. CASE entry.is # "says"
  <2> DEFINE n == entry.nick
             art == entry.art
  <2>1. n \in Nicks /\ art \in Arts /\ t = AppearsAs(on, s, n, art) /\ s \in Strips
    BY <1>1, <1>3 DEF Entries, Applied
  <2> HIDE DEF t, n, art
  <2>2. AnnouncedBy(on, n, art, s, t)
    BY <2>1, AppearsTypes
  <2>3. t \in Dressed(on)
    BY <1>1, <2>1, <2>2 DEF Dressed, AnnouncedBy
  <2> QED BY <2>3 DEF t
<1> QED BY <1>2, <1>3

-----------------------------------------------------------------------------
(* Replays, as folds.                                                        *)

StepOf(on) == [p \in Dressed(on) \X Entries |-> Applied(on, p[1], p[2])]

LEMMA StepTypes ==
  ASSUME NEW on \in SUBSET Arts
  PROVE  StepOf(on) \in [Dressed(on) \X Entries -> Dressed(on)]
<1>1. \A p \in Dressed(on) \X Entries : Applied(on, p[1], p[2]) \in Dressed(on)
  BY AppliedDressed
<1> QED BY <1>1 DEF StepOf

LEMMA BlankDressed ==
  ASSUME NEW on \in SUBSET Arts PROVE Blank \in Dressed(on)
<1>1. Blank \in Strips
  BY Characters DEF Blank, Strips
<1> QED BY <1>1 DEF Dressed, Blank

IsReplay(f, on, s, entries) ==
    f = [i \in 0..Len(entries) |->
            IF i = 0 THEN s ELSE Applied(on, f[i - 1], entries[i])]

Stages(on, s, entries) == CHOOSE f : IsReplay(f, on, s, entries)

LEMMA ReplayIsLastStage ==
  ASSUME NEW on, NEW entries
  PROVE  Replay(on, entries) = Stages(on, Blank, entries)[Len(entries)]
  BY DEF Replay, ReplayFrom, Stages, IsReplay

LEMMA ReplayIsFold ==
  ASSUME NEW on \in SUBSET Arts, NEW entries \in Seq(Entries)
  PROVE  Replay(on, entries) = Fold(StepOf(on), Blank, entries)
<1> DEFINE n == Len(entries)
           step == StepOf(on)
           f == Run(step, Blank, entries)
           g == Stages(on, Blank, entries)
<1>1. n \in Nat /\ \A i \in 1..n : entries[i] \in Entries
  OBVIOUS
<1>2. step \in [Dressed(on) \X Entries -> Dressed(on)] /\ Blank \in Dressed(on)
  BY StepTypes, BlankDressed
<1>3. \A s \in Dressed(on), e \in Entries : step[<<s, e>>] = Applied(on, s, e)
  BY DEF StepOf
<1>4. IsRun(f, step, Blank, entries, n)
  BY RunIsRun
<1> HIDE DEF n, step, f
<1>5. \A i \in 0..n : f[i] \in Dressed(on)
  BY <1>1, <1>2, <1>4, RunTypes
<1>6. ASSUME NEW i \in 0..n
      PROVE  f[i] = IF i = 0 THEN Blank ELSE Applied(on, f[i - 1], entries[i])
  <2>1. f[i] = IF i = 0 THEN Blank ELSE step[<<f[i - 1], entries[i]>>]
    BY <1>4 DEF IsRun
  <2>2. CASE i # 0
    <3>1. i - 1 \in 0..n /\ i \in 1..n
      BY <1>1, <2>2
    <3> QED BY <1>1, <1>3, <1>5, <2>1, <2>2, <3>1
  <2> QED BY <2>1, <2>2
<1>7. IsReplay(f, on, Blank, entries)
  <2>1. f = [i \in 0..n |-> f[i]]
    BY <1>4 DEF IsRun
  <2> QED BY <1>6, <2>1 DEF IsReplay, n
<1>8. IsReplay(g, on, Blank, entries)
  BY <1>7 DEF Stages
<1> HIDE DEF g
<1>9. g = [i \in 0..n |-> IF i = 0 THEN Blank ELSE Applied(on, g[i - 1], entries[i])]
  BY <1>8 DEF IsReplay, n
<1>10. g[0] = Blank /\ \A i \in Nat : i + 1 <= n => g[i + 1] = Applied(on, g[i], entries[i + 1])
  <2>1. \A i \in 0..n : g[i] = IF i = 0 THEN Blank ELSE Applied(on, g[i - 1], entries[i])
    BY <1>9
  <2>2. 0 \in 0..n
    BY <1>1
  <2>3. ASSUME NEW i \in Nat, i + 1 <= n PROVE g[i + 1] = Applied(on, g[i], entries[i + 1])
    <3>1. i + 1 \in 0..n /\ i + 1 # 0 /\ i + 1 - 1 = i
      BY <1>1, <2>3
    <3>2. g[i + 1] = Applied(on, g[i + 1 - 1], entries[i + 1])
      BY <2>1, <3>1
    <3> QED BY <3>1, <3>2
  <2> QED BY <2>1, <2>2, <2>3
<1>11. g = [i \in 0..n |-> g[i]]
  BY <1>9
<1>12. ASSUME NEW i \in Nat, i + 1 <= n, g[i] \in Dressed(on)
       PROVE  g[i + 1] = step[<<g[i], entries[i + 1]>>]
  <2>1. i + 1 \in 1..n
    BY <1>1, <1>12
  <2> QED BY <1>1, <1>3, <1>10, <1>12, <2>1
<1>13. g[n] = Fold(step, Blank, entries)
  <2> DEFINE T == Dressed(on)
  <2>1. step \in [T \X Entries -> T] /\ Blank \in T /\ g[0] = Blank
    BY <1>2, <1>10
  <2>2. g = [i \in 0..Len(entries) |-> g[i]]
    BY <1>11 DEF n
  <2>3. \A i \in Nat : i + 1 <= Len(entries) /\ g[i] \in T
                         => g[i + 1] = step[<<g[i], entries[i + 1]>>]
    BY <1>12 DEF n
  <2>5. Takes(g, T, Entries, step, Blank, entries)
    BY <2>1, <2>2, <2>3 DEF Takes
  <2> HIDE DEF T
  <2>4. g[Len(entries)] = Fold(step, Blank, entries)
    BY <2>5, FoldFollowed
  <2> QED BY <2>4 DEF n
<1> QED BY <1>13, ReplayIsLastStage DEF g, n, step

LEMMA ReplayEmpty ==
  ASSUME NEW on \in SUBSET Arts PROVE Replay(on, <<>>) = Blank
<1>1. <<>> \in Seq(Entries)
  OBVIOUS
<1> QED BY <1>1, ReplayIsFold, FoldEmpty

LEMMA ReplayDressed ==
  ASSUME NEW on \in SUBSET Arts, NEW entries \in Seq(Entries)
  PROVE  Replay(on, entries) \in Dressed(on)
<1>1. StepOf(on) \in [Dressed(on) \X Entries -> Dressed(on)] /\ Blank \in Dressed(on)
  BY StepTypes, BlankDressed
<1>2. Fold(StepOf(on), Blank, entries) \in Dressed(on)
  BY <1>1, FoldTypes
<1> QED BY <1>2, ReplayIsFold

LEMMA ReplayAppend ==
  ASSUME NEW on \in SUBSET Arts, NEW entries \in Seq(Entries), NEW e \in Entries
  PROVE  Replay(on, Append(entries, e)) = Applied(on, Replay(on, entries), e)
<1>1. Append(entries, e) \in Seq(Entries)
  OBVIOUS
<1>2. Replay(on, Append(entries, e)) = Fold(StepOf(on), Blank, Append(entries, e))
  BY <1>1, ReplayIsFold
<1>3. Replay(on, entries) = Fold(StepOf(on), Blank, entries) /\ Replay(on, entries) \in Dressed(on)
  BY ReplayIsFold, ReplayDressed
<1>4. Fold(StepOf(on), Blank, Append(entries, e)) = StepOf(on)[<<Replay(on, entries), e>>]
  BY <1>3, FoldAppend
<1> QED BY <1>2, <1>3, <1>4 DEF StepOf

-----------------------------------------------------------------------------
(* The strip, as events, fetches and reflows change it.                      *)

Landed == \A d \in downloads : d.at = "landed" => d.art \in files

StripInv == TypeOK /\ Landed /\ DressedAsAnnounced /\ StripIsReplay

LEMMA AppliedTypes ==
  ASSUME NEW on \in SUBSET Arts, NEW s \in Strips, NEW entry \in Entries
  PROVE  Applied(on, s, entry) \in Strips
<1>1. CASE entry.is = "says"
  <2>1. entry.nick \in Nicks /\ Applied(on, s, entry) = Says(on, s, entry.nick)
    BY <1>1 DEF Entries, Applied
  <2> DEFINE t == Applied(on, s, entry)
             n == entry.nick
  <2>2. n \in Nicks /\ t = Says(on, s, n)
    BY <2>1
  <2> HIDE DEF t, n
  <2>3. t \in Strips
    BY <2>2, SaysTypes
  <2> QED BY <2>3 DEF t
<1>2. CASE entry.is # "says"
  <2>1. /\ entry.nick \in Nicks /\ entry.art \in Arts
        /\ Applied(on, s, entry) = AppearsAs(on, s, entry.nick, entry.art)
    BY <1>2 DEF Entries, Applied
  <2>2. AnnouncedBy(on, entry.nick, entry.art, s, Applied(on, s, entry))
    BY <2>1, AppearsTypes
  <2> QED BY <2>2 DEF AnnouncedBy
<1> QED BY <1>1, <1>2

\* What is logged in the active room is drawn, so the strip stays the replay.
LEMMA LogsAndDraws ==
  ASSUME TypeOK, StripIsReplay, NEW R \in SUBSET Rooms, NEW entry \in Entries,
         Logs(R, entry), Draws(R, entry), UNCHANGED <<activeRoom, files, drifted>>
  PROVE  /\ transcript' \in [Rooms -> Seq(Entries)] /\ strip' \in Strips
         /\ events' \in 0..MaxEvents
         /\ StripIsReplay'
<1>1. /\ events' \in 0..MaxEvents
      /\ transcript' = [r \in Rooms |-> IF r \in R THEN Append(transcript[r], entry)
                                                   ELSE transcript[r]]
  BY BoundsAssumption DEF Logs, TypeOK
<1>2. /\ transcript \in [Rooms -> Seq(Entries)] /\ activeRoom \in Rooms
      /\ files \in SUBSET Arts /\ strip \in Strips
  BY DEF TypeOK
<1>3. ASSUME NEW r \in Rooms
      PROVE  (IF r \in R THEN Append(transcript[r], entry) ELSE transcript[r]) \in Seq(Entries)
  <2>1. transcript[r] \in Seq(Entries)
    BY <1>2
  <2>2. Append(transcript[r], entry) \in Seq(Entries)
    BY <2>1
  <2> QED BY <2>1, <2>2
<1>4. transcript' \in [Rooms -> Seq(Entries)]
  BY <1>1, <1>3
<1>5. CASE activeRoom \in R
  <2>1. strip' = Applied(files, strip, entry)
    BY <1>5 DEF Draws
  <2>2. strip' \in Strips
    BY <1>2, <2>1, AppliedTypes
  <2> DEFINE log == transcript[activeRoom]
  <2>3. log \in Seq(Entries) /\ transcript'[activeRoom'] = Append(log, entry)
    BY <1>1, <1>2, <1>5
  <2> HIDE DEF log
  <2>4. ASSUME ~drifted PROVE strip' = Replay(files', transcript'[activeRoom'])
    <3>1. strip = Replay(files, log)
      BY <2>4 DEF StripIsReplay, log
    <3>2. Replay(files, Append(log, entry)) = Applied(files, Replay(files, log), entry)
      BY <1>2, <2>3, ReplayAppend
    <3> QED BY <2>1, <2>3, <3>1, <3>2
  <2> QED BY <1>1, <1>4, <2>2, <2>4 DEF StripIsReplay
<1>6. CASE activeRoom \notin R
  <2>1. strip' = strip /\ transcript'[activeRoom] = transcript[activeRoom]
    BY <1>1, <1>2, <1>6 DEF Draws
  <2> QED BY <1>1, <1>2, <1>4, <2>1 DEF StripIsReplay
<1> QED BY <1>5, <1>6

LEMMA SpeaksStrip ==
  ASSUME StripInv, NEW n \in Nicks, NEW r \in Rooms, Speaks(n, r)
  PROVE  StripInv'
<1> DEFINE entry == [is |-> "says", nick |-> n]
<1>1. /\ entry \in Entries /\ entry.is = "says" /\ entry.nick = n
      /\ Logs({r}, entry) /\ Draws({r}, entry)
      /\ UNCHANGED <<activeRoom, files, fetches, rebuilds, misdressed, drifted>>
  BY DEF Speaks, Entries
<1> HIDE DEF entry
<1>2. /\ transcript' \in [Rooms -> Seq(Entries)] /\ strip' \in Strips
      /\ events' \in 0..MaxEvents
      /\ StripIsReplay'
  <2>1. {r} \in SUBSET Rooms
    OBVIOUS
  <2> QED BY <1>1, <2>1, LogsAndDraws DEF StripInv
<1>3. TypeOK' /\ Landed'
  BY <1>1, <1>2 DEF StripInv, TypeOK, Landed, fetches
<1>4. \/ strip' = strip
      \/ /\ strip'.announced = strip.announced
         /\ \/ strip'.worn = strip.worn
            \/ strip'.worn[n] = strip.announced[n] \/ strip.announced[n] \notin files
         /\ \A p \in Nicks : p # n => strip'.worn[p] = strip.worn[p]
  <2>1. files \in SUBSET Arts /\ strip \in Strips
    BY DEF StripInv, TypeOK
  <2>2. strip' = strip \/ strip' = Says(files, strip, n)
    BY <1>1 DEF Draws, Applied
  <2> QED BY <2>1, <2>2, SaysTypes
<1>5. DressedAsAnnounced'
  BY <1>1, <1>4 DEF StripInv, DressedAsAnnounced, fetches
<1> QED BY <1>2, <1>3, <1>5 DEF StripInv

LEMMA AnnouncesStrip ==
  ASSUME StripInv, NEW n \in Nicks, NEW art \in Arts, NEW R \in Scopes, Announces(n, art, R)
  PROVE  StripInv'
<1> DEFINE entry == [is |-> "appears", nick |-> n, art |-> art]
<1>1. /\ entry \in Entries /\ entry.is = "appears" /\ entry.nick = n /\ entry.art = art
      /\ Logs(R, entry) /\ Draws(R, entry)
      /\ misdressed' = IF activeRoom \in R THEN misdressed \ {n} ELSE misdressed
      /\ DownloadIfNeeded(n, art) \/ UNCHANGED fetches
      /\ UNCHANGED <<activeRoom, files, rebuilds, drifted>>
      /\ R \in SUBSET Rooms
  BY DEF Announces, Entries, Scopes
<1> HIDE DEF entry
<1>2. /\ transcript' \in [Rooms -> Seq(Entries)] /\ strip' \in Strips
      /\ events' \in 0..MaxEvents
      /\ StripIsReplay'
  BY <1>1, LogsAndDraws DEF StripInv
<1>3. /\ downloads \subseteq downloads' /\ downloads' \subseteq Tasks
      /\ inFlightAvatarDownloads' \subseteq Arts
      /\ \A d \in downloads' : d.at = "landed" => d \in downloads
  BY <1>1 DEF StripInv, TypeOK, DownloadIfNeeded, Tasks, fetches
<1>4. TypeOK' /\ Landed'
  BY <1>1, <1>2, <1>3 DEF StripInv, TypeOK, Landed
<1>5. \/ strip' = strip /\ activeRoom \notin R
      \/ /\ activeRoom \in R
         /\ \A p \in Nicks : strip'.announced[p] = IF p = n THEN art ELSE strip.announced[p]
         /\ strip'.worn[n] \in {None, art} \/ art \notin files
         /\ \A p \in Nicks : p # n => strip'.worn[p] = strip.worn[p]
  <2>1. strip \in Strips
    BY DEF StripInv, TypeOK
  <2>2. CASE activeRoom \notin R
    BY <1>1, <2>2 DEF Draws
  <2>3. CASE activeRoom \in R
    <3>1. strip' = AppearsAs(files, strip, n, art)
      BY <1>1, <2>3 DEF Draws, Applied
    <3>2. AnnouncedBy(files, n, art, strip, strip')
      BY <2>1, <3>1, AppearsTypes
    <3> QED BY <2>3, <3>2 DEF AnnouncedBy
  <2> QED BY <2>2, <2>3
<1>6. DressedAsAnnounced'
  BY <1>1, <1>3, <1>5 DEF StripInv, DressedAsAnnounced
<1> QED BY <1>2, <1>4, <1>6 DEF StripInv

LEMMA GoesTypes ==
  ASSUME TypeOK, NEW d \in downloads, NEW stage \in {"fetching", "landed", "over"},
         Goes(d, stage)
  PROVE  /\ downloads' \subseteq Tasks /\ d \in Tasks
         /\ \A e \in downloads : e # d => e \in downloads'
         /\ \E m \in downloads' : /\ m.nick = d.nick /\ m.art = d.art /\ m.at = stage
                                  /\ \A e \in downloads' : e # m => e \in downloads
<1> DEFINE m == [d EXCEPT !.at = stage]
<1>1. d \in Tasks
  BY DEF TypeOK
<1>2. m \in Tasks /\ m.nick = d.nick /\ m.art = d.art /\ m.at = stage
  BY <1>1 DEF Tasks
<1>3. downloads' = (downloads \ {d}) \cup {m}
  BY DEF Goes
<1> HIDE DEF m
<1> QED BY <1>1, <1>2, <1>3 DEF TypeOK

LEMMA FetchEndsStrip ==
  ASSUME StripInv, NEW d \in downloads, FetchEnds(d)
  PROVE  StripInv'
<1>1. /\ d.at = "fetching"
      /\ UNCHANGED <<peers, activeRoom, strip, inFlightAvatarDownloads, rebuilds>>
  BY DEF FetchEnds
<1>2. CASE /\ Goes(d, "landed")
           /\ files' = files \cup {d.art} /\ drifted' = TRUE
           /\ misdressed' = misdressed \cup
                {p \in Nicks \ {d.nick} : strip.worn[p] # None /\ strip.announced[p] = d.art}
  <2>1. /\ downloads' \subseteq Tasks /\ d \in Tasks
        /\ \A e \in downloads : e # d => e \in downloads'
        /\ \E m \in downloads' : /\ m.nick = d.nick /\ m.art = d.art /\ m.at = "landed"
                                 /\ \A e \in downloads' : e # m => e \in downloads
    BY <1>2, GoesTypes DEF StripInv
  <2>2. TypeOK'
    BY <1>1, <1>2, <2>1 DEF StripInv, TypeOK, peers, Tasks
  <2>3. Landed'
    BY <1>2, <2>1 DEF StripInv, Landed
  <2>4. DressedAsAnnounced'
    BY <1>1, <1>2, <2>1 DEF StripInv, DressedAsAnnounced
  <2>5. StripIsReplay'
    BY <1>2 DEF StripIsReplay
  <2> QED BY <2>2, <2>3, <2>4, <2>5 DEF StripInv
<1>3. CASE Goes(d, "over") /\ UNCHANGED <<files, misdressed, drifted>>
  <2>1. /\ downloads' \subseteq Tasks
        /\ \A e \in downloads : e # d => e \in downloads'
        /\ \E m \in downloads' : /\ m.nick = d.nick /\ m.art = d.art /\ m.at = "over"
                                 /\ \A e \in downloads' : e # m => e \in downloads
    BY <1>3, GoesTypes DEF StripInv
  <2>2. TypeOK'
    BY <1>1, <1>3, <2>1 DEF StripInv, TypeOK, peers
  <2>3. Landed'
    BY <1>3, <2>1 DEF StripInv, Landed
  <2>4. DressedAsAnnounced'
    BY <1>1, <1>3, <2>1 DEF StripInv, DressedAsAnnounced
  <2>5. StripIsReplay'
    BY <1>1, <1>3 DEF StripInv, StripIsReplay, peers
  <2> QED BY <2>2, <2>3, <2>4, <2>5 DEF StripInv
<1> QED BY <1>2, <1>3 DEF FetchEnds

\* As long as nothing has drifted, whoever the closure dresses wears that already.
LEMMA LandedRunsStrip ==
  ASSUME StripInv, NEW d \in downloads, LandedRuns(d)
  PROVE  StripInv'
<1>1. /\ d.at = "landed" /\ Goes(d, "over")
      /\ UNCHANGED <<peers, activeRoom, files, inFlightAvatarDownloads, rebuilds>>
  BY DEF LandedRuns
<1>2. /\ downloads' \subseteq Tasks /\ d \in Tasks
      /\ \A e \in downloads : e # d => e \in downloads'
      /\ \E m \in downloads' : /\ m.nick = d.nick /\ m.art = d.art /\ m.at = "over"
                               /\ \A e \in downloads' : e # m => e \in downloads
  BY <1>1, GoesTypes DEF StripInv
<1>3. Landed' /\ d.art \in files /\ d.nick \in Nicks /\ d.art \in Arts
  BY <1>1, <1>2 DEF StripInv, Landed, Tasks
<1>4. CASE strip.worn[d.nick] = None
  <2>1. UNCHANGED <<strip, misdressed, drifted>>
    BY <1>4 DEF LandedRuns
  <2>2. TypeOK'
    BY <1>1, <1>2, <2>1 DEF StripInv, TypeOK, peers
  <2>3. DressedAsAnnounced'
    BY <1>1, <1>2, <1>4, <2>1 DEF StripInv, DressedAsAnnounced
  <2>4. StripIsReplay'
    BY <1>1, <2>1 DEF StripInv, StripIsReplay, peers
  <2> QED BY <1>3, <2>2, <2>3, <2>4 DEF StripInv
<1>5. CASE strip.worn[d.nick] # None
  <2>1. /\ strip' = [strip EXCEPT !.worn[d.nick] = d.art]
        /\ IF strip.announced[d.nick] = d.art
           THEN misdressed' = misdressed \ {d.nick} /\ UNCHANGED drifted
           ELSE misdressed' = misdressed \cup {d.nick} /\ drifted' = TRUE
    BY <1>5 DEF LandedRuns
  <2>2. /\ strip.worn \in [Nicks -> Looks \cup {None}]
        /\ strip = [worn |-> strip.worn, announced |-> strip.announced, next |-> strip.next,
                    panels |-> strip.panels]
        /\ strip \in Strips
    BY DEF StripInv, TypeOK, Strips
  <2>3. /\ strip' \in Strips /\ strip'.announced = strip.announced
        /\ strip'.worn = [strip.worn EXCEPT ![d.nick] = d.art]
    BY <1>3, <2>1, <2>2 DEF Strips, Looks
  <2>4. TypeOK'
    BY <1>1, <1>2, <1>3, <2>1, <2>3 DEF StripInv, TypeOK, peers
  <2>5. DressedAsAnnounced'
    <3>1. \A p \in Nicks : strip'.worn[p] = IF p = d.nick THEN d.art ELSE strip.worn[p]
      BY <2>2, <2>3
    <3> QED BY <1>1, <1>2, <1>3, <2>1, <2>3, <3>1 DEF StripInv, DressedAsAnnounced
  <2>6. StripIsReplay'
    <3> SUFFICES ASSUME ~drifted' PROVE strip' = Replay(files', transcript'[activeRoom'])
      BY DEF StripIsReplay
    <3>1. strip.announced[d.nick] = d.art /\ ~drifted
      BY <2>1
    <3>2. /\ transcript[activeRoom] \in Seq(Entries) /\ files \in SUBSET Arts
          /\ strip = Replay(files, transcript[activeRoom])
      BY <3>1 DEF StripInv, TypeOK, StripIsReplay
    <3>3. strip \in Dressed(files)
      BY <3>2, ReplayDressed
    <3>4. strip.worn[d.nick] = d.art
      BY <1>3, <1>5, <3>1, <3>3 DEF Dressed
    <3>5. strip' = strip
      <4>1. [strip.worn EXCEPT ![d.nick] = d.art] = strip.worn
        BY <2>2, <3>4
      <4> QED BY <2>1, <2>2, <4>1
    <3> QED BY <1>1, <3>2, <3>5 DEF peers
  <2> QED BY <1>3, <2>4, <2>5, <2>6 DEF StripInv
<1> QED BY <1>4, <1>5

LEMMA DeferRunsStrip ==
  ASSUME StripInv, NEW d \in downloads, DeferRuns(d)
  PROVE  StripInv'
<1>1. /\ d.at = "over" /\ downloads' = downloads \ {d}
      /\ inFlightAvatarDownloads' = inFlightAvatarDownloads \ {d.art}
      /\ UNCHANGED <<peers, activeRoom, strip, files, rebuilds, misdressed, drifted>>
  BY DEF DeferRuns, Releases
<1>2. TypeOK' /\ Landed' /\ DressedAsAnnounced' /\ StripIsReplay'
  BY <1>1 DEF StripInv, TypeOK, Landed, DressedAsAnnounced, StripIsReplay, peers
<1> QED BY <1>2 DEF StripInv

LEMMA RebuildStripStrip ==
  ASSUME StripInv, NEW r \in Rooms, RebuildStrip(r)
  PROVE  StripInv'
<1>1. /\ rebuilds' \in 0..MaxRebuilds /\ activeRoom' = r
      /\ strip' = Replay(files, transcript[r])
      /\ misdressed' = {} /\ drifted' = FALSE
      /\ UNCHANGED <<peers, files, fetches>>
  BY BoundsAssumption DEF RebuildStrip, Rebuilt, StripInv, TypeOK
<1>2. transcript[r] \in Seq(Entries) /\ files \in SUBSET Arts
  BY DEF StripInv, TypeOK
<1>3. strip' \in Dressed(files)
  BY <1>1, <1>2, ReplayDressed
<1>4. TypeOK'
  BY <1>1, <1>3 DEF StripInv, TypeOK, Dressed, peers, fetches
<1>5. Landed' /\ DressedAsAnnounced'
  BY <1>1, <1>3 DEF StripInv, Landed, DressedAsAnnounced, Dressed, fetches
<1>6. StripIsReplay'
  BY <1>1 DEF StripIsReplay, peers
<1> QED BY <1>4, <1>5, <1>6 DEF StripInv

LEMMA StripInitially == Init => StripInv
<1> SUFFICES ASSUME Init PROVE StripInv
  OBVIOUS
<1>1. {} \in SUBSET Arts /\ Blank \in Dressed({})
  BY BlankDressed
<1>2. TypeOK
  <2>1. strip \in Strips
    BY <1>1 DEF Init, Dressed
  <2>2. transcript \in [Rooms -> Seq(Entries)]
    <3>1. <<>> \in Seq(Entries)
      OBVIOUS
    <3> QED BY <3>1 DEF Init
  <2>3. events \in 0..MaxEvents /\ rebuilds \in 0..MaxRebuilds
    BY BoundsAssumption DEF Init
  <2> QED BY <2>1, <2>2, <2>3 DEF Init, TypeOK
<1>3. Landed /\ DressedAsAnnounced
  BY <1>1 DEF Init, Landed, DressedAsAnnounced, Dressed
<1>4. StripIsReplay
  BY <1>1, ReplayEmpty DEF Init, StripIsReplay
<1> QED BY <1>2, <1>3, <1>4 DEF StripInv

LEMMA StripInductive == StripInv /\ [Next]_vars => StripInv'
<1> SUFFICES ASSUME StripInv, [Next]_vars PROVE StripInv'
  OBVIOUS
<1>1. CASE UNCHANGED vars
  BY <1>1 DEF vars, peers, fetches, StripInv, TypeOK, Landed, DressedAsAnnounced, StripIsReplay
<1> QED BY <1>1, SpeaksStrip, AnnouncesStrip, FetchEndsStrip, LandedRunsStrip, DeferRunsStrip,
           RebuildStripStrip DEF Next

LEMMA StripInvariance == Spec => []StripInv
  BY StripInitially, StripInductive, PTL DEF Spec

\* The strip and the resolver's place in the cycle are as ProtocolStripBridge keeps
\* them: every index into the defaults is one of theirs (resolve(avatarName:)).
THEOREM TypeCorrect == Spec => []TypeOK
<1>1. StripInv => TypeOK
  BY DEF StripInv
<1> QED BY StripInvariance, <1>1, PTL

\* A peer wears what it announced as soon as that is on disk and its closure has run,
\* but for the two ways a fetch can dress it amiss (appearsAs, avatarDownloaded).
THEOREM PeersWearWhatTheyAnnounced == Spec => []DressedAsAnnounced
<1>1. StripInv => DressedAsAnnounced
  BY DEF StripInv
<1> QED BY StripInvariance, <1>1, PTL

\* A reflow draws the strip that is there, as long as no fetch has come between
\* (rebuildStripLocked(): the replay and the live strip take the same steps).
THEOREM ReflowDrawsTheSame == Spec => []StripIsReplay
<1>1. StripInv => StripIsReplay
  BY DEF StripInv
<1> QED BY StripInvariance, <1>1, PTL
=============================================================================
