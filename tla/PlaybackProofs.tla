--------------------------- MODULE PlaybackProofs ----------------------------
(***************************************************************************)
(* That the properties of TranscriptPlayback hold for every transcript     *)
(* whose cues end no earlier than they begin.                              *)
(***************************************************************************)
EXTENDS TranscriptPlayback, FiniteSetTheorems, TLAPS

\* The types that the argument needs.
Types ==
  /\ segments \in SUBSET Cues /\ found \in SUBSET Cues
  /\ position \in 0 .. Duration
  /\ autoScroll \in BOOLEAN /\ disturbed \in BOOLEAN

\* Unless the list was disturbed, at most one cue is highlighted, the ref object has it,
\* and the list is at the cue it was scrolled to last.
ListOK ==
  /\ \A c \in Cues : Highlighted = {c} => ref \in {0, c}
  /\ ~autoScroll => prevActive = 0
  /\ ~disturbed =>
       /\ Highlighted = {} \/ \E c \in Cues : Highlighted = {c}
       /\ \A c \in Cues : Highlighted = {c} => ref = c /\ (autoScroll => prevActive = c)
       /\ autoScroll /\ prevActive # 0 => scrolled = prevActive

\* The player stays where the last click has sent it, but at the end.
ClickOK ==
  clicked # 0 => clicked \in segments /\ (from[clicked] < Duration => position = from[clicked])

IInv == Types /\ ListOK /\ ClickOK

-----------------------------------------------------------------------------
(* Sets of cues                                                            *)

\* First and last of one cue, and of none.
LEMMA OneCue ==
  /\ First({}) = 0 /\ Last({}) = 0
  /\ \A c \in Cues : c # 0 /\ First({c}) = c /\ Last({c}) = c
<1>1. \A c \in Cues : c \in Nat /\ c # 0
  BY PlaybackAssumption
<1>2. ASSUME NEW c \in Nat PROVE Min({c}) = c /\ Max({c}) = c
  <2>1. c <= c /\ c >= c OBVIOUS
  <2>2. Min({c}) = c BY <2>1 DEF Min
  <2>3. Max({c}) = c BY <2>1 DEF Max
  <2> QED BY <2>2, <2>3
<1> QED BY <1>1, <1>2 DEF First, Last

\* The first of some cues is the one that none comes before.
LEMMA FirstCue ==
  ASSUME NEW S \in SUBSET Cues, NEW c \in S, \A d \in S : ~(d < c)
  PROVE  First(S) = c
<1>1. S \subseteq Nat
  BY PlaybackAssumption
<1>2. \A d \in S : c <= d
  BY <1>1
<1>3. ASSUME NEW d \in S, \A e \in S : d <= e PROVE d = c
  <2>1. d <= c /\ c <= d /\ d \in Nat /\ c \in Nat BY <1>1, <1>2, <1>3
  <2> QED BY <2>1
<1>4. Min(S) = c
  BY <1>2, <1>3 DEF Min
<1> QED BY <1>4 DEF First

\* Where no more than one cue is counted there is none or one.
LEMMA FewCues ==
  ASSUME NEW S \in SUBSET Cues, ~(Cardinality(S) > 1)
  PROVE  S = {} \/ \E c \in Cues : S = {c}
<1>1. IsFiniteSet(S)
  BY FS_Subset, PlaybackAssumption
<1>2. Cardinality(S) \in Nat
  BY <1>1, FS_CardinalityType
<1>3. Cardinality(S) = 0 \/ Cardinality(S) = 1
  BY <1>2
<1> QED BY <1>1, <1>3, FS_EmptySet, FS_Singleton

\* What is highlighted is a set of cues.
LEMMA HighlightedCues ==
  /\ Types => Highlighted \in SUBSET Cues
  /\ Types' => Highlighted' \in SUBSET Cues
BY DEF Types, Highlighted, Spoken, filteredSegments

-----------------------------------------------------------------------------
(* Rendering                                                               *)

\* Once rendered, the list is where it should be, whatever has changed.
LEMMA RenderedKeeps ==
  ASSUME Types, ListOK, Types', Rendered
  PROVE  ListOK'
<1> DEFINE before == Highlighted
           after == Highlighted'
<1>1. before \in SUBSET Cues /\ after \in SUBSET Cues
  BY HighlightedCues
<1>2. ref' = IF after \ before # {} THEN Last(after \ before) ELSE IF before \ after # {} THEN 0 ELSE ref
  BY DEF Rendered, Committed
<1>3. activeSegment' = First(after)
  BY DEF activeSegment
<1>4. prevActive' = IF ~autoScroll' THEN 0 ELSE IF First(after) # 0 THEN First(after) ELSE prevActive
  BY <1>3 DEF Rendered, Remembered
<1>5. \A c \in Cues : before = {c} => ref \in {0, c}
  BY DEF ListOK
<1> HIDE DEF before, after
<1>6. ASSUME NEW c \in Cues, after = {c} PROVE ref' \in {0, c}
  <2>1. CASE after \ before # {}
    <3>1. after \ before = {c} BY <1>6, <2>1
    <3> QED BY <1>2, <2>1, <3>1, OneCue
  <2>2. CASE after \ before = {} /\ before \ after # {} BY <1>2, <2>2
  <2>3. CASE after \ before = {} /\ before \ after = {}
    <3>1. before = {c} BY <1>6, <2>3
    <3> QED BY <1>2, <1>5, <2>3, <3>1
  <2> QED BY <2>1, <2>2, <2>3
<1>7. ASSUME ~disturbed'
      PROVE  /\ after = {} \/ \E c \in Cues : after = {c}
             /\ \A c \in Cues : after = {c} => ref' = c /\ (autoScroll' => prevActive' = c)
             /\ autoScroll' /\ prevActive' # 0 => scrolled' = prevActive'
  <2>1. ~(Cardinality(after) > 1) /\ (Scrolls \/ (~disturbed /\ ~Scrolls))
    BY <1>7 DEF Rendered, after
  <2>2. after = {} \/ \E c \in Cues : after = {c}
    BY <1>1, <2>1, FewCues
  <2>3. \A c \in Cues : after = {c} => (autoScroll' => prevActive' = c)
    BY <1>4, OneCue
  <2>4. CASE Scrolls
    <3>1. autoScroll' /\ First(after) # 0 /\ ref' # 0 /\ scrolled' = ref'
      BY <1>3, <2>4 DEF Rendered, Scrolls
    <3>2. PICK c \in Cues : after = {c}
      BY <2>2, <3>1, OneCue
    <3>3. ref' = c /\ prevActive' = c
      BY <1>6, <2>3, <3>1, <3>2
    <3> QED BY <2>2, <3>1, <3>2, <3>3
  <2>5. CASE ~disturbed /\ ~Scrolls
    <3>1. /\ before = {} \/ \E c \in Cues : before = {c}
          /\ \A c \in Cues : before = {c} => ref = c
          /\ autoScroll /\ prevActive # 0 => scrolled = prevActive
          /\ ~autoScroll => prevActive = 0
      BY <2>5 DEF ListOK, before
    <3>2. scrolled' = scrolled
      BY <2>5 DEF Rendered
    <3>3. ASSUME NEW c \in Cues, after = {c} PROVE ref' = c
      <4>1. CASE after \ before # {}
        <5>1. after \ before = {c} BY <3>3, <4>1
        <5> QED BY <1>2, <4>1, <5>1, OneCue
      <4>2. CASE after \ before = {}
        <5>1. before = {c} BY <3>1, <3>3, <4>2
        <5>2. before \ after = {} BY <3>3, <5>1
        <5> QED BY <1>2, <3>1, <4>2, <5>1, <5>2
      <4> QED BY <4>1, <4>2
    <3>4. ASSUME autoScroll', prevActive' # 0 PROVE scrolled' = prevActive'
      <4>1. CASE after = {}
        <5>1. prevActive' = prevActive BY <1>4, <3>4, <4>1, OneCue
        <5> QED BY <3>1, <3>2, <3>4, <5>1
      <4>2. ASSUME NEW c \in Cues, after = {c} PROVE scrolled' = prevActive'
        <5>1. prevActive' = c /\ ref' = c /\ c # 0 /\ First(after) = c
          BY <2>3, <3>3, <3>4, <4>2, OneCue
        <5>2. c = prevActive
          BY <1>3, <2>5, <3>4, <5>1 DEF Scrolls
        <5> QED BY <3>1, <3>2, <5>1, <5>2
      <4> QED BY <2>2, <4>1, <4>2
    <3> QED BY <2>2, <2>3, <3>3, <3>4
  <2> QED BY <2>1, <2>4, <2>5
<1>8. ~autoScroll' => prevActive' = 0
  BY <1>4
<1> QED BY <1>6, <1>7, <1>8 DEF ListOK, after

\* What changes neither the list nor what it is rendered from leaves it so.
LEMMA UntouchedKeeps ==
  ASSUME ListOK, UNCHANGED <<segments, currentTime, list>>
  PROVE  ListOK'
BY DEF ListOK, list, Highlighted, Spoken, filteredSegments

-----------------------------------------------------------------------------
(* The player                                                              *)

\* Told to play, the element is within the video, and where it was sent but at the end.
LEMMA PlayFromWithin ==
  ASSUME NEW time \in Int, PlayFrom(time)
  PROVE  /\ position' \in 0 .. Duration
         /\ time \in Nat /\ time < Duration => position' = time
BY PlaybackAssumption DEF PlayFrom

\* A step of the player leaves the list at the first highlighted cue, and the position
\* at the cue clicked last.
LEMMA PlayerKeeps == ASSUME IInv, PlayerStep PROVE IInv'
<1>1. Duration \in Nat
  BY PlaybackAssumption
<1>2. CASE Advance
  <2>1. Types' BY <1>1, <1>2 DEF IInv, Types, Advance, list
  <2>2. ListOK' BY <1>2, UntouchedKeeps DEF IInv, Advance
  <2>3. ClickOK' BY <1>2 DEF ClickOK, Advance
  <2> QED BY <2>1, <2>2, <2>3 DEF IInv
<1>3. CASE handleTimeUpdate
  <2>1. Types' BY <1>3 DEF IInv, Types, handleTimeUpdate, Rendered
  <2>2. ListOK' BY <1>3, <2>1, RenderedKeeps DEF IInv, handleTimeUpdate
  <2>3. ClickOK' BY <1>3 DEF IInv, ClickOK, handleTimeUpdate
  <2> QED BY <2>1, <2>2, <2>3 DEF IInv
<1>4. CASE PlayPause
  <2>1. position' \in 0 .. Duration
    BY <1>4, PlayFromWithin DEF IInv, Types, PlayPause
  <2>2. Types' BY <1>4, <2>1 DEF IInv, Types, PlayPause, list
  <2>3. ListOK' BY <1>4, UntouchedKeeps DEF IInv, PlayPause
  <2>4. ClickOK' BY <1>4 DEF IInv, ClickOK, PlayPause
  <2> QED BY <2>2, <2>3, <2>4 DEF IInv
<1>5. CASE NewSource
  <2>1. Types' BY <1>1, <1>5 DEF IInv, Types, NewSource, list
  <2>2. ListOK' BY <1>5, UntouchedKeeps DEF IInv, NewSource
  <2>3. ClickOK' BY <1>5 DEF ClickOK, NewSource
  <2> QED BY <2>1, <2>2, <2>3 DEF IInv
<1>6. ASSUME NEW c \in Cues, handleSeek(c) PROVE IInv'
  <2>1. from[c] \in 0 .. Duration /\ from[c] \in Int /\ from[c] \in Nat
    BY PlaybackAssumption
  <2>2. position' \in 0 .. Duration /\ (from[c] < Duration => position' = from[c])
    BY <1>6, <2>1, PlayFromWithin DEF handleSeek
  <2>3. Types' BY <1>6, <2>2 DEF IInv, Types, handleSeek, Rendered
  <2>4. ListOK' BY <1>6, <2>3, RenderedKeeps DEF IInv, handleSeek
  <2>5. ClickOK' BY <1>6, <2>2 DEF ClickOK, handleSeek, filteredSegments
  <2> QED BY <2>3, <2>4, <2>5 DEF IInv
<1>7. ASSUME NEW delta \in Skips, skipByDelta(delta) PROVE IInv'
  <2>1. position + delta \in Int
    BY PlaybackAssumption DEF IInv, Types
  <2>2. position' \in 0 .. Duration
    BY <1>7, <2>1, PlayFromWithin DEF skipByDelta
  <2>3. Types' BY <1>7, <2>2 DEF IInv, Types, skipByDelta, list
  <2>4. ListOK' BY <1>7, UntouchedKeeps DEF IInv, skipByDelta
  <2>5. ClickOK' BY <1>7 DEF ClickOK, skipByDelta
  <2> QED BY <2>3, <2>4, <2>5 DEF IInv
<1> QED BY <1>2, <1>3, <1>4, <1>5, <1>6, <1>7 DEF PlayerStep

-----------------------------------------------------------------------------
(* The list                                                                *)

\* So does a step of the list.
LEMMA ListKeeps == ASSUME IInv, ListStep PROVE IInv'
<1>1. CASE SegmentsArrive
  <2>1. Types' BY <1>1 DEF IInv, Types, SegmentsArrive, player, Rendered
  <2>2. ListOK' BY <1>1, <2>1, RenderedKeeps DEF IInv, SegmentsArrive
  <2>3. ClickOK' BY <1>1 DEF IInv, Types, ClickOK, SegmentsArrive, player
  <2> QED BY <2>1, <2>2, <2>3 DEF IInv
<1>2. CASE toggleAutoScroll
  <2>1. Types' BY <1>2 DEF IInv, Types, toggleAutoScroll, player, Rendered
  <2>2. ListOK' BY <1>2, <2>1, RenderedKeeps DEF IInv, toggleAutoScroll
  <2>3. ClickOK' BY <1>2 DEF IInv, ClickOK, toggleAutoScroll, player
  <2> QED BY <2>1, <2>2, <2>3 DEF IInv
<1>3. CASE UserScrolls
  <2>1. Types' BY <1>3 DEF IInv, Types, UserScrolls, player
  <2>2. ListOK' BY <1>3 DEF IInv, ListOK, UserScrolls, player, Highlighted, Spoken, filteredSegments
  <2>3. ClickOK' BY <1>3 DEF IInv, ClickOK, UserScrolls, player
  <2> QED BY <2>1, <2>2, <2>3 DEF IInv
<1>4. ASSUME NEW cues \in SUBSET Cues, setSearchQuery(cues) PROVE IInv'
  <2>1. Types' BY <1>4 DEF IInv, Types, setSearchQuery, player, Rendered
  <2>2. ListOK' BY <1>4, <2>1, RenderedKeeps DEF IInv, setSearchQuery
  <2>3. ClickOK' BY <1>4 DEF IInv, ClickOK, setSearchQuery, player
  <2> QED BY <2>1, <2>2, <2>3 DEF IInv
<1> QED BY <1>1, <1>2, <1>3, <1>4 DEF ListStep

-----------------------------------------------------------------------------
(* The invariant                                                           *)

\* It holds at first.
LEMMA InitHolds == Init => IInv
<1> SUFFICES ASSUME Init PROVE IInv
  OBVIOUS
<1>1. Types
  BY PlaybackAssumption DEF Init, Types
<1>3. ~disturbed => Highlighted = {} \/ \E c \in Cues : Highlighted = {c}
  <2>1. ~disturbed => ~(Cardinality(Highlighted) > 1) BY DEF Init
  <2> QED BY <1>1, <2>1, HighlightedCues, FewCues
<1>4. \A c \in Cues : Highlighted = {c} => ref = c /\ prevActive = c
  BY OneCue DEF Init, activeSegment
<1>5. Highlighted = {} => prevActive = 0
  BY OneCue DEF Init, activeSegment
<1>6. ListOK
  BY <1>3, <1>4, <1>5 DEF Init, ListOK
<1>7. ClickOK
  BY DEF Init, ClickOK
<1> QED BY <1>1, <1>6, <1>7 DEF IInv

\* Every step keeps it.
LEMMA StepKeeps == IInv /\ [Next]_vars => IInv'
<1> SUFFICES ASSUME IInv, [Next]_vars PROVE IInv'
  OBVIOUS
<1>1. CASE UNCHANGED vars
  BY <1>1 DEF vars, IInv, Types, ListOK, ClickOK, Highlighted, Spoken, filteredSegments
<1> QED BY <1>1, PlayerKeeps, ListKeeps DEF Next

\* The inductive invariant holds.
THEOREM Invariance == Spec => []IInv
<1> QED BY InitHolds, StepKeeps, PTL DEF Spec

\* The list follows the player.
THEOREM Follows == Spec => []ScrollFollows
<1>1. ASSUME IInv, autoScroll, ~disturbed, activeSegment # 0 PROVE scrolled = activeSegment
  <2>1. PICK c \in Cues : Highlighted = {c}
    BY <1>1, OneCue DEF IInv, ListOK, activeSegment
  <2>2. activeSegment = c /\ prevActive = c /\ c # 0
    BY <1>1, <2>1, OneCue DEF IInv, ListOK, activeSegment
  <2> QED BY <1>1, <2>2 DEF IInv, ListOK
<1>2. IInv => ScrollFollows
  BY <1>1 DEF ScrollFollows
<1> QED BY <1>2, Invariance, PTL

\* When the time of a clicked cue is told, that cue is the first spoken.
LEMMA ClickedIsSpoken ==
  ASSUME IInv, handleTimeUpdate, clicked # 0, from[clicked] < Duration,
         \A c \in segments : c < clicked => to[c] < from[clicked]
  PROVE  /\ currentSegment' = clicked
         /\ clicked \in found => activeSegment' = clicked
<1>1. clicked \in Cues /\ clicked \in segments /\ position = from[clicked]
  BY DEF IInv, Types, ClickOK
<1>2. \A c \in Cues : from[c] \in Nat /\ to[c] \in Nat /\ from[c] <= to[c]
  BY PlaybackAssumption
<1>3. \A c \in Spoken(segments, position) : ~(c < clicked)
  BY <1>1, <1>2 DEF Spoken, IInv, Types
<1>4. clicked \in Spoken(segments, position)
  BY <1>1, <1>2 DEF Spoken
<1>5. Spoken(segments, position) \in SUBSET Cues
  BY DEF Spoken, IInv, Types
<1>6. currentSegment' = clicked
  BY <1>3, <1>4, <1>5, FirstCue DEF handleTimeUpdate
<1>7. ASSUME clicked \in found PROVE activeSegment' = clicked
  <2>1. Highlighted' = Spoken(segments \cap found, position)
    BY DEF handleTimeUpdate, Highlighted, filteredSegments, Spoken
  <2>2. /\ clicked \in Spoken(segments \cap found, position)
        /\ Spoken(segments \cap found, position) \subseteq Spoken(segments, position)
    BY <1>1, <1>4, <1>7 DEF Spoken
  <2>3. First(Spoken(segments \cap found, position)) = clicked
    BY <1>3, <1>5, <2>2, FirstCue
  <2> QED BY <2>1, <2>3 DEF activeSegment
<1> QED BY <1>6, <1>7

\* A click on a cue ends on that cue.
THEOREM ClickShows == Spec => ClickShowsCue
<1>1. IInv /\ [Next]_vars =>
        [(/\ handleTimeUpdate
          /\ clicked # 0 /\ from[clicked] < Duration
          /\ \A c \in segments : c < clicked => to[c] < from[clicked])
         => /\ currentSegment' = clicked
            /\ clicked \in found => activeSegment' = clicked]_vars
  BY ClickedIsSpoken
<1> QED BY <1>1, Invariance, PTL DEF Spec, ClickShowsCue
=============================================================================
