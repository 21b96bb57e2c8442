------------------------- MODULE TranscriptPlayback -------------------------
(***************************************************************************)
(* The player and the transcript beside it: the time that both show, the   *)
(* cue laid over the picture, the cues highlighted in the list, and the    *)
(* list's scrolling after them.                                            *)
(*                                                                         *)
(* The list keeps the element to scroll to in a ref object that every      *)
(* highlighted cue is given.  React commits a render by first clearing the *)
(* refs of elements that have lost theirs, then setting those that have    *)
(* got one, in the order of the document, and runs the effects at last.    *)
(***************************************************************************)
EXTENDS Integers, FiniteSets, FiniteSetsExt

CONSTANTS
  Cues,      \* sequence numbers of the transcript's segments
  from, to,  \* start_time and end_time of each
  Duration,  \* of the video
  Skips      \* what keys and buttons skip by, in both directions

ASSUME PlaybackAssumption ==
  /\ Cues \subseteq Nat \ {0} /\ IsFiniteSet(Cues)
  /\ Duration \in Nat
  /\ from \in [Cues -> 0 .. Duration] /\ to \in [Cues -> 0 .. Duration]
  /\ \A c \in Cues : from[c] <= to[c]
  /\ Skips \subseteq Int

VARIABLES
  segments,        \* the cues on the page: none, or all of the transcript
  position,        \* the video element's currentTime
  paused,
  currentTime,     \* the page's state
  currentSegment,  \* the cue laid over the picture, 0 if there is none
  found,           \* the cues that contain searchQuery
  autoScroll,
  ref,             \* activeSegmentRef.current, 0 if it is null
  prevActive,      \* prevActiveSeqRef.current, 0 if it is null
  scrolled,        \* the cue the list was scrolled to last, 0 if the user has scrolled since
  clicked,         \* history: the cue clicked last, 0 if the time was changed otherwise since
  disturbed        \* history: since the list was scrolled, a search has changed its rows, or
                   \* several cues were highlighted at once

vars == <<segments, position, paused, currentTime, currentSegment, found, autoScroll, ref,
          prevActive, scrolled, clicked, disturbed>>
player == <<position, paused, currentSegment>>
list == <<found, autoScroll, ref, prevActive, scrolled, disturbed>>

First(S) == IF S = {} THEN 0 ELSE Min(S)
Last(S) == IF S = {} THEN 0 ELSE Max(S)

-----------------------------------------------------------------------------
(* Variants with a seeded bug. No action uses them: each stands for a      *)
(* plausible slip in the operation it is named after.                      *)

\* The start does not belong to the cue.
SpokenAfterStart(cues, time) == {c \in cues : from[c] < time /\ time <= to[c]}

\* Switching off does not forget the cue that was scrolled to.
ForgottenNever(on, active) == IF on /\ active # 0 THEN active ELSE prevActive

-----------------------------------------------------------------------------
(* What is shown                                                           *)

Spoken(cues, time) == {c \in cues : from[c] <= time /\ time <= to[c]}

filteredSegments == segments \cap found
Highlighted == Spoken(filteredSegments, currentTime)
activeSegment == First(Highlighted)

Init ==
  /\ segments \in {{}, Cues}
  /\ position = 0 /\ paused = TRUE
  /\ currentTime = 0 /\ currentSegment = 0
  /\ found = Cues
  /\ autoScroll = TRUE
  /\ ref = Last(Highlighted) /\ prevActive = activeSegment /\ scrolled = ref
  /\ clicked = 0 /\ disturbed = (Cardinality(Highlighted) > 1)

\* The ref object after a render has replaced some highlighted cues by others.
Committed ==
  LET attached == Highlighted' \ Highlighted
      detached == Highlighted \ Highlighted'
  IN IF attached # {} THEN Last(attached) ELSE IF detached # {} THEN 0 ELSE ref

Remembered(on, active) == IF ~on THEN 0 ELSE IF active # 0 THEN active ELSE prevActive

\* The effect of TranscriptViewer: it scrolls when the first highlighted cue has changed,
\* if there is an element to scroll to.
Scrolls == autoScroll' /\ activeSegment' \notin {0, prevActive} /\ ref' # 0

\* Every change of what the list is rendered from ends with this.  Rows that come or go
\* move the others in the list, or the list itself when it gets too short.
Rendered ==
  /\ ref' = Committed
  /\ prevActive' = Remembered(autoScroll', activeSegment')
  /\ scrolled' = IF Scrolls THEN ref' ELSE scrolled
  /\ disturbed' = \/ Cardinality(Highlighted') > 1
                  \/ ~Scrolls /\ (disturbed \/ filteredSegments' # filteredSegments)

-----------------------------------------------------------------------------
(* The player                                                              *)

\* The video element plays on, and stops at the end.
Advance ==
  /\ ~paused /\ position < Duration
  /\ position' = position + 1
  /\ paused' = (position' = Duration)
  /\ clicked' = 0
  /\ UNCHANGED <<segments, currentTime, currentSegment, list>>

\* "timeupdate", several times a second and after every seek.
handleTimeUpdate ==
  /\ currentTime' = position
  /\ currentSegment' = First(Spoken(segments, position))
  /\ UNCHANGED <<segments, position, paused, found, autoScroll, clicked>>
  /\ Rendered

\* The element keeps to the video, whatever time it is given.  Told to play at its end it
\* may start over.
PlayFrom(time) ==
  LET within == IF time < 0 THEN 0 ELSE IF time > Duration THEN Duration ELSE time
  IN /\ position' \in IF within = Duration THEN {0, Duration} ELSE {within}
     /\ paused' = (position' = Duration)

\* A click on a cue: the page takes its time for the current one, and the player goes there.
handleSeek(c) ==
  /\ c \in filteredSegments
  /\ currentTime' = from[c]
  /\ PlayFrom(from[c])
  /\ clicked' = c
  /\ UNCHANGED <<segments, currentSegment, found, autoScroll>>
  /\ Rendered

\* The page learns of it with the next "timeupdate".
skipByDelta(delta) ==
  /\ PlayFrom(position + delta)
  /\ clicked' = 0
  /\ UNCHANGED <<segments, currentTime, currentSegment, list>>

\* The key "k", or the element's own button.
PlayPause ==
  /\ IF paused THEN PlayFrom(position) ELSE paused' = TRUE /\ UNCHANGED position
  /\ clicked' = IF position' = position THEN clicked ELSE 0
  /\ UNCHANGED <<segments, currentTime, currentSegment, list>>

\* Every load of the page brings a playback URL that was signed anew: the video element
\* starts over, and the page's time stays where it was until the next "timeupdate".
NewSource ==
  /\ position' = 0 /\ paused' = TRUE
  /\ currentSegment' = 0
  /\ clicked' = 0
  /\ UNCHANGED <<segments, currentTime, list>>

-----------------------------------------------------------------------------
(* The list                                                                *)

\* The transcript has been loaded.
SegmentsArrive ==
  /\ segments' = Cues
  /\ UNCHANGED <<player, currentTime, found, autoScroll, clicked>>
  /\ Rendered

setSearchQuery(cues) ==
  /\ found' = cues
  /\ UNCHANGED <<player, segments, currentTime, autoScroll, clicked>>
  /\ Rendered

toggleAutoScroll ==
  /\ autoScroll' = ~autoScroll
  /\ UNCHANGED <<player, segments, currentTime, found, clicked>>
  /\ Rendered

\* What the user scrolls while the list scrolls by itself lasts until the next cue only.
UserScrolls ==
  /\ ~autoScroll
  /\ scrolled' = 0
  /\ UNCHANGED <<player, segments, currentTime, found, autoScroll, ref, prevActive, clicked,
                 disturbed>>

PlayerStep ==
  \/ Advance \/ handleTimeUpdate \/ PlayPause \/ NewSource
  \/ \E c \in Cues : handleSeek(c)
  \/ \E delta \in Skips : skipByDelta(delta)

ListStep ==
  \/ SegmentsArrive \/ toggleAutoScroll \/ UserScrolls
  \/ \E cues \in SUBSET Cues : setSearchQuery(cues)

Next == PlayerStep \/ ListStep
Spec == Init /\ [][Next]_vars

-----------------------------------------------------------------------------
(* Properties                                                              *)

CueOrNone == Cues \cup {0}

\* Every variable stays in its set.
TypeOK ==
  /\ segments \in SUBSET Cues /\ found \in SUBSET Cues
  /\ position \in 0 .. Duration /\ currentTime \in 0 .. Duration
  /\ currentSegment \in CueOrNone /\ ref \in CueOrNone /\ prevActive \in CueOrNone
  /\ scrolled \in CueOrNone /\ clicked \in CueOrNone
  /\ paused \in BOOLEAN /\ autoScroll \in BOOLEAN /\ disturbed \in BOOLEAN

\* With auto-scroll on, the list is at the cue that it highlights first, however the user
\* has clicked, skipped and switched off and on, and has scrolled meanwhile; unless cues
\* that touch or overlap were highlighted together (then the ref may be cleared by the one
\* just when the other needs it, and the list stays behind), or a search has moved the rows.
ScrollFollows == autoScroll /\ ~disturbed /\ activeSegment # 0 => scrolled = activeSegment

\* A click on a cue ends on that cue: when the player tells the time next, the cue is laid
\* over the picture and highlighted, unless an earlier one lasts until it begins, which then
\* covers it, or it begins where the video ends.
ClickShowsCue ==
  [][(/\ handleTimeUpdate
      /\ clicked # 0 /\ from[clicked] < Duration
      /\ \A c \in segments : c < clicked => to[c] < from[clicked])
     => /\ currentSegment' = clicked
        /\ clicked \in found => activeSegment' = clicked]_vars
=============================================================================
