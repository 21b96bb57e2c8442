----------------------------- MODULE MCPlayback -----------------------------
(* The player and its transcript with four cues: the second begins where   *)
(* the first ends, the third follows a gap, the fourth overlaps it.        *)
EXTENDS TranscriptPlayback

MCFrom == <<0, 2, 4, 5>>
MCTo == <<2, 3, 6, 7>>
MCSkips == {-2, 3}
=============================================================================
