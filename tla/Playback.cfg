\* Four cues, two of which touch; a text field that jumps around.
SPECIFICATION Spec
CONSTANTS
  Cues = {1, 2, 3, 4}
  from <- MCFrom
  to <- MCTo
  Duration = 8
  Skips <- MCSkips
INVARIANTS
  ScrollFollows
PROPERTIES
  ClickShowsCue
