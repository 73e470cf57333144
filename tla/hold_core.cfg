SPECIFICATION TrackSpec
CONSTANTS
  p1 = p1
  p2 = p2
  l1 = l1
  l2 = l2
  NoTask = NoTask
  Speakers = {p1, p2}
  Loops = {l1, l2}
  MaxStops = 2
CHECK_DEADLOCK FALSE
INVARIANTS
  TrackSound
PROPERTIES
  OneVoice
