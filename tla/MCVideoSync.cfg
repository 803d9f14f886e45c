CONSTANTS
  AudioDur = 2
  VideoDur = 2
  MaxDiff = 2
  Refused = 3
  Retry = 2
  Watermark = 3
  Delay = 2
  Lag = 1
  Sounds = {TRUE, FALSE}
  Distances = {4}
  End = 11
  MaxTime = 11
  MaxToggles = 2
  MaxSeeks = 1
  MaxStalls = 1
SPECIFICATION Spec
CHECK_DEADLOCK FALSE
INVARIANTS ClockShowsTheSound LeftAloneShowsAll PauseKeepsThePlace PauseDropsFew
