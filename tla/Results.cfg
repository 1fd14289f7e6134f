\* Four rows of two MTIs: enough for a median that is neither the first nor the last
\* time, and for each MTI to have several answers, one or none.
SPECIFICATION Spec
CONSTANTS
  NoTime = NoTime
  MTIs = {"0100", "0420"}
  Latency = {0, 2, 3}
  MaxRows = 4
INVARIANTS OneMoment CountedHaveTimes
