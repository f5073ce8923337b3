\* Two writers making three calls, two scrapes; one duration is exactly the bound of
\* the only bucket.  A body fits while few of its values are large.
SPECIFICATION MCSpec
CONSTANTS
  Writer = {w1, w2}
  Duration = {2, 3}
  Upper <- OneBound
  Depths = {2}
  BODY_MAX = 10
  MaxCalls = 3
  REQUEST_MAX = 3
  MaxStarts = 2
  MaxScrapers = 2
  MaxFaults = 1
  MaxEvents = 5
CHECK_DEADLOCK FALSE
INVARIANTS  ScrapeBounded RenderInBounds Lifecycle ReplyWhole
PROPERTIES StopReturns ScrapeServed
