SPECIFICATION Spec
CONSTANTS
  MaxTotal = 7
  MaxSide = 2
  ScrubSteps = 10
  Unit = 10
  ZoomTop = 2
  MIN_WINDOW_WIDTH = 4
  MIN_WINDOW_HEIGHT = 3
  MAX_WINDOW_WIDTH = 8
  MAX_WINDOW_HEIGHT = 8
  TITLE_BAR_GRAB = 1
  I32_MAX = 20
  SETTINGS_VERSION = 1
  MAX_CACHE_CAPACITY = 3
  MAX_PREFETCH_RADIUS = 2
  MAX_RECENT_SOURCES = 2
  NoWindow = NoWindow
  CONFIRM_DELETE_LIST_CAP = 2
INVARIANTS
  IndexIsLeading
  ResumeRoundTrip
  ScrubFollowsDirection
PROPERTIES
  LayoutChangeKeepsPage
  TurnsAreContiguous
