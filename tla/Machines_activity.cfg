CONSTANTS
  MACHINES <- OneMachine
  MIN_WIDTH = 8
  MIN_HEIGHT = 6
  DIVIDER = 1
  BOUNDS <- TwoSizes
  MAX_PANE = 3
  MAX_GESTURES = 4
  POSITIONS <- EdgePositions
  POINTS <- CornerPoints
  TITLES = {"osc"}
  SHOW_DELAY = 1
  MIN_VISIBLE = 2
  ECHO_WINDOW = 1
  UNKNOWN_FALLBACK = 3
  HOLD = 3
  WINDOW_CLOSE = 5
  FLASH = 1
  METAS <- ToolOrAgent
  VERSIONS = {"v1", "v2"}
  MAX_COMMANDS = 2
  MAX_OPENINGS = 1
  TEXTS = {"one", "two"}
  MAX_TAB = 2
  QUERIES = {"word", "("}
  MALFORMED = {"("}
  COLORS = {"dark", "light"}
  MAX_MATCHES = 2
  CHARACTERS = {"t", "c", "v"}
  DEFAULTS <- NewTab
  KEY_FILES <- KeyFiles
  LISTINGS = {"one", "two"}
  PALETTES = {"p", "q"}
  MAX_READS = 3
  LISTED = {"a", "b"}
  OTHERS = {"c"}
  KIND <- ShellKinds
  MIN_SIZE = 1
  MAX_SIZE = 3
  TYPED = {2, 9}
  MAX_CHOICES = 2
  MAX_MOUNTS = 2
  INSTANCES = {"a", "b"}
  MAX_BINDS = 3
  MAX_APPLIES = 4
  CONNECTIONS = {"c", "d"}
  MAX_WORKERS = 2
  MAX_REQUESTS = 2
  MAX_SWITCHES = 2
  SESSIONS = {"s"}
  JOBS = {"job"}
  TITLE_EVERY = 2
  MAX_CHANGES = 3
  MAX_EVENTS = 2
  MAX_OPEN = 1
  PATHS = {"here", "there"}
  MAX_RELOADS = 1
  TREE_VERSIONS = {"1", "2", "3"}
  INSTALLED <- LeftBehind
  MAX_CALLS = 2
  MAX_OVERLAP = 2
SPECIFICATION Spec
INVARIANT PhaseArmed
CHECK_DEADLOCK FALSE
