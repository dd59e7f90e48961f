SPECIFICATION PartsSpec
VIEW SubjectView
CONSTANTS
  \* BoardOrders
  Shapes <- MCShapes
  Base <- MCBase
  Units <- MCUnits
  Kinds <- MCKinds
  Trees <- MCTrees
  Power = "Italy"
  None = None
  MaxTaps = 4
  MaxCalls = 2
  \* MapGestures
  MapBox <- MCMapBox
  Panes <- MCPanes
  MaxZoom = 2
  NarrowStep = 2
  Block = 1
  Double = 2
  Stale = 0
  MaxWheel = 1
  \* BoardDrawing
  Lands = {"a", "b"}
  Named = {"a"}
  Art = {"both", "names", "none"}
  Outcomes <- MCOutcomes
  Nil = Nil
  MaxChanges = 1
  \* PressPins
  Phones = {p1}
  MaxHolders = 3
  MaxRooms = 1
  MaxLines = 1
  MaxMail = 2
  \* PressRoom
  Members = {ma, mb}
  You = ma
  PageSize = 1
  Quota = 2
  MaxTexts = 1
  MaxPressTurns = 2
  MaxOthers = 1
  MaxLost = 1
  \* TableBoard
  Province <- MCProvinces
  Player = {"A", "G"}
  Nobody = "-"
  Start <- MCOpenings
  MaxTurns = 3
  \* DrawVote
  Voter = {"A", "G", "T"}
  Ballots <- MCBallots
  NoDraw = NoDraw
  MaxAsked = 2
  MaxSent = 2
  MaxResolved = 1
  \* MasterKey
  Screen = {"s1", "s2"}
  Secret = {k1, k2}
  NoKey = NoKey
  Seated = {"s2"}
  maxKeyChallenges = 1
  maxGameChallenges = 2
  Crowds = {0, 2}
  MaxEpochs = 1
  MaxSalts = 1
  \* SandboxBoard
  Powers <- MCPowers
  Site <- MCSites
  Owner <- MCOwner
  Phases <- MCPhases
  Budget <- MCBudget
  NoPower = "nobody"
  NoBoard = NoBoard
  MaxPosts = 2
  MaxReads = 2
  \* GamesList
  Game = {"g1", "g2"}
  NoGame = "none"
  MaxPolls = 1
  MaxDeletes = 1
  \* PhaseWalk
  Unread = Unread
  LastPhase = 2
  MaxAsks = 2
  \* GmDesk
  Seats = 1
  Modes = {"ftf", "fullpress"}
  MaxOut = 1
  \* ReviewSheet
  Page = {"seat", "gm"}
  LastReview = 2
  MaxFresh = 2
  \* SeatKeys
  Phone = {"p1", "p2"}
  Nation = {"A"}
  maxSeatSessions = 2
  MaxSeeds = 2
  MaxLinks = 2
  \* PhaseClock
  Entered <- MCEntered
  Extensions <- MCExtensions
  Skews <- MCSkews
  MaxTime = 2
  MaxLent = 1
  MaxClockReads = 1
CHECK_DEADLOCK FALSE
INVARIANTS
  TapsSpeakTheTree
  ViewOverMap
  TapAlwaysLands
  MapIsUpToDate
  SentOnce
  CountersTrue
  MarksAreSeen
  OnlyTheUntoldAstray
  NobodyIsVotedOut
  KeysFollowTheRole
  RetryAbsorbsOne
  PlanIsTrue
  PressedTwice
  WalkStaysBehind
  AgreedRulesStand
  UnreadOpens
  FormerHolderIsOut
  EveryTurnItsClock
  NobodyIsToldEarly
PROPERTY TrustMovesOnProof
