CONSTANTS
  H1 = H1
  H2 = H2
  P1 = P1
  M1 = M1
  M2 = M2
  Readers = {A1, A2}
  Second = 2
  Period = 1
  Frequency = 2
  TopCount = 4
  Word = 8
  Depth = 2
  Attempts = 1
  MaxDrift = 1
  MaxLast = 3
  MaxTicks = 6
  MaxChanges = 1
  MaxHandlers = 4
  MinVector = 1
  IoApics <- TwoApics
  Nmis = {1}
  Processes = {H1, H2}
  MaxAllowed = 2
  Others = {A1, A2, A3}
  Last = 1
  Unreliable = {1}
  Listening = {0}
  Messages = {M1, M2}
  PageUnits = 4
  HeapPages = 5
  MinAlloc = 1
  Sizes = {1, 5}
  MaxHeld = 3
  MaxPages = 6
  MemoryMap <- BootMap
  PageSize = 8
  EntrySize = 1
  Low = 21
  High = 200
  ApPage = 1
  TableEntries = 4
  UserProcesses = {P1}
  Addresses <- KernelAddresses
  MaxRequest = 2
  MaxMiscount = 1
  Handles = {H1, H2}
  Values = {"x"}
  Zero = "zero"
  Growth = 1
  Requests = {2}
  MaxCount = 3
  Width = 97
  Height = 50
  Places = 5
  HexBytes = 2
  Texts <- ShortTexts
  Figures = {0, 7, 256, 4096, 10050}
  Spots <- TwoSpots
  Extents <- TwoExtents
  MaxDrawn = 1
  Day = 2
  Years <- TenYears
  Durations = {3}
  TimerPeriod = 3
  Target = 3
  CounterMax = 4
  Delays = {2, 6}
  Comparators <- FourComparators
  MaxLate = 1
  MaxService = 2
  MaxClock = 3
  TimeWidth = 10
  Keys = {1, 2, 3, 4, 5, 6}
  MaxNodes = 6
SPECIFICATION PartsSpec
INVARIANTS
  TreeSound
  IteratorInOrder
  VectorHolds
  BlocksApart
  MapHeld
  CountersExact
  MessagesHeld
  VectorsKept
  RoutesFollowOwners
  ScreenHolds
  NumbersRead
  StartupSound
  ClockSound
  TimersMeasure
  DatesSound
CHECK_DEADLOCK FALSE
