SPECIFICATION MCSpec
CHECK_DEADLOCK FALSE
CONSTANTS
  n1 = n1 n2 = n2 r1 = r1 r2 = r2 pA = pA pB = pB l1 = l1 l2 = l2
  s1 = s1 c1 = c1 c2 = c2 kA = kA kB = kB j1 = j1
  key1 = key1 key2 = key2 v1 = v1 x1 = x1 x2 = x2
  root = root ann = ann sA = sA sB = sB dA = dA dB = dB w1 = w1 d1 = d1 d2 = d2 dP = dP dS = dS
  Callers = {root, ann}
  Admins = {root}
  Spaces = {sA, sB}
  Disks = {dA, dB}
  Calls = {w1}
  MaxChanges = 3
  Keys = {key1, key2}
  Values = {v1}
  Names = {x1, x2}
  LooksLike <- MCLooksLike
  Times = {1, 2, 3, 4}
  Moments = {2, 3}
  NotGiven = NotGiven
  Project = Project
  MaxDepth = 3
  MaxPage = 3
  MaxFiles = 3
  MaxBytes = 3
  Levels = 4
  Filters <- MCFilters
  Table <- MCTable
  Listings <- MCListings
  EntryNames <- MCEntryNames
  DashFiles = {d1, d2}
  DashProjects = {dP}
  DashStorages = {dS}
  Outside = Outside
  Period = 3
  MaxRows = 2
  TopN = 10
  Nodes = {n1, n2}
  Requests = {r1, r2}
  Home <- MCHome
  Projects = {pA, pB}
  Storages = {s1}
  Configs = {c1, c2}
  Broken = {c2}
  Containers = {kA, kB}
  Own = Own
  Links = {l1, l2}
  ProjectOf <- MCProjectOf
  Protected = {l1, l2}
  Limit <- MCLimit
  Jobs = {j1}
  None = None
  FirstContainer <- MCFirst
  Workloads <- MCWorkloads
  MaxEdits = 2
  MaxFaults = 1
INVARIANTS QuotaExact LinkStaysInProject FailureExplained RegistryCurrent ArchiveKept
           AnswersExact PagesPartition DashboardAddsUp ChecksAgree WritesEntitled
PROPERTIES KeepsContract RevocationHolds ExportEnds
