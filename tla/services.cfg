SPECIFICATION Spec
CONSTANTS
  mail = mail   v = v   w = w   own = own   visitor = visitor
  Templates = {t1}   Keys = {k1}   Channels = {mail}   Variables = {v, w}   Editors = {e1, e2}
  Absent = Absent   Required = {v}   Defaulted = {}
  NewTexts <- SomeTexts
  Patches <- SomePatches
  Leads = {l1, l2}   Phones = {p}   Agents = {g1}   NoLead = NoLead   LeadStatuses = {"contacted"}   MaxMatches = 1
  Threads = {th}   Clerks = {k3, k4}   NoThread = NoThread   Letters = {x, y}
  ThreadStatuses = {"closed", "unread"}   MaxLetters = 3
  DeskPosts = {d1, d2}   FlowPosts = {f1}   NoRow = NoRow   MaxNotices = 2
  FailureThreshold = 1   SuccessThreshold = 1   ResetAfter = 1
  Comments = {i1}   Directs = {i2, i3}   IgHandlers = {q1, q2}   NoItem = NoItem   Owner = own
  MaxArrivals = 2   MaxStops = 1   MaxLinks = 1   MaxStaffCalls = 1
  IgAuthor <- SomeIgAuthor
  Customers = {c1}   Mobiles = {p}   NoCustomer = NoCustomer   Emails = {NoCustomer}   Amounts = {1, 2}   Desk = {d8, d9}
  Reviews = {r1}   ScoreDeltas = {95}   ReportLimit = 2   MaxOrders = 2   MaxReports = 3
  Categories = {a, b, c1}   NoCategory = NoCategory   Slugs = {x, y, z}   Keepers = {k3, k4}
  MaxLevel = 2   MaxPath = 4   MaxEdits = 3
  Products = {a, b}   NoProduct = NoProduct   Skus = {"x"}   NoSku = NoSku   Prices = {1, 2}   NoPrice = NoPrice
  Errands = {e1, e2}   MaxErrands = 4
  GoodsPatches <- SomeGoodsPatches
  NoItemRow = NoItemRow   MaxTicks = 4
  Shapes <- SomeShapes
  Queries <- SomeQueries
  Sales = {1, 2, 3, 4, 5, 6, 7, 8}   Buyers = {"a", "b", "c", "d"}   NoSale = NoSale   NoReport = NoReport
  Today = 5   WeekDays = 2   MonthDays = 3   MaxShifts = 1
  Histories <- SomeHistories
  Databases <- SomeDatabases
  Shelves <- SomeShelves
  Lots = {1}   UnitCosts = {0, 3, 4}   ReorderAt = 1   ListPrice = 2   MaxBooked = 3
  Schemas <- SomeSchemas
  Houses = {o1, o2}   NoHouse = NoHouse   Keeps = {k3, k4}   MaxTasks = 4
  HousePatches <- SomeHousePatches
  Callers = {k3, k4}   Businesses = {b1}   MinDelay = 2   MaxClock = 4
  Numbers <- SomeNumbers
  NoNumber = NoNumber   SampleSize = 1   MaxMoves = 2
  Books <- SomeBooks
  Wanted <- SomeWanted
  Linkers = {l1}   Lifetime = 2   RefreshBefore = 1   MaxAccounts = 2   MaxDay = 4
INVARIANTS TypeOK  
CHECK_DEADLOCK FALSE
