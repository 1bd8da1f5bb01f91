SPECIFICATION FrontSpec
CONSTANTS
  m1 = m1
  p1 = p1
  h1 = h1
  h2 = h2
  c1 = c1
  greeting = greeting
  browsing = browsing
  Nothing = Nothing
  Messages = {m1}
  Contacts = {p1}
  Sender <- OnePhone
  Handlers = {h1, h2}
  MaxDeliveries = 2
  MaxClosures = 1
  MaxSwitches = 1
  FailureThreshold = 1
  SuccessThreshold = 1
  ResetAfter = 1
  Consumers = {c1}
  Intents <- SomeIntents
  Assigned <- SomeAssigned
  Default <- SomeDefault
  Workflows <- SomeWorkflows
  MaxIterations = 3
  MaxCrashes = 1
  visitor = visitor
  Notes = {n1}
  Senders = {s1}
  NoNote = NoNote
  Attempts = 3
  MaxRetries = 3
  Visitors = {visitor}
  WidgetMessages = {wm1, wm2}
  WidgetHandlers = {wh1, wh2}
  NoChat = NoChat
  MaxClosings = 1
  Author <- SomeVisitor
INVARIANTS
  FrontTypeOK
  AskedOnce
  DuplicatesAreConcurrent
  
  RunningIsWorkedOn
  
PROPERTIES
  WorkEnds
CHECK_DEADLOCK FALSE
