SPECIFICATION FairSpec
CONSTANTS
  Session = {reader, writer, visitor}
  reader = reader
  writer = writer
  visitor = visitor
  Name = {m, n}
  Dir = {sub}
  m = m
  n = n
  sub = sub
  Root = Root
  Here = Here
  None = None
  Plans <- MCPlans
  Stocks <- MCStocks
  Conf <- MCConf
  Rights <- MCRights
  Anonymous = {visitor}
  Order <- MCOrder
  PageSize = 1
  MaxSize = 2
  MaxFaults = 2
INVARIANTS Accounted ReadsTell RemovedWasEmpty
PROPERTIES ChangesAsTold CommandEnds ImplementsCatalogue
CHECK_DEADLOCK FALSE
