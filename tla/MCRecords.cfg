SPECIFICATION RecordsSpec
CONSTANTS
  t1 = t1
  t2 = t2
  t3 = t3
  t4 = t4
  bd1 = bd1
  mt1 = mt1
  fi1 = fi1
  el1 = el1
  ann = ann
  cy = cy
  ur1 = ur1
  ur2 = ur2
  Tasks = {t1, t2, t3, t4}
  Slots = 2
  Nil = Nil
  Voters = {1, 2}
  Runs = {rq1, rq2}
  Cli = {rq2}
  BatchSize = 1
  MaxChanges = 1
  MaxFaults = 1
  MaxCrashes = 1
  Points = {pt1}
  Numbers = {8, 9}
  Widths = {1, 4}
  Labels = {1, 2}
  Homes = {1, 2}
  Bodies = {bd1}
  Meetings = {mt1}
  Items = {1, 2}
  Attachments = {fi1}
  Embeds = {el1}
  Trees <- ThreeTrees
  Admins = {ann}
  Contributors = {cy}
  Orders = {15}
  Requests = {rq1, rq2}
  Emails = {ad1, ad2}
  Invites = {in1}
  MaxSerial = 3
  People = {1, 2}
  Provider <- OneProvider
  Syncs = {1}
  Seats = {1, 2}
  Persons = {1}
  Cases = {1, 2}
  MaxRows = 2
  Elections = {re1, re2}
  Sourced = {re1}
  Urls = {ur1, ur2}
  Counties = {1, 2}
  Covers <- SameCounties
  Askers = {rq1}
  MaxVersion = 2
  MaxAsks = 2
  MaxEdits = 1
CHECK_DEADLOCK FALSE
INVARIANTS
  PermitsConserved
  RunsHold
  AnswersAgree
  RecordsHold
  AccountsHold
  CountiesAgree
PROPERTIES
  ReorderAsAsked
  SyncedLinked
