SPECIFICATION FairSpec
CONSTANTS
  None = None
  Handlers = {h1, h2}
  Faults = {"abort", "resend", "slow"}
  Batches = {b1, b2}
  MaxMerges = 2
  MaxFaults = 1
  MaxEditions = 2
  MaxReads = 2
  MaxOutages = 1
  MaxPolls = 1
  Lines = {l1, l2, l3}
  look = look
  cost = cost
  must = must
  may = may
  drawn = drawn
  absent = absent
  v1 = v1
  v2 = v2
  Criteria = {look, cost}
  Weight <- MCWeight
  Threshold = 96
  Briefs = {v1, v2}
  Core <- MCCore
  Extension <- MCExtension
  Submitted = {drawn}
  Answers <- MCAnswers
  MaxRevisions = 1
INVARIANTS
  
  ReportNeverOver
  LinesKept
  
PROPERTIES
  
  
  Answered
