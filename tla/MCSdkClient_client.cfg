SPECIFICATION FairSpec
CONSTANTS
  here = here
  there = there
  live = live
  brief = brief
  scopeless = scopeless
  garbled = garbled
  misfiled = misfiled
  job1 = job1
  job2 = job2
  alice = alice
  Blank = Blank
  Never = Never
  Garbled = Garbled
  Tenants <- MCTenants
  Secrets <- MCSecrets
  Filed <- MCFiled
  Callers <- MCCallers
  JobIds <- MCJobIds
  PollChoices <- MCPollChoices
  TimeoutChoices <- MCTimeoutChoices
  Horizon = 5
  MaxPolls = 6
CHECK_DEADLOCK FALSE
INVARIANTS
  AbsentAndForeignLookAlike
  ReturnedJobsAreOwn
  PollsFitTheTimeout
PROPERTY WaitEnds
