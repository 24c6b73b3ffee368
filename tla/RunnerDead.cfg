SPECIFICATION WillingSpec
CONSTANTS
  NoUrl = NoUrl
  Seed = NoUrl
  Slots = {s1}
  Urls = {u1}
  Managed = TRUE
  Interval = 1
PROPERTY DeadRunnerIsReplaced
