SPECIFICATION FairClientSpec
CONSTANTS
  Callers = {fg, bg}
  Background = {bg}
  Impatient = {bg}
  Writers = {fg}
  MaxAttempts = 2
  Unit = 2
  SeedRate = 4
  Period = 4
  Limits = {10}
  RetryAfters = {2, 5}
  LongIdle = 2
INVARIANTS
  WindowBudget
  WriteOnce
PROPERTIES
  RetryAfterHonoured
  BackgroundRuns
CHECK_DEADLOCK FALSE
