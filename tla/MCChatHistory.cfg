\* Truncation and another thread on one budget, one atomic operation a step.
SPECIFICATION ChatSpec
CONSTANTS
  Owner = owner
  o1 = o1
  Threads <- MCThreads
  Amounts <- MCAmounts
  Total = 3
  MaxU32 = 5
  MaxWipes = 1
  MaxMessages = 3
INVARIANTS
  WithinTotal
  Conservation
  Accounting
  RemainderAlternates
PROPERTIES
  SystemSurvives
  ImplementsAtomicBudget
