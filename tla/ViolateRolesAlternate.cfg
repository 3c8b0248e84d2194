\* Truncation leaves an Assistant first, or after the system message.
SPECIFICATION ChatSpec
CONSTANTS
  Owner = owner
  o1 = o1
  Threads <- MCThreads
  Amounts <- MCAmounts
  Total = 3
  MaxU32 = 5
  MaxWipes = 1
  MaxMessages = 3
INVARIANT RolesAlternate
