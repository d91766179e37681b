\* Three sources of one scope, two credentials after the first, two faults.
SPECIFICATION Spec
CONSTANTS
  Sources = {s1, s2, s3}
  MaxCredential = 2
  MaxFaults = 2
SYMMETRY Interchangeable
INVARIANT OneExchange
PROPERTIES SpentTokenIsRecalled NothingAfterRevocation
CHECK_DEADLOCK FALSE
