CONSTANTS
  Senders = {s1, s2, s3, s4}
  Limit = 2
SPECIFICATION FairSpec
INVARIANTS TypeOK PermitsConserved
PROPERTIES ImplementsBoundChannel WaiterIsServed
CHECK_DEADLOCK FALSE
