\* Every shape of one row, devices of two special rows and a reading, configurations of two entities
\* written by hand.
SPECIFICATION MCSpec
INVARIANTS EmittedAccepted AcceptedAddressable ReadsItsField WritesOnlyItsField
  DecodesTheValue SignFitsBorder CodesArrive CapacityEnough SameInEveryLanguage
CHECK_DEADLOCK FALSE
