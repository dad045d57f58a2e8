SPECIFICATION Spec
CONSTANTS
  a = a
  again = again
  b = b
  r1 = r1
  r2 = r2
  Keys = {"a", "b"}
  Envelopes = {a, again, b}
  KeyOf <- MCKeyOf
  Rounds = {r1, r2}
  MaxAttempts = 2
  MaxDelay = 1
  MaxAge = 1
INVARIANTS
  TypeOK
  NothingLost
  RetriesBounded
  DeliveriesBounded
PROPERTIES
  EveryEnvelopeSettles
