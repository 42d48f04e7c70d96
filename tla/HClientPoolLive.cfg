\* Liveness: no symmetry.
SPECIFICATION FairSpec
CONSTANTS
  c1 = c1
  c2 = c2
  c3 = c3
  c4 = c4
  a = a
  b = b
  Session = {s1, s2}
  Client = {c1, c2}
  Key = {a}
  KeyOf <- MCKeyOf
  MaxPoolSize = 4
  MaxActive = 1
  NoClient = NoClient
PROPERTY FinishReturns
