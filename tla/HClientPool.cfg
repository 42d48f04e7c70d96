\* Three goroutines on a pool whose limit (4 - 2) is below their demand, so
\* shouldPut is passed by several at once and the limit is overshot.
SPECIFICATION Spec
CONSTANTS
  c1 = c1
  c2 = c2
  c3 = c3
  c4 = c4
  a = a
  b = b
  Session = {s1, s2, s3}
  Client = {c1, c2, c3, c4}
  Key = {a, b}
  KeyOf <- MCKeyOf
  MaxPoolSize = 4
  MaxActive = 2
  NoClient = NoClient
SYMMETRY Symm
INVARIANTS TypeOK SoleOwner IdleReady SizeExact DrainAccount BacklogExact CapacityBound
PROPERTIES DeadForever KeepsCustody
