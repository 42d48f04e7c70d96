\* Two administrators change the slot under a connection.
SPECIFICATION RedisSpec
CONSTANTS
  cache = cache
  queue = queue
  Cache = Cache
  Queue = Queue
  Admin = {t1, t2}
  VHost = {cache, queue}
  Name = {Cache, Queue}
  NameOf <- MCNameOf
  Ptr = {p1, p2, p3, p4}
  Nil = Nil
  Conn = {c1}
  MaxQueued = 1
  MaxHeld = 1
SYMMETRY Symm
INVARIANTS RemoveTookEffect NothingLeftBehind ServedByAccepter
PROPERTY RemoveOnlyNamed
