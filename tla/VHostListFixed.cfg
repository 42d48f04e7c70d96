\* Concurrent updates; a virtual host keeps its server name.
SPECIFICATION Spec
CONSTANTS
  blog1 = blog1
  blog2 = blog2
  shop1 = shop1
  shop2 = shop2
  Blog = Blog
  Shop = Shop
  srvA = srvA
  srvB = srvB
  srvC = srvC
  Admin = {t1, t2, t3}
  Request = {r1}
  VHost = {blog1, blog2, shop1}
  Name = {Blog, Shop}
  Server = {srvA, srvB, srvC}
  NameOf <- MCNameOf
  ServerOf <- FixedServerOf
  NoVHost = NoVHost
INVARIANTS IndexNamed NamedIndexed RoutedByServerName
PROPERTY ServesRegistry
