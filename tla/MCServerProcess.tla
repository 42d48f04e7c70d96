--------------------------- MODULE MCServerProcess ---------------------------
(* Command lines with three listeners and up to three virtual hosts.         *)
EXTENDS ServerProcess

Lis(type, name) ==
  [form |-> "compact", type |-> type, name |-> name, endpoint |-> ":80", wellFormed |-> TRUE, certificate |-> "none"]
ListenerLists ==
  {<<Lis("http", "h"), Lis("redis", "r"), Lis("http", "g")>>, <<Lis("redis", "r"), Lis("http", "h"), Lis("http", "h")>>}
BadListener ==
  {Lis("ftp", "f"), [Lis("redis", "r") EXCEPT !.certificate = "bad"], [Lis("http", "h") EXCEPT !.wellFormed = FALSE],
   [Lis("http", "") EXCEPT !.form = "json"], [Lis("redis", "r") EXCEPT !.form = "json", !.endpoint = ""]}
OddListener == {Lis("http", ""), [Lis("redis", "q") EXCEPT !.certificate = "good"], [Lis("redis", "r") EXCEPT !.form = "json"]}

Push(name) == [k |-> "push", name |-> name]
Pop == [k |-> "pop"]
Set_(name, val) == [k |-> "set", name |-> name, val |-> val]
Cmd(name) == [k |-> "cmd", name |-> name]
Raise == [k |-> "raise"]
Caught(op) == [k |-> "caught", of |-> op]

Source(ops) == [compiles |-> TRUE, ops |-> ops]
Broken == [compiles |-> FALSE, ops |-> <<>>]
In(name, ops) == <<Push(name)>> \o ops \o <<Pop>>

\* Services: an application and middlewares in blocks of their own, in
\* several orders, and what goes wrong.
Base == <<Set_("name", "s"), Set_("router", "[*]/")>>
App == In("application", <<Cmd("noop")>>)
Req == In("request", <<Cmd("event"), Cmd("header_add")>>)
Resp == In("response", <<Cmd("echo")>>)
Service(ops) == Source(In("service", ops))
GoodServices ==
  {Service(Base \o App), Service(Req \o Base \o Resp \o App), Service(App \o Resp \o Req \o Resp \o Base),
   Service(Base \o Resp \o App \o <<Set_("router", "[get,put]/a/*")>> \o In("application", <<Cmd("body_sign")>>)),
   Source(In("service", Req \o App) \o In("service", Base))}
BadServices ==
  {Broken, Source(<<>>), Service(Base), Service(App), Source(Base), Service(Base \o App \o <<Raise>>),
   Service(Base \o App \o In("service", <<>>)), Service(Base \o In("request", Resp) \o App),
   Service(Base \o App \o <<Cmd("event")>>), Service(Base \o In("request", <<Cmd("echo")>>) \o App),
   Service(Base \o In("application", <<Cmd("noop"), Cmd("echo")>>)),
   Service(Base \o In("request", <<Set_("name", "s")>>) \o App),
   Service(Base \o <<Set_("router", "/"), Set_("max_session_cache_size", "1")>> \o App),
   Service(Base \o <<Set_("max_session_cache_size", "a")>> \o App), Service(Base \o <<Set_("tag", "[]")>> \o App),
   Service(Base \o <<Set_("router", "]/[")>> \o App), Service(Base \o <<Set_("router", "[*")>> \o App)}

\* Try blocks: around what a builder refuses, around an expression that fails,
\* and around a scope that the exception leaves open, so that what follows
\* belongs to it (and may be refused there).
Failing == {Push("service"), Set_("tag", "[]"), Set_("nosuch", "1"), Cmd("event"), Raise}
Left == <<Push("request"), Cmd("event"), Caught(Raise)>>
CaughtServices ==
  {Service(Base \o <<Caught(op)>> \o App) : op \in Failing}
  \cup {Service(Base \o App \o Left), Service(Base \o App \o Left \o <<Cmd("header_add")>>),
        Service(Base \o In("request", <<Caught(Push("request")), Cmd("event"), Caught(Set_("name", "t"))>>) \o App),
        Source(In("service", Base \o App) \o <<Caught(Set_("name", "t")), Caught(Cmd("event")), Caught(Push("request"))>>),
        Service(Base \o Left \o App), Service(App \o Left \o Base)}

Named(name, lis) == <<Set_("name", name), Set_("listener", lis)>>
Http(ops, services) == [type |-> "http", main |-> Source(ops), services |-> services]
HttpHost(name, server, lis, services) ==
  Http(In("http_vhost", Named(name, lis) \o <<Set_("server_name", server)>>), services)
Redis(ops) == [type |-> "redis", main |-> Source(ops), services |-> <<>>]
RedisHost(name, lis) == Redis(In("redis_vhost", Named(name, lis)))

CaughtHosts ==
  {HttpHost("a", "z", "h", <<s, Service(Base \o App)>>) : s \in CaughtServices}
  \cup {Http(<<Push("http_vhost")>> \o Named("a", "h") \o <<Caught(Set_("server_name", "[]")), Set_("server_name", "z")>>, <<>>),
        Http(<<Push("http_vhost"), Caught(Raise), Caught(Push("http_vhost"))>> \o Named("a", "h"), <<Service(Base \o App)>>),
        Redis(<<Push("redis_vhost"), Caught(Raise)>> \o In("redis_vhost", Named("a", "r"))),
        Redis(<<Caught(Cmd("noop"))>> \o In("redis_vhost", <<Caught(Set_("server_name", "x"))>> \o Named("a", "r")))}

Plain == HttpHost("a", "x", "h", <<>>)
GoodHosts ==
  {Plain, HttpHost("b", "y", "h", <<>>), HttpHost("c", "x", "g", <<Service(Base \o App)>>),
   RedisHost("a", "r"), RedisHost("b", "r")}
  \cup {HttpHost("a", "z", "h", <<s>>) : s \in GoodServices}
  \cup {HttpHost("c", "w", "h", <<s, t>>) : s, t \in GoodServices}
BadHosts ==
  {HttpHost("a", "z", "h", <<s>>) : s \in BadServices}
  \cup {HttpHost("a", "z", "h", <<Service(Base \o Req \o App), s>>) : s \in BadServices}
  \cup {Http(<<>>, <<>>), Http(Named("a", "h"), <<>>), Http(In("redis_vhost", Named("a", "h")), <<>>),
        Http(In("http_vhost", Named("a", "h") \o In("http_vhost", <<>>)), <<>>),
        Http(In("http_vhost", Named("a", "h") \o <<Set_("log_format", "%")>>), <<>>),
        Http(In("http_vhost", Named("a", "h") \o <<Cmd("noop")>>), <<>>),
        Http(In("http_vhost", Named("a", "h")) \o <<Set_("name", "b")>>, <<>>),
        Http(In("http_vhost", Named("a", "h")) \o In("http_vhost", <<Set_("http_client_pool_timeout", "1")>>), <<Service(Base \o App)>>),
        RedisHost("a", "h"), RedisHost("a", "q"), HttpHost("a", "x", "r", <<>>),
        Redis(In("redis_vhost", Named("a", "r") \o <<Set_("server_name", "x")>>)),
        Redis(In("redis_vhost", Named("a", "r") \o <<Set_("session_cache_size", "1"), Set_("comment", "1")>>))}

Pairs == {Plain, HttpHost("b", "y", "h", <<>>), HttpHost("b", "x", "h", <<>>), HttpHost("a", "y", "h", <<>>),
          RedisHost("a", "r"), RedisHost("b", "r"), HttpHost("d", "v", "h", <<Service(Req \o Base \o App)>>)}

\* main makes the HTTP virtual hosts first.
Line(lis, hosts) ==
  [listeners |-> lis,
   hosts |-> SelectSeq(hosts, LAMBDA h : h.type = "http") \o SelectSeq(hosts, LAMBDA h : h.type = "redis")]
MCCommandLines ==
  {Line(<<Lis("http", "h"), a, Lis("redis", "q")>>, <<Plain>>) : a \in BadListener \cup OddListener}
  \cup {Line(lis, <<h>>) : lis \in ListenerLists, h \in BadHosts}
  \cup {Line(lis, <<RedisHost("a", "r"), h>>) : lis \in ListenerLists, h \in GoodHosts \cup BadHosts}
  \cup {Line(lis, <<h, HttpHost("b", "y", "h", <<>>)>>) : lis \in ListenerLists, h \in CaughtHosts}
  \cup {Line(lis, <<g, h>>) : lis \in ListenerLists, g, h \in Pairs}
  \cup {Line(lis, <<RedisHost("c", "r"), g, h>>) : lis \in ListenerLists, g, h \in {RedisHost("a", "r"), RedisHost("c", "r"), Plain}}
=============================================================================
