# mono-service in TLA+

mono-service is a Go server that is configured with scripts. A *listener*
accepts connections, a *virtual host* is what a directory of script and
configuration describes, and a *service* is a virtual host's pipeline of
request middlewares, application and response middlewares. The script language
("pl") has its own compiler and virtual machine; every request runs a *session*
of the script of its virtual host, and scripts see the request, the response,
an HTTP client and a log through host objects.

This directory models the parts of that program in which the order of events
decides whether it is right, checks them with TLC and proves the central
invariants with TLAPS. File and line numbers refer to `src/`.

## 1. The system

| Component | State | Operations | Interacts with |
|---|---|---|---|
| upstream HTTP client pool `util/hclient.go` | `idle` (per scheme and host), `size`, `drainSize`, `drainProduce`, `drainConsume`, the unbuffered `drainChan`; per client the last response | `Get`, `Do`, `Put` (`shouldPut`, `tryDrain`, blocking send), the drainer goroutine `doDrain` → `putBack` | called by `GetHttpClient` and `finish` of the service handler from every request goroutine |
| virtual host list `http/vhost_list.go`, `http/listener.go` | two maps under one mutex: by server name and by name | `add`, `remove`, `update` (two critical sections), `resolve` | server administration on one side, every request on the other |
| HTTP service `http/vhost/*.go`, `http/framework/*.go` | `servicePool.idle`; per handler service, runtime, session, `activeHttpClient`, phase; per request writer and flags | `doRoute`, `getServiceHandler`, `main` with its deferred function, `replyErr`, `finish`, `put` | client pool, script runtime, middlewares, application, net/http |
| response writer `http/vhost/response_writer.go` | status, header, body, two flush flags | write, reply, flush, script `IndexSet`/`MethodCall`, `Finalize` | scripts, middlewares, `main` |
| Redis listener `redis/listener.go` | one atomic pointer to a virtual host | `AddVHost`, `UpdateVHost`, `RemoveVHost`; `onAccept`, `onEvent`, `onClose` | administration, redcon's goroutines, Redis virtual host |
| program and server `cmd/main.go`, `server/server.go` | listeners, a WaitGroup | command line, `NewServer`, `initVHost`, `Run` | listeners, virtual host creation |
| HTTP router `http/vhost/router.go`, `hrouter/hrouter.go` | compiled route tables | parse, match | service creation; matching is gorilla/mux |
| virtual host creation `http/vhost/vhs.go`, `http/vhost/new_vhost.go`, `redis/vhost/new_vhost.go` | builders: stacks of scopes, fields, lists of middlewares | push, pop, property, command, `Compose` | called by the machine while it runs a configuration |
| applications `http/module/application/*` | body_sign: temporary file; concate: feeder goroutine, pipe, queue of responses, never started | `Prepare`, `Accept`, `Done`, `OnAction` | service handler, client pool |
| middlewares `http/module/*` | none between requests | `Accept` | response writer |
| script runtime `http/runtime/*` | the phase and what it offers | `OnInit`, `OnRequest`, `OnResponse`, `Emit` … | virtual machine, service handler |
| script library `hpl/*` | body, readable stream, header, request, response | `Index`, `IndexSet`, method calls | virtual machine |
| Redis virtual host `redis/vhost/*`, `redis/runtime/*` | handler pool that is never refilled; per callback evaluator, event queue and HTTP clients | two scripts per callback, reply writers, `Drain`, `finish` | Redis listener, virtual machine |
| event queue `pl/event_queue.go` | a slice used as a stack | `Emit`, `Drain` | virtual machine, service handlers |
| virtual machine `pl/eval.go`, `pl/obj_siter.go` | value stack with the frames in it, handlers per frame, stacks of suspended iterators | bytecodes, `runRule`, `runSFunc`, `runSIter`, `unwindForExcep` | native functions and host objects, which call back |
| compiler `pl/parser.go` | program so far, jumps to patch; stack of scopes with upvalues; tables of functions and variables, stack of modules, calls to look up again | parse functions that emit as they read, `resolveSymbol`, `startModule`/`endModule`, `patchAllCall` | virtual machine: each relies on the other for the depth of the stack |
| prototypes of native functions `pl/func_proto.go` | the compiled descriptor | `compile`, `Check` | every call of a native function |
| modules and values `pl/module.go`, `pl/object.go` … | module globals under a lock | load, store | all sessions of a virtual host |
| access log `alog/*` | compiled format | parse, write | service handler |

### What is hard

* The client pool is shared by all request goroutines of a virtual host. A
  client changes hands five times per use, `Put` decides in one critical
  section and acts in another, four counters are kept by hand, and all
  goroutines hand their clients to one drainer over an unbuffered channel.
* `update` of the virtual host list takes the mutex twice; requests and other
  administrators get in between.
* `main` has early returns, errors and panics in every phase, all of which
  must leave through one deferred function that flushes, finishes, logs,
  returns the clients and the handler in this order; scripts may write and
  flush the response at any moment and assign fields without a look at the
  flush flags.
* The Redis listener's slot is read and written with atomic operations of
  which several together make an operation.
* Each callback of a Redis connection loads that slot anew, runs two scripts
  that may fail at any statement, and whatever they emitted or fetched has to be
  settled before the callback ends.
* The process configures itself with scripts: builders are driven by whatever
  calls a script makes, several virtual hosts share listeners, and any error must
  end the process before it serves.
* `Run` starts goroutines in a loop.
* The virtual machine keeps frames, arguments, local variables, temporaries and
  the iterators of loops on one stack without checking it; the compiler, which
  has no syntax tree, has to keep every path to an instruction at one depth.
  Exceptions cut the stack, native functions enter the machine again, and
  iterators are suspended on stacks of their own.
* The compiler resolves names while it reads. Slots of blocks that ended are used
  again, upvalues are passed down through every function in between, and a
  module is compiled into the tables of its importer and renamed when it ends.

`PROJECT.json` lists every hazard with its line and the properties that are
about it.

## 2. Modules

| Module | Models | Extends / instantiates |
|---|---|---|
| `HClientPool` | the pool, the drainer, transactions that use it | |
| `ClientCustody` | what the pool promises: who has a client | instantiated by `HClientPool` |
| `VHostList` | the two maps, administrators, requests | |
| `VHostRegistry` | what the list promises: a map from names to virtual hosts | instantiated by `VHostList` |
| `ServiceHandler` | handler pool, pipeline, response writer | |
| `RedisListener` | the virtual host slot under its administrators | |
| `RedisSession` | the connections: callbacks, their scripts and event queue | extends `RedisListener` |
| `Startup` | the process from its command line to `Server.Run` | |
| `ServerRun` | `Server.Run` | |
| `ServerProcess` | both, one after the other | extends `Startup`, `ServerRun` |
| `ScriptCode` | what the compiler's parse functions emit | |
| `ScriptVM` | the machine that runs it | extends `ScriptInstr`; compiled modules come as a constant |
| `ScriptInstr` | what the instructions on values pop and push | |
| `ScriptVerifier` | what the machine relies on in its bytecode | extends `ScriptInstr` |
| `ScriptScopes` | the compiler's scopes, slots and upvalues | |
| `ScriptModules` | files, imports and the names of functions and variables | |
| `FuncProto` | descriptors of native functions: compilation and check | |
| `MC*` | instances for TLC: `MCScripts` writes the scripts that `MCScriptVM` runs and has `ScriptCode` compile them, `MCScriptModules` the programs and `MCFuncProto` the descriptors that `MCScriptFrontEnd` runs beside `ScriptScopes` | the module of the same name |
| `*_proofs` | theorems; `HClientPool_proofs` has the refinement of `ClientCustody` too, `RedisSession_proofs` those of `RedisListener`, `ServerProcess_proofs` those of `Startup` and `ServerRun`, `ScriptFrontEnd_proofs` those of `ScriptScopes` and `ScriptModules` | the module of the same name, `TLAPS` |

Operators called "A fault: …" in a comment are variants of the definition below
them with a plausible mistake. They are not part of any specification:
`PROJECT.json` pairs each with the property that tells it from the code.

### HClientPool

A session is a request goroutine: `GetReuse`/`GetNew` are the two outcomes
of `Get` (`tryGet` and `tryCreate` are one critical section: `Get` holds the
mutex over neither, but `tryCreate` touches no shared state, so it joins the step in
which `tryGet` failed), `Do` replaces the client's response, and `finish` of
the service handler puts the clients one by one: `ShouldPut` is the first
critical section, `CountDrain` the second, `Send` and `Recv` the rendezvous on the channel,
`CountConsume` the drainer's critical section after it, `CopyOk`/`CopyErr`
the read of the rest of the body and `PutBack` the last critical section. A
client is handed over by value while `activeHttpClient` still lists it, so
custody is stated over positions, not over the list. `HasRoom` has the source's
arithmetic with `size` and `drainSize`, including the count that a failed drain
never gives back. Bodies are *spent* or not: `Do` of a new request closes the
previous body, a script may have closed it first.

Constants: `Session`, `Client`, `Key`, `KeyOf` (scheme and host of a client's
URL), `MaxPoolSize`; `MaxActive` bounds the clients of one transaction.

### VHostList

`Add`, `Remove` and the two sections of `update`, `UpdateRemove` and
`UpdateStore`, under administrators; `Resolve` and the end of a request.
`NameOf` and `ServerOf` are what a virtual host was configured with. The
refinement to `VHostRegistry` maps the list to the map that requests see.

### ServiceHandler

One action per phase of `main`, with every error path as `Raise` (`replyErr`
up to the `error` event), one action per kind of script statement that can
touch the response, in every phase that runs a script (`RunsScript`: events, the
middlewares, and an application's `Accept`, which may emit one), `ScriptPanics` and `DonePanics` for the two panics found in
native code, and the deferred function as `Finalize`, `AppDone`, `LogEnd`,
`Finish`, `PutHandler`. The response writer's functions are operators on a
record. A failed service creation leaves a handler without a service, which is
what the code pools.

### RedisListener and RedisSession

`RedisListener` has one action per atomic load and store of the slot, and each
store allocates a new address, so that equality of pointers is what Go compares.

`RedisSession` adds the connections. redcon calls `onAccept`, then `onEvent` per
command, then `onClose`, one after another per connection. Each begins with a
load of the slot; without a virtual host `onAccept` refuses the connection and
`onEvent` closes it. Otherwise the callback's record goes through `script`
(session variables, then the rule), `queue` and `event` (`Drain`, the newest
event first, handlers may emit more) and `finish`, the deferred function that
returns HTTP clients. A script fails, panics or ends at any point, or closes the
connection. What it writes to the client is not modelled. A panic in the callback's goroutine ends the process (`Down`).

### Startup, ServerRun and ServerProcess

`Startup` follows `main`: all listeners are parsed and made, then for each virtual
host its script is loaded (`LoadScript`), the instructions of its configuration
drive the builder (`PushConfig`, `PopConfig`, `ConfigProperty`, `ConfigCommand`),
`ComposeVHost` checks and makes it, `ComposeService` does so for each service of
an HTTP virtual host with its router, and `AddVirtualHost` gives it to the
listener it names. Errors are `Exit`; the two type assertions and the slice of
`newRouter` that panic are `panicked`. An error of a configuration is a script exception:
where a try block is around it, the sequence has the instruction as `caught`, and
`ConfigCaught` leaves the builder as it was; a scope that was open stays open. Strings are those that the checks tell
apart: two log formats, five routers. A builder's instructions come as a
sequence of the shapes that `ScriptCode` compiles a configuration to. `main` goes
through the HTTP directories before the Redis directories, and
`CommandLinesAssumption` says so of the command lines.

`ServerRun` has the loop's steps of `Run` and the goroutines it starts as separate
processes, with `vv` as the one variable they share (`go.mod` says go 1.16).
`ServerProcess` lets it begin when the start has ended, on the listeners made;
`FirstConnection` is the panic of a Redis listener that holds an HTTP host.

### ScriptCode and ScriptVM

The parser emits instructions while it reads and patches jumps afterwards. In
`ScriptCode` a script is a tree, and for each kind of node there is the list of
items its parse function emits, with labels for the positions it patches
(`TripItems` is `parseTripCountLoopRest`, `TryItems` is `parseTry`); `Code` lays
them out with absolute addresses. Each instruction also carries the four facts its
parse function takes for granted: the depth of the stack, the try blocks and the
config scopes around it, and the slots in which the loops around it keep their
iterators. The machine ignores all four; its properties compare it with the first
three.

The compiler has no syntax tree and the machine no verifier, so what one relies on in
the other is written nowhere in the code. `ScriptVerifier` writes it down as
conditions on single instructions: `Flows` says of each kind that what it takes from
the stack is its own, and that every place where control can go next (the next
instruction, a jump's target, the else block of the innermost try) expects just the
depth, handlers, scopes and iterators that it will find. `Verified` asks this of all
code of a module.

`ScriptVM` has one action per instruction or group of instructions: `DoPlain`
pops and pushes, `DoJump` has the six jumps, `CallScript`, `CallNative` and
`ReturnToScript` the calls of `runP`. `go` is the stack of Go functions that
have entered the machine or were called by it: `NativeCalls` is a native
function that calls the closure it got (`runSFunc`), `NativeCallsBound` one that
calls a bound native function (`runNFunc`), `SetUpIterator`, `ResumeIterator` and
`Yield` swap stacks like `runSIter`, `resumeSIter` and `runSIterRest`. Any
instruction that can fail may fail (`InstrFails`, `NativeFails`, `DerefFails`);
then `mode` is `"throw"` and `Catch`, `Unwind`, `CallbackFails`, `IteratorFails` and
`RuleFails` are the rounds of `unwindForExcep` and what the caller of `runP`
does with an error that nothing caught.

Values are abstract. A condition is true or false at will, except the flag that
says whether an iterator goes on. Sections and configurations run like rules;
`config` counts the scopes that a configuration has open, which `ConfigPush` and
`ConfigPop` hand to the builder.

What a name means decides what a call of it becomes (`parseUnboundCall`,
`patchAllCall`). A function of the module is a closure and `VCall`, or `SCall` if it
is declared later; any other value is `VCall` of a native function, or fails as no
function (`InstrFails`). `for ... = iter f(...)` is `LoadIterator` and `SetUpIterator` only if `f`
is an iterator or function of the module, where a function is refused
(`LoadRefused`, as is the closure of an iterator); otherwise it is a plain call, and `HasIterator` takes
what it returned for an iterator: `HasCalledIterator` is the case that it is one,
and in the other a `must` fails. Two more `must`s are in reach of a
script, `MapKeyFails` and `CaptureFails`. `mode` is then `"panic"`, and `OnlyKnownPanics` says that
these three (`KnownFault`) are all.

### ScriptScopes, ScriptModules, FuncProto

`ScriptScopes` does not read a script: any sequence of `EnterTop`, `EnterScope`,
`leaveScope`, `defLocal` and `Use` that the parser can make is a behaviour, up to
the bounds. `Use` is `resolveSymbol`, with `collapse` as the whole of
`findUpval`'s way back through the functions around: each gets an entry, each
time a name is used. `InnermostWins` follows these entries as the machine would.

`ScriptModules` compiles a program, a map from paths to steps, with a stack of open
files. A file's functions and variables have plain names until `endModule` puts its
name in front of everything defined since the file began; `patchAllCall` looks up
the calls whose name was unknown. `LinkedAsWritten` says of every use which
declaration the program meant.

`FuncProto` starts from what a descriptor is meant to say (`wanted`), writes it
down as tokens, and compiles these with one action per element, group or case;
`Check` is a function of the result and the arguments. `ChecksAsDescribed`
compares it with what was meant, for every sequence of arguments of the instance.

## 3. Runs

| Run | Bounds | What it shows |
|---|---|---|
| `client_pool` | 3 sessions, 4 clients on 2 hosts, `MaxPoolSize` 4, 2 clients per transaction | all safety properties of the pool and its refinement of `ClientCustody`. The limit in force is `MaxPoolSize - 2` (both tests are strict and off by one from the name), so three sessions with two clients overshoot it, drains fail often enough to kill the pool, and every pair of critical sections interleaves |
| `client_pool_live` | 2 sessions, 2 clients, no symmetry | a transaction that began to return its clients finishes |
| `vhost_list_fixed` | 3 administrators, 3 virtual hosts of 2 names, 1 request | with fixed server names the maps agree and the list is a registry, under all interleavings of two-step updates |
| `vhost_list_moving` | 2 administrators, one move | an update races an add: the index keeps an entry nobody can remove (finding) |
| `service_pool` | 3 requests, 3 handlers, pool of 2 | exclusive handlers, bound, victims of failed creations |
| `service_one` | 1 request, 2 handlers, 2 middlewares per chain, all script statements | completeness and stability of the response, errors reported, every request answered |
| `redis_session` | 2 administrators, 2 virtual hosts of 2 names, 4 addresses, 1 connection; 1 event and 1 HTTP client at a time | removal removes what it names and nothing else; a callback leaves no event and no client behind; without administration one virtual host serves a connection from accept to close |
| `server_run` | 380 command lines of 2 or 3 listeners and up to 3 virtual hosts, each with one thing wrong with it or nothing, or with errors that the configuration catches; then 3 listeners that fail at any time | the process serves only if everything was sound, and exactly what was written; the WaitGroup and the return of `Run` |
| `server_run_all` | 2 listeners | a listener that never listens (finding) |
| `script_vm` | 1,779 scripts: every leaf statement in every pair of the ten constructs around it, in a rule, in a function that is called and called back, and in an iterator; sections; configurations with scopes in branches, loops, try blocks and scopes, and breaks out of scopes; and one script of all expressions; 4 frames on a stack, 4 Go functions, 5 open config scopes | on every path to an instruction, stack and handlers are what its parse function relied on; the config scopes around it are open, and no other unless an exception or a break left one; suspended iterators stay intact; callbacks leave their caller's frame; no `must` of the machine fails but the three of `KnownFault` |
| `script_else` | the same scripts | a try in a callback or an iterator that never catches (finding) |
| `script_front_end` | scopes: nestings of up to 4 scopes, 2 names, 2 declarations and 1 upvalue around a position, 4 variables in a function; modules: 10,240 programs of an entry and three modules; prototypes: some 6,500 descriptors of up to 2 cases and 2 arguments, each with 111 sequences of arguments | no two variables in reach share a slot; a name is its innermost declaration; a use is linked to the declaration it names; only unsound programs are refused; a prototype lets through what its descriptor says. Before that, the assumption `ScriptsVerified` evaluates `Verified` for the 1,779 modules of `script_vm`, compiled by `ScriptCode` |

Why the bounds are enough: every property relates at most two sessions (or
administrators, or requests) and one shared object; the instances have one
actor more than that, except where a liveness property forbids symmetry and two
actors already contend. Counters that only grow in histories
(`failures`) are bounded by a named constant. A construct of a script meets
the depth and the handlers of the one around it, and jumps leave the innermost loop:
two levels of nesting have every pair of constructs, and the body of a called
function or iterator adds the levels below it. Scripts whose `break` or `continue`
leaves a try block are left out of `script_vm`: `HandlersMatch` fails for each of them
(`PROJECT.json` lists this among the hazards). The configurations nest at most four
scopes; a loop that leaves one open at each round would open more, and the fifth
that `MaxConfig` allows is one such round. An upvalue goes through each
function in between by the same step, and a block's slots begin where those around
it end: two functions and two blocks have every pair of neighbours. Three modules are
a chain, a diamond and a cycle of imports. The prototype's checks look at
one argument at a time and count the rest; two arguments have a first and
a last one.

### Fairness

* `HClientPool`: weak fairness of the drainer and of `Put`. The drainer is a
  goroutine in an endless loop; its copy of a body is limited to
  `maxDrainSize` bytes and the HTTP client has a timeout. `Put` only waits for
  the mutex and for the drainer. Nothing is assumed about scripts: a
  transaction may keep its clients for ever.
* `ServiceHandler`: weak fairness of `main` and the return to the pool for each
  request: scripts, middlewares and applications terminate. Script statements
  are not fair, a script need not write anything.
* `RedisSession`, `Startup`, the script modules: no fairness and no liveness property.
* `ServerRun`: the goroutines and the loop are scheduled. Without that
  assumption the violation of `RunAll` would mean nothing.

## 4. Proofs

All theorems hold for every value of the constants under the named assumptions
of the modules.

* `HClientPool_proofs`. `Control` relates `pc` of a session, what it holds in its
  hands and the drainer's state. On it rests `Ownership`, the inductive invariant
  behind `SoleOwner` and `IdleReady`: a client has one holder; the client a
  session is putting has left its list's tail; what is held, drained or pooled is so
  alone; a client that is drained was checked to be ready. `SoleOwner` alone
  is not inductive, since a client in the hands of a putting session must not
  be put again by the same session's list. `Pooled` and `Accounted` add that
  `size`, `drainSize`, `drainProduce - drainConsume` count what they are meant
  to count; `CapacityBound` follows from a count of the sessions past
  `shouldPut`, and `DeadForever` from the monotone count of failed drains.
  A consequence met on the way: `tryDrain`'s test for a response decides whether
  a client goes to the drainer, so the same test in the drainer can never be
  false there.
  `PoolKeepsCustody` is the refinement: initial states map to initial states, and each
  action of the pool is one step of `ClientCustody` or a stutter.
* `VHostList_proofs`. `RoutedByServerName` for every configuration. Under
  `FixedServerNames` (every version of a name has the same server name, and different
  names have different ones) the two maps are filed under the right keys and
  agree, and the list implements `VHostRegistry`. Without that assumption the run
  `vhost_list_moving` refutes the agreement, so it cannot be dropped.
* `RedisSession_proofs`. What a removing administrator knows about the slot it loaded
  is kept by everybody else's steps, because a store always brings a new address;
  connections do not touch it (`SessionKeepsListener`), so the theorem about the listener
  alone holds with them. `Sound` is the invariant of one connection: at the deferred
  function the queue is empty, between callbacks the handler holds nothing, and the slot still holds the accepting virtual
  host as long as nobody stored another. The last part is why it is stated
  together with the slot and not per connection alone.
* `ServiceHandler_proofs`. `Custody` says where a handler is: in the pool or with one
  request that is in the pipeline (`Busy`), and without HTTP clients once it is on its way
  back (`PutClean`); after a panic only the deferred function runs (`PanicPhase`), and
  it does not put. For `VictimsBound` a handler without a service that may still
  make somebody panic is counted together with those that did (`Pending`). `Replies` is about
  the response: what a writer remembers is what went over the wire (`Sent`), an error
  that was reported is what the client has or will get (`ErrorReply`), and behind the
  `finalize` phase the body is out. The writer's functions have a lemma each, so that no
  step of the pipeline looks into them.
* `ServerProcess_proofs`. `Progress` relates the builder to the command line: it holds what
  the instructions up to the position say (`Built`), the listeners have exactly the
  virtual hosts so far, and these are sound and do not clash (`Accepted`). From it follow `StartsIfSound`
  and `ServedAsWritten`. `Counted` is the WaitGroup: it equals the number of goroutines
  not ended and not yet started, on whatever listeners the start has made.
* `ScriptFrontEnd_proofs`, part 1. `SlotsApart` for scripts of any nesting. It says nothing of
  scopes that are not in one function, so it is not inductive: `LaidOut` says that the
  scopes of a function are ordered in the frame as they are nested and end
  below what the function reserves, and that every scope has a function around
  it. The lemmas are about any stack of scopes: one each for a function, a block, the
  end of either, a declaration and a captured variable. For `InnermostWins` only the
  last use matters, and `Resolution` says what it left behind: the entries that
  `collapse` appends to the functions on the way lead (`Chase`), function by function,
  to the slot of the innermost declaration around the position.
* `ScriptFrontEnd_proofs`, part 2. `RefusedForCause` for every program that satisfies
  `ProgramsAssumption`. `Tables` says that a function whose name is
  plain is one that the innermost file has defined since it began, that any other name
  begins with the module of a file that was closed, and that no name occurs twice. A
  refusal then has a cause in the program: a cycle of imports, two files of one module
  or two declarations of a name.
* `FuncProto_proofs`. `ChecksAsDescribed` for every set of descriptors that
  `PrototypesAssumption` allows and all arguments. `Compilation` says how far `compile` is
  in the descriptor: the cases, arguments and alternatives so far are like those that
  were written, up to the byte counts that `Check` does not look at, and the cursor is
  at the offset where the next one begins. That a descriptor is laid out so rests on
  lemmas about `FlattenSeq` (`Flattened`, `WithinFlattened`).
* `ScriptVM_proofs`. Five of the six invariants of `script_vm`, for modules of any number of
  programs and any size, any number of frames and of nested Go functions. The one hypothesis is
  that the code of every module is `Verified`; TLC evaluates it for all scripts of
  `script_vm`, with the code that `ScriptCode` gives them. It is no formality, and these are refused:

  - code of a faulty parse function: a `break` out of an iterator loop that leaves the
    iterator, a `continue` that skips its test, a config scope that is not closed;
  - a `break` or `continue` out of a try block, which the compiler does emit and which leaves
    the handler behind. `HandlersMatch` is about nothing else that could go wrong there, so it
    is no theorem: under `Verified` it would be one by hypothesis;
  - an iterator that is called as a function before its declaration, which the compiler
    does emit (`SCall`), and whose `yield` then has no Go function to return to;
  - a closure that a script calls and also hands to native functions, since the breaker of
    `runSFunc` compares closures (`pl/eval.go:2050`) and would, when one activation lies above
    another, stop the unwinding at the wrong one. `OnlyKnownPanics` needs this;
  - `SCall` of a function with captured variables. The compiler emits none: named
    functions are declared at the top level only (`pl/parser.go:922`, `999`).

  Config scopes in try blocks and breaks out of scopes pass, and so do loops over what a
  call returns, computed map keys and iterators that capture variables. `ConfigIsNested` says what
  of the nesting survives: the scopes around an instruction are open, whatever
  else is; and no other, if the code has no jump or handler that leaves a scope (`ScopesWhole`).
  `VMPanicsAreKnown` says at which instructions the machine can stop.

  What the machine does next lies deep in it: a
  return restores a frame from the stack, a caught exception cuts the stack to where a try
  began, `Yield` returns to a stack that was swapped out, and an iterator's stack
  may hold iterators, with stacks of their own. `Works` is the inductive
  invariant. A caller that waits is written as a record (`Waiting`) of its frame, its stack, its
  `pc`, its Go functions and its own caller; there is a set `G` of cells and such
  callers that is closed under going one step down (`Closed`), and the machine is
  on top of one of them. `CalledScript`, `CalledNative`, `CalledBound`, `CalledClosure` and
  `Iterating` are the ways to be on top of a caller: what is saved where, which Go
  function was entered, and what will fit when it goes on. While an exception is on its way
  (`Throws`) the innermost handler must be able to take over (`Catches`), which is kept for
  callers as well. A set stands for what would be a recursive definition over callers and
  iterators; each step of the machine adds at most one caller and a few cells to
  it, and an iterator that yields or ends takes its new state back to its slot.

The prover cannot do induction with the library's theorems. Where a proof needs it
(`LeastOne`, `FlatteningExists`, `ChaseWalks`), it takes the least counterexample, which
exists because `<` on the naturals is well founded.

Only model-checked: the liveness properties (`FinishReturns`, `Answered`; the
prover does no fairness); that `ScriptCode` compiles every script to `Verified` code (an
induction over scripts through recursive operators, where TLC has the scripts of
`MCScripts`); and `LinkedAsWritten`, which does not hold for all programs but only for
those of the instance (see "the list of calls to look up again" below).

## 5. Findings

1. `http/vhost_list.go:75`: an update of a virtual host, between its two critical sections,
   races an add of the same name with another server name. The add finds the name free and
   stores its virtual host under both; the second section of the update overwrites the
   entry by name only. What was added is still in the index: requests reach it, and `RemoveVHost`
   cannot take it away. The comment at line 13 says the contrary.
2. `server/server.go:74`: the goroutines of `Run` share the loop variable.
3. `pl/eval.go:1698`: an exception in a callback or an iterator leaves its frame
   before the frame's own handlers are looked at, so that a try block directly in such a
   body never catches. `doc/pl-cn.md:775` and the comment at line 1684 promise the
   nearest else.

### Deviations

Behaviour that the models contain, or that an instance leaves out because a property
would fail at once, each stated where it is:

* a failed drain takes a place of the pool for ever (`DrainAccount`, `DeadForever`);
* a handler whose creation failed is pooled without a service and makes the next
  request panic (`VictimsBound`); `Done` of body_sign panics after a failed `Accept`;
* two concurrent `AddVHost` of one name on a Redis listener both succeed, and an
  `AddVHost` of another name replaces the virtual host without an error
  (`redis/listener.go:262`);
* the handler pool of a Redis virtual host is never refilled, `put` has no caller;
* `server/server.go:55` compares a manifest's type with itself, never with the
  listener's: a Redis host on an HTTP listener panics, an HTTP host on a
  Redis listener is accepted and its first connection ends the process;
* a router with "]" before "[" panics (`http/vhost/router.go:42`);
* a name whose use is an upvalue gets a new entry at each use (`pl/parser.go:497`): a
  function that uses a captured variable twice captures it twice;
* sections and configurations reserve no slots for their variables, so `SlotsApart`
  asks for room in functions and rules only;
* the list of calls to look up again is never emptied: a call in a module of a
  function that is declared later in it is looked up once more when the importing file
  ends, and fails or is linked to another function there. The programs of
  `script_front_end` have no such call in a module;
* `endModule` puts its name in front of what imported modules defined as well: a
  module that another one imported first has two names in front, and
  `doc/pl-cn.md:887` promises one. The entries of `script_front_end` import such a module
  themselves before, whenever somebody uses its names;
* the byte count of a real number in a prototype is read and has no effect
  (`pl/func_proto.go`), which `ChecksAsDescribed` states;
* a comment in `doCheck` (`pl/func_proto.go:826`) says that a variable tail may be left
  out: `%s%a*` would let a call with one argument through. `Check` (line 938) never
  asks `doCheck` about such a call. `ChecksAsDescribed` follows the head of the file (line 53: `%d%m*` takes at
  least two arguments), which agrees with `Check`;
* a try block that holds a config scope leaves it open when it catches, and so does a
  `break` out of a scope (`pl/parser.go:4083`, `2443`): what follows is set in that scope.
  `ConfigNested` allows it where `ScopesWhole` fails, and `ConfigCaught` continues with it;
* a `break` out of a try block leaves its handler behind (`pl/parser.go:2443`);
* `for ... = iter f(...)` where `f` is a variable, an intrinsic or unknown is a plain call, and
  the loop takes the result for an iterator: `must` at `pl/eval.go:1631` fails if it is none;
* an iterator that is called as a function before its declaration gets an `SCall`
  (`pl/parser.go:3453`), although the comment above it says that this should be an error; its
  `yield` leaves a Go function that was never entered;
* an iterator captures variables but its frame has no closure to read them from:
  loading one, or capturing it again, fails a `must` (`pl/eval.go:240`, `1271`, `1601`);
* a computed key of a map literal that is no string fails a `must` (`pl/eval.go:1080`).

## 6. What is left out, and the plan

Left out of the modelled components: header fields and byte counts of a
response, log text, URLs and bodies as data, the values that scripts compute with,
net/http, redcon and gorilla/mux.

Candidates that remain, in order:

1. `LinkedAsWritten` as a theorem, from a condition on programs that rules out the two deviations
   of `ScriptModules`.
2. Runs of the scripts and programs that the instances leave out because a property fails for
   them: breaks out of try blocks, function literals in loops, iterators called as functions,
   calls of later functions in a module.
3. `hpl`: readable streams and bodies as state machines, under the custody of `HClientPool`.
4. The access-log format compiler as a pure function against a reference definition.

Not modelled, and why:

* `concate`: the service handler refuses every action
  (`http/vhost/service_handler.go:310`) and the wrapper around the application delegates
  to it, so its feeder goroutine never starts. The other applications and the
  middlewares change a request or a response in one goroutine; `ServiceHandler` has what
  they can do to the pipeline as a choice.
* The HTTP runtime's phases and `hpl` objects are tables of what a script may name.
* Lexer, constant folding, operators, values and the standard library: data, with
  no state that outlives an instruction. Global variables of a module are read and
  written under a lock one at a time; a script that reads, computes and writes loses
  updates of others, and nothing promises otherwise.
* Printing, generated tables and directory reading keep no state and make no
  concurrent step.
