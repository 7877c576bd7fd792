# GluCore: a verification project

GluCore lets modules written in several languages call each other through one
Rust core. A host program (Python) loads the core, pushes the topology of
`glucore.toml` into it and registers modules: ARTIFACT modules (Rust, C++) are
shared libraries in the host's process, PROCESS modules (Java) are separate
programs behind a Unix socket. Every call goes through `dispatch`, which looks
up who is calling, checks that a link allows it, finds the export and runs its
wrapper. Wrappers may call other modules, and a PROCESS module may call back
while a call of it is open.

This directory has TLA+ modules of the parts of this system that have state and
order, TLC configurations that check them on small instances, and TLAPS proofs
that the invariants hold, and the refinements too, for every value of the constants.
All paths below are relative to the root of the repository.

    tlc -config router_main.cfg MCRouter       # a run; PROJECT.json lists them
    tlapm Router_proof.tla                     # the proofs of one component

## 1. Inventory

| Component | Code | State | Operations | Modelled in |
|---|---|---|---|---|
| Link check, caller identity | `core/src/router.rs` | `LINKS`; `CALLER_STACK` per thread | set identity, add link, `CallerGuard`, `call_as`, `glucore_call`, `dispatch` | `Router`, `LinkPolicy` |
| Module registry | `core/src/handles.rs` | `REGISTRY` (modules, name to index) | register, `find_export`, introspection | `Loading`, `Router`, `IpcDispatch` |
| IPC tables, dispatch wrapper | `core/src/runtime.rs` | `IPC_STATE` (exports, sockets, base indices) under an `RwLock`; `IPC_CALL_CTX` per thread | publish a module, three look-ups of a dispatch, `ipc_dispatch_wrapper` | `IpcDispatch` |
| IPC session | `core/src/runtime.rs`, `GluAdapter.java` | the two directions of a socket; where each end is | `ipc_roundtrip`, `run`, `glucoreCall` | `IpcSession`, `RemoteCall` |
| Transport, framing | `core/src/transport.rs`, `runtime.rs`, `GluAdapter.java` | the bytes in a socket, what an end has read and has still to write | read, write, length check, `forget` | `Transport` |
| Export tables, proxies | `adapters/rust`, `adapters/cpp`, `adapter.py`, `glu_types.py`, `core/src/types.rs` | the table of a module; the signatures of a proxy | `#[export]`, `GLUCORE_EXPORT`, `glucore_module_info`, `GluProxy.__init__` | `Loading` |
| Finding the core | `examples/physics/src/lib.rs` | `ABI` | `abi` | `Loading` |
| PROCESS start-up | `core/src/runtime.rs`, `adapter.py`, `GluAdapter.java`, `Renderer.java` | the socket file, listeners and connections, the process | `glucore_register_process_module`, `connect_with_retry`, bind, accept, `sendRegistration` | `ProcessStart` |
| Callers, values, codec | `adapter.py`, `glu_types.py`, `core/src/fctp.rs`, `adapters/rust`, `adapters/cpp`, `GluAdapter.java` | one array of arguments per function; bytes objects; buffers handed out | pack, unpack, encode, decode, free | `CallData` |
| GC pins, trace | `gc_pin.py`, `GcPin.java`, `trace.rs` | a set that no call path uses | add, remove | not modelled |
| Headers, build, benchmarks, tests | `glucore.h`, `build.sh`, `scripts`, `tests` | none | none | not modelled |

How they interact. The Python adapter calls the C ABI of the core (through
ctypes, which releases the interpreter lock). `dispatch` reads the thread-local
identity, `LINKS`, `IPC_STATE` and `REGISTRY`, each under its own lock, and runs
the wrapper without any. The wrapper of a PROCESS export takes a read guard of
`IPC_STATE` for as long as its round trip lasts; callbacks that arrive in it are
dispatched on the same thread, under the guard and under a `CallerGuard`. The
two ends of a socket exchange CALL, RESULT, CALLBACK_CALL and CALLBACK_RESULT
frames that carry no identifiers; a length in front of each is all that says
where it ends. What a caller knows of a function, its signature, was asked for
once, when its proxy was built; calls look the function up again by name.

What is hard in this code, and makes the properties:

- three ways of calling (plain, set/call/set, guarded) share one identity stack,
  and calls of all three nest; the link check is only as good as that stack;
- one dispatch reads three tables at different times while a registration
  publishes into them, and passes the result through a thread-local that nested
  dispatches overwrite;
- a reader of an `RwLock` is held across calls that read-lock it again;
- frames are matched by position, and the process may die at any of them;
- a process that is slow to start works on the same socket path as its successor;
- a stream is cut into frames by lengths, in whatever pieces it arrives, and an
  end that refuses a length leaves the body in the stream;
- a proxy is built by many look-ups, between which modules are registered again;
  names and signatures may occur twice in a table;
- raw addresses: an array of arguments that is reused, bytes kept alive by local
  variables only, buffers allocated in one language and freed in another.

## 2. Modules and the code

`Router` is `router.rs` with the calling code around it. `callerStack` is
`CALLER_STACK`, `links` is `LINKS`, `exports` is what `find_export` answers,
`frames` is the Rust and foreign stack of the thread: one record per call in
progress, with the identity `dispatch` read and the phase it is in. `BeginCall`
is the calling code up to the read of the identity, `CheckLink` and `FindExport`
the two tests of `dispatch`, `Finish` the return of the wrapper, `EndCall` what
the calling code does with the identity afterwards. A module in `Scoped` calls
under a `CallerGuard` (`BeforeCall`/`AfterCall` choose between the disciplines).
`Scoped` is `{java_renderer}` in the repository; all modules would be in it if
physics and cpp_engine used `call_as`.

`LinkPolicy` is what `glucore.toml` promises without any stack: code of a module
starts in another only over a declared link between these two. `Router`
implements it with `running` mapped to the modules whose wrappers are running.

`IpcDispatch` is `dispatch` at the granularity of its locks, with the
registration of PROCESS modules. A registration holds the write lock for
`PushExports`, `RegisterProcess` and `PublishSocket`; a dispatch takes
`LookupSocket`, `FindExport`, `SetContext` and `EnterRoundtrip`, each a critical
section of its own. `WriterPreference` says whether a waiting writer stops new
readers, which the standard library leaves open and its Linux implementation does.
`ExportLists` gives each module the tables it may come with, so that a PROCESS module can be
started again from a changed program while it is called. Each start has a socket of its own,
numbered in their order, and the sockets of earlier starts stay open, as in the code.
The link check is left out (it is `Router`'s subject).

`IpcSession` has the two directions of one socket as queues of frames,
the stack of open `ipc_roundtrip`s on one side and the place of the process in
`run` or `glucoreCall` on the other. Frames carry the number of their exchange
for the properties only; no action looks at it. `RemoteCall` is what a call
promises: executed at most once, `Ok` only if the function executed for this
call said so. `Reentry` allows a callback to lead, through other modules, to
another call of the same process. Without it `run` only ever
reads CALLs; the branch of `ReadLoop` in which it leaves its loop is taken in
`session_reentry`.

`ProcessStart` has the socket file (`path`: whose listener it is), the core's
place in `glucore_register_process_module` (`pc`), and the place of each process
in the first half of `GluAdapter.run` (`stage`). Attempt *a* spawns process *a*;
a process may take its steps during a later attempt. An `IpcStream` closes its
socket when it is dropped, so the return codes -4 and -6 close it and -5 and -7 do not,
as `closed` says.

In `ProcessStart` a registration that ends within a field (`cutBody`) aborts the
host: the decoder's index panics, and the panic may not leave an `extern "C"`
function.

`Transport` is the layer below `IpcSession`. `stream` holds the pieces in the two
directions of the socket, at most `Capacity` of them; `io` what each end has still
to write, has read so far, and how much it wants. A frame is two pieces of length
and `size` pieces of body, so that a read or a write can stop within a length,
between length and body and within a body. A piece carries its frame, but
a reader sees it only through `Lengths` and `Decoded`: pieces that are not what
they are taken for give any length and any frame. `excess` notes
that a frame was over the limit, after which everything may happen. Until then
`Transport` implements `IpcSession` (`SessionSpec`), with the frames whose last
piece was written as its queues: `IpcSession` is thus what is true of the frames
whatever the pieces, and `RemoteCall` what is true of the calls.

`Loading` has `registry`, the modules registered so far in their order (a later
one of a name replaces an earlier), and per thread the `GluProxy.__init__` it is
in (`loads`) and the proxy it built (`proxies`). `TagOf`, `MemberOf` and
`SignatureOf` are the compile-time part of the Rust macro and of the C++ header: which
tag and which member of the union a declared type has. `WrapperKey` says which
static a wrapper finds its function in. A PROCESS module may come back with any
of its `Programs`. `abi` is the copy of the core that physics resolved, `build`
the one that is on disk: `ResolveCore` tries the paths of `coreffi::abi` in their order
from every working directory, with and without a library search path.

`CallData` follows the data of a call from a generated Python caller to the
wrapper and back. Each slot of an argument array holds the number of the call
that wrote it; a text in a slot is the address of a bytes object, alive while the
caller's frame holds it. Values are a tag and, for texts, a length. The
callbacks of a PROCESS module carry the count `glucoreCall` computes; of their answers
only the buffers that stay behind are followed (section 3 says why). Two
threads may be in the same caller, since ctypes releases the interpreter lock for
the call; `overlaps` records which calls that happened to.

`Router_proof`, `IpcSession_proof`, `IpcDispatch_proof`, `ProcessStart_proof`,
`CallData_proof`, `Transport_proof` and `Loading_proof` hold the theorems about the
module they extend; `SetInduction` is a lemma three of them share.

`MCRouter`, `MCIpcDispatch`, `MCCallData` and `MCLoading` only supply constants.
`ProcessStart`, `IpcSession` and `Transport` are run as they stand. In the modules that
bound the number of calls, exchanges or attempts, `Rest` is a stuttering step of
the state in which the bound is used up, so that TLC's deadlock check finds
only real blocking.

## 3. Runs

| Run | Question | Bounds |
|---|---|---|
| `router_main` | are calls attributed to their makers, does no wrapper run without a link, does the stack not leak, is the policy implemented | 2 threads (symmetric: no definition tells them apart), the three modules and the cyclic links of `glucore.toml`, 4 nested calls on each |
| `router_mixed` (violation) | is the identity restored when a set/call/set call runs inside a guarded one | as `router_main`, 1 thread |
| `router_two_processes` (violation) | are callbacks of a second PROCESS module attributed to it | two PROCESS modules |
| `dispatch_main` | does every CALL on the wire name what was called, is the thread-local never stale, do calls and registrations end | 2 threads, 2 names, a program with a duplicate export that may have changed when it is started again, 2 registrations, depth 2, no writer preference |
| `dispatch_deadlock` (violation) | do calls end when a waiting writer stops new readers and wrappers make calls | depth 2, writer preference |
| `session_calls` | stop and wait, answers and outcomes go to their own, the session implements `RemoteCall`, everything returns | 5 exchanges, no re-entry, the process may die |
| `session_reentry` (violation) | does the session survive an indirect re-entry | 5 exchanges |
| `start_retry` | does every attempt return, connect to a free process and publish one that serves; are processes left behind | 3 attempts, processes may die or cut their registration short |
| `data_calls` | do arguments, results and callbacks with numbers arrive, are addresses alive, are buffers freed | 2 threads, 3 functions (one of each kind of module), texts of length 0 and 3 that may not decode, 3 calls |
| `loading` | does a proxy know the functions its calls run, do callers and functions agree on the union member, is anything in a proxy older than its load, is every proxy completed | 2 threads, 3 modules (one of each kind), 3 programs of the PROCESS module, 3 registrations, all working directories and search paths, 2 builds |
| `transport` | do both ends cut the stream at the same places, does it implement the session, does a call hang, do both ends ever write | 4 exchanges, bodies of 1 to 3 pieces with a limit of 2, a socket of 2 pieces, the process may die |
| `data_callback_texts` (violation) | do callbacks with Strings arrive | lengths 3, 4 and 13, and an Int with a String |

Why the bounds are enough to be interesting. The links of the repository close a
cycle of three modules, so four nested calls go once around it and on. Two
registrations put the publication of a module between any two look-ups of a
dispatch to it, to an earlier start of it or to the other one, on another thread or on
the thread that registered before. Five exchanges hold a call with several callbacks
and further calls after it. Three attempts allow a late process to meet the two
attempts after its own. Three calls allow a call that raised, one that
follows in the same array and one in another thread.

A socket of two pieces is full after any length, and a
body of one piece more than the limit is the smallest that is refused. Three
registrations of two threads replace a module in the middle of the construction
of a proxy and leave a further one. Its programs have a name that occurs twice
with different signatures, and different names and lengths of tables; C++ has
two functions of one signature.

The violations are disagreements of the code with its documents or comments:

- **`router_mixed`** (`examples/physics/src/lib.rs:260`): `coreffi::call_as` ends
  by setting the literal `"python"`, which clears the whole stack, also inside a
  callback that runs under a guard. The guard then pops the only name and the
  host's next call is denied. `docs/05-link-enforcement.md:65` says the previous
  identity MUST be restored.
- **`router_two_processes`** (`core/src/runtime.rs:134`): the guard of a callback
  carries the literal `java_renderer`. `docs/03-wire-protocol.md:116` says it is
  the process module's name.
- **`dispatch_deadlock`** (`core/src/runtime.rs:171`): the read guard is held for
  the round trip and `dispatch` read-locks again for a callback; with a
  registration waiting for the write lock in between, both threads wait for ever.
- **`session_reentry`** (`core/src/runtime.rs:124`): only a callback whose direct
  target is the process is refused. Over the links of `glucore.toml`
  (java_renderer, physics, cpp_engine, java_renderer) a second CALL gets on the
  open session, and the process ends up leaving its loop.
- **`data_callback_texts`** (`GluAdapter.java:174`): the number of arguments is
  the length of their encoding divided by nine; the Javadoc above it allows Strings.

Two more disagreements were found by reading and have no run of their own; no property
claims what the documents say of them:

- `encode_callback_result` (`core/src/fctp.rs:252`) answers every successful callback
  with the Float tag and the eight bytes of the value. `docs/03-wire-protocol.md:132`
  says that the return tag and a value that depends on it follow the status. Only for
  functions that return a Float this is so: an Int arrives as an integer under a Float tag,
  and a String as the address of a buffer in the host, which nobody frees (the
  `callback` leak of `CallData`).
- `coreffi::abi` (`examples/physics/src/lib.rs:207`) may open a second copy of the core,
  with a REGISTRY of its own, although the comment at 164-167 and `KNOWN_FOOTGUNS.md:35`
  say that this does not happen. The host loads `<root>/target/release/...`. Started
  from `scripts/`, as `docs/10-examples.md:252` does, physics tries
  `<root>/scripts/../target/release/...`, and a library search path that leads to the core
  comes first of all: other names, so that the loader compares the files. After a
  build under the running host these differ. In `loading` this is the step to
  `abi = 2` by `Dlopen`; before a build, or by the path of the host, it is `abi = 1`.

`PROJECT.json` has, for each property of a passing run, a mutant of a definition
that breaks it: the mutants are definitions next to the ones they change (their
names extend that of the original), and no specification uses them.

## 4. Properties worth reading

- `Router!AttributedToCaller`, `RunsOverDeclaredLink`: relate the identity read
  by `dispatch` to the code that is really on the stack.
- `IpcDispatch!WireMatchesCall`, `ContextIsOwn`: relate what was called to what
  the tables say at the moment the CALL is sent, three look-ups later.
- `IpcSession!AnswerIsOwn`, `OutcomeIsOwn`: relate frames matched by position.
- `ProcessStart!PeerIsFree`: nobody queues at a listener whose process has taken
  its only connection. The read of the registration has no time-out, so this is
  what makes `AttemptsReturn` true. It holds because the file is removed
  before every spawn and the new process removes it again before it binds.
- `ProcessStart!NoneLeftBehind`: after an attempt that did not time out no
  process is left that the core has no connection to. After a time-out there
  may be one: the `Child` is dropped and `sh` goes on, waiting in `accept`.
- `CallData!ArgsArrive`, `ReadsLiveBytes`: relate the calls to the shared array,
  including calls that raised in the middle of packing. They except calls that
  overlapped with another of the same function, whose arguments are mixed
  (`adapter.py:250`), and say that nobody else is affected.
- `CallData!BuffersFreed`: what an allocation of one language is freed with in the
  other. It excepts three leaks of the code by name (`Leaks`).
- `Transport!SessionSpec`, `Aligned`: both ends agree on where frames begin,
  although nothing in the stream says so, also when the process dies within one.
- `Transport!CallsReturn`: a CALL that is too large ends the session but hangs
  nobody. A RESULT, a callback or an answer that is too large leaves its body in the
  stream, and an end that takes two pieces of it for a length may wait for ever.
- `Transport!NotBothWriting`: however small the buffers, the ends cannot block
  each other, because each writes only when the other reads.
- `Loading!ProxyExact`, `CallsMatch`: relate a proxy, built by separate look-ups, to
  what a call by name runs now. Both hold as long as the module was only
  registered again with the same table; otherwise the callers are stale for good.
- `Loading!NothingStale`: what is left of that when the table changes in the middle of
  the look-ups. Names and signatures may then come from different tables, functions
  may be missing, and a signature may be the empty one, but nothing comes from a
  table that was replaced before the load began, and no signature is older than its name.

## 5. Fairness

- `IpcSession`: weak fairness of both ends' reads (they block in `read` and the
  operating system delivers what was written), of the answer to a callback and of
  the result of a function (the code of modules makes finitely many calls and
  returns). None for the death of the process, for making calls or callbacks.
- `IpcDispatch`: weak fairness of each thread's steps in a dispatch and in a
  registration (the scheduler), strong fairness of a return at each depth (the
  function of a call makes finitely many nested calls, between which the return is
  enabled again and again). None for beginning calls or registrations.
- `ProcessStart`: weak fairness of the core and of each process that can take a
  step. The retry loop gives up after five seconds, so a core that cannot connect
  takes `ConnectTimesOut`. None for deaths, for the exit of the host or for
  another attempt.

- `Transport`: weak fairness of each end, which reads and writes what it can.
- `Loading`: weak fairness of each thread that builds a proxy.

`Router` and `CallData` are checked for safety only. `RegistrationsEnd` assumes
that round trips do not go on for ever: with readers that pass writers, threads
that take turns in round trips keep a registration waiting.

## 6. Proofs

Every invariant of a passing run is the subject of a theorem, and so are the three
refinements (`PolicySpec`, `RemoteCallSpec`, `SessionSpec`). The theorems hold for every
value of the constants that the named `ASSUME` of the module allows: any threads,
modules, links, functions, programs, sizes, capacities, depths, exchanges and
attempts. Those that need more say so in an `ASSUME` of their own. `PROJECT.json`
lists them with the property each one states.

The proofs of a component have the same plan. `TypeInv` is the type invariant with
what makes it inductive. On it come the parts of the inductive invariant, each with
a lemma that every step keeps it, in an order in which each uses only the parts
before; parts that need each other are kept together. The theorems combine them.

*Router.* `TypeCorrect` is inductive by itself. The other properties need
`Inv`: the frames of a thread form a chain in which each call was made by the
code of the call below (`CallsOK`), and the stack of identities is no longer than
the chain, with the host at its bottom when it is as long and all calls on it are
guarded (`StackOK`). `StackOK` is the point: a set/call/set call clears the stack
below running guards, whose drops then pop names that are not theirs, and it is
the length and the bottom of the stack that still guarantee that the top is the
caller's name or there is none. From `Inv` follow
`CallsAttributedToCaller`, `WrappersRunOverDeclaredLinks`, `StackStaysBounded`
and the refinement of `LinkPolicy`. These assume
`Processes \subseteq {JavaRenderer}`, the repository's situation;
`router_two_processes` shows that they need it. `GuardedCallsKeepIdentity` is the counterpart of `router_mixed`: if all modules
call under a guard (`Scoped = Modules`), the host always finds its identity again.
Its invariant `Guarded` says that the stack is exactly the host and one name per
guarded call, so that each drop pops its own. The lemmas say what the
helpers on sequences and on the identity stack return, and each action has a
lemma or a step of its own.

*IpcSession.* `Inv` says that the two ends move in step: with no call open the
socket is silent, and for the open call one of seven phases (sent, executing,
callback sent, dispatched, answered, returned, lost) says where the core, the
process and both directions are; `HistoryOK` says what the histories record. It
is proved under `~Reentry`, which `session_reentry` shows to be necessary. From
it follow the one frame in flight, that answers and outcomes are the exchange's
own, that the session is not left, and the refinement of `RemoteCall`, through
any number of callbacks and the death of the process at any point.

*IpcDispatch.* `LockIsKept` is inductive with the types. `RegistryInv` says that a
name has wrappers of one kind, and those of a PROCESS a socket except just before
the registration that made them publishes it. `CallsInv` follows one dispatch through
its look-ups. Its point is `ContextOK`: a look-up that found no socket while the
thread holds a read guard is still right when the wrapper is found, because no
registration can publish under the guard; and a thread without a guard has no context left.
So the wrapper never meets the context of an outer round trip (`ContextsAreOwn`),
at any depth, although nothing resets the thread-local around a nested dispatch.
`TablesInv` says that what is published is in the export table, at its base and
with its socket, and that sockets are numbered upwards, also in the middle of a
registration; the action property `TablesOnlyGrow` follows from it (no entry is lost
or changed, and the index of a module changes only together with its socket, which
is always a later one). `WireInv` says that the answers a dispatch has collected so far
fit together: the socket is one of the module's and not later than the one published, the
index that goes with the published socket is exactly the entry that was called (`Matches`),
and with an earlier socket, if the program is the same, it is that entry of the same start or of
a later one. What this amounts to is `CallsGoWhereTheyShould`, which
assumes nothing about the programs: only for a CALL to an earlier process does
`WireMatchesCall` ask that the programs be the same (`OneProgram`), as section 7 says.
`Modules # {}` is assumed, as Init gives every thread one.

`DeadlockNeedsBoth` is the positive half of `dispatch_deadlock`. `NoCircle` says that whoever
waits for the lock waits for a thread that has it, or is the next to get it, and does not wait
itself. It holds if the lock lets readers pass a waiting writer, and it holds if no
thread dispatches a callback at the moment, under whatever lock: the deadlock needs both. It
rests on `LockDiscipline` and on `OneAtATime`, that no thread registers a module within
a call.

*ProcessStart.* `ConnectInv` has five parts. `Connected` says that at most one attempt
ever connects to a process. It needs `Fresh`: as long as an attempt has not connected,
nobody has connected to the process the socket file leads to. `RemoveStale` makes it
true, and a late process that deletes the file or binds it keeps it, since nobody has
connected to the listener of that process either. `Staged` relates the stage of a process to its connection and to what it has
written, `Served` is about what was published. From these follow `ProcessesAreFree` and
`SocketsAreServed`. `NobodyLeftBehind` needs `Own`: until an attempt
times out, the file only ever leads to the process of the current attempt.

*CallData.* `ArgsInv` says that calls of one function that are under way at once are
recorded as overlapping (`Distinct`), and that an argument array holds, up to the slot a call has come
to, that call, with the bytes objects of its texts alive (`Stored`). A call that
raised in the middle of packing leaves slots behind; they are above the one the next
call stands at, and are overwritten before they are read. From it follow `ArgumentsArrive` and
`BytesAreLive`. `ResultsInv` says that a buffer that is not a leak belongs to a call that has
just returned with a text, which `Unpack` frees. `CallbacksArrive` is the counterpart
of `data_callback_texts`: under `NineBytesEach` (every argument takes nine bytes, and
there are fewer than 256) the count that `glucoreCall` computes is right.

*Transport.* `Turn` has a disjunct per phase of a call (calling, executing, requesting,
answering, ...) that says where both ends are and what the two directions hold: at most
one frame, of the end whose turn it is. `Pipe` says what it means that a direction holds a
frame in the middle of everything: what the reader has of it, what is on the way and
what is still to write are its pieces, in order and without a gap, all of them unless
the writer died. A piece that moves keeps `Pipe` (`PieceSteps`), an end that reads
a frame reads all of it (`FrameRead`), and each action leads from phase to phase. All of
it holds until a frame is over the limit (`excess`), after which only
`TypeOK` is claimed, and that an end which reads has nothing to write (`Silence`). `BytesImplementSession` shows action by action that the step is one of `IpcSession`
or a stutter: a piece that completes a frame appends it to a queue of the session, the
others change nothing (`Ways`). `CallsCannotStandStill` is the state behind `CallsReturn`:
while a call is open the two ends are never both blocked, since each phase of `Turn`
says who has its pieces on the way, and while a reader wants more of a frame that was written
there is more (`ReaderIsServed`). The last section composes the two layers: `IpcSession_proof`
is instantiated with the frames that the bytes make (`Calls`, the session of `Session` with its
lemmas, `SameSession`), and every step of the bytes then keeps the session's invariant
(`CallsInv`). So answers and outcomes are one's own over bytes too (`BytesKeepReplies`), and
calls over bytes are at-most-once remote calls (`BytesImplementRemoteCall`), until a
frame is refused for its size.

*Loading.* `ExactInv` says that, as long as its module came with no other table, a
load has the signatures of exactly the names it has passed, each that of the last entry
of its name. With duplicates an entry may be asked for twice and must give the
same answer. `ProxiesAreExact` is its end, `CallsFindTheirFunction` adds
that the wrapper's static is its own (`WrapperKey`) and that tags and members agree.
`FreshInv` needs no such condition: a name that is about to be looked up is in a table the
module has had since the load began (`NamedSince`), the registry only grows, and the core
answers from the last table (`SignatureIsOffered`). `ProxiesAreFresh` is its end.

The libraries' theorems about induction take an operator for the predicate, which no
installed prover can instantiate. `SetInduction` states induction over the numbers
for a set, proved from the well-foundedness of their order (`WFMin`), and the lemmas
about recursive functions and greatest elements use it with the set of the numbers that have
the property. `CallData!Bytes` and `Transport!Frames` are recursive functions for this reason.

Only model-checked: liveness (`CallsEnd`, `RegistrationsEnd`, `CallsReturn` of both
session modules, `AttemptsReturn`, `ExitsWithSocket`, `LoadsEnd`), which
rests on fairness and is outside the prover's reach. Each of the
five violations has a theorem as its positive half, with the hypothesis that fails in it:
`Scoped = Modules` (`router_mixed`), one PROCESS module (`router_two_processes`),
`~Reentry` (`session_reentry`), a lock without writer preference or no callbacks
(`dispatch_deadlock`) and `NineBytesEach` (`data_callback_texts`).

## 7. Assumptions and what is left out

- In `IpcSession` frames are whole; `Transport` justifies it while no frame is over the limit.
  After one, `Transport` gives the statuses of later calls freely, but not the panics of the
  decoders on bodies that are none (the core's would abort the host).
- One host thread uses a session at a time (`docs/01-architecture.md:192`): nothing
  in `ipc_roundtrip` keeps two apart, and two would read each other's frames.
- In `IpcDispatch` an ARTIFACT is registered once. A dispatch that is between its look-ups while
  a PROCESS module is started again may use the socket of the earlier process and the index
  of the later one. With the same program the CALL still names the right function; with a
  changed one (`OneProgram` fails) it may name a function the earlier process does not have or
  means otherwise, and `WireMatchesCall` claims nothing about its name. A CALL to the process
  that serves the module is always for the function that was called.
- `ProcessStart` has one thread and one path. Two threads that start modules on
  one path could queue at each other's processes. Attempts may follow a success.
- Locks are not poisoned: no panic happens under them in the code modelled, and a
  panic in an `extern "C"` function aborts the host.
- Three leaks of the code are in the model and excepted from `BuffersFreed`: an empty
  text of a C++ module (one byte is allocated, none freed), a String that is not
  UTF-8, and texts in callbacks. Messages of errors live for ever by design
  (`docs/09-api-reference.md:239`) and are no buffers.
- Wrappers do not look at the number of arguments they get. Callers built from the
  signature send the right one; a callback that does not (`data_callback_texts`)
  makes the wrapper read past the array.
- The content of answers to callbacks is not modelled, and that there is one image of the
  core is not claimed (section 3).
- `Loading` follows the signatures of changed tables and `IpcDispatch` their names and indices, each
  without the other.
- Widths of numbers, the bytes of frames, malformed frames beyond "does not
  decode", `Handle`, file and name errors of the
  adapter and the arithmetic of the examples are not modelled.
- The death of a process and the exit of the host are external: their effect
  is the end of the streams.

## 8. Plan

Done so far, in the order of importance: the link check (`Router`), the session
(`IpcSession`) and the bytes under it (`Transport`), the locks (`IpcDispatch`), the
start-up (`ProcessStart`), the data (`CallData`) and the loading of modules
(`Loading`), with the proofs of the invariants of all of them and of the three
refinements.

The refinements are composed from the bytes up to `RemoteCall`. Open, in the order of what
a reader would gain:

1. A dispatch over a changed program as its caller sees it: the names and indices of
   `IpcDispatch` with the signatures and the proxies of `Loading`. The parts are proved
   separately; their composition would say which calls of a stale proxy can reach which program.
2. Sessions in parallel: one `Transport` per PROCESS module under the locks of `IpcDispatch`,
   with the callbacks of one session as the calls of another.
3. What a frame over the limit leaves behind: `Transport` gives lengths and statuses freely
   after it, and only `TypeOK` and the return after a refused CALL are claimed there.
