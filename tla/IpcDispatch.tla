------------------------------ MODULE IpcDispatch ------------------------------
(***************************************************************************)
(* dispatch() at the granularity of its locks, against the registration of *)
(* PROCESS modules (core/src/router.rs 160-200, core/src/handles.rs,       *)
(* core/src/runtime.rs).                                                   *)
(*                                                                         *)
(* dispatch takes the read lock of IPC_STATE for the socket, releases it,  *)
(* reads REGISTRY, then takes IPC_STATE again for the base index.  The IPC *)
(* wrapper takes a third read guard and keeps it for its whole round trip, *)
(* through the callbacks, which dispatch in their turn.  Registration of a *)
(* PROCESS module changes both tables under the write lock of IPC_STATE.   *)
(* REGISTRY is locked only inside single operations, so each of these is   *)
(* one step here.  The link check is Router's subject and is left out.     *)
(***************************************************************************)
EXTENDS Naturals, Sequences, SequencesExt, FiniteSets, FiniteSetsExt

CONSTANTS Threads,           (* threads of the host process                      *)
          Modules,           (* module names                                     *)
          Functions,         (* export names                                     *)
          ExportLists,       (* per module, the export tables it may come with   *)
          NoThread,          (* no thread                                        *)
          NoCtx,             (* IPC_CALL_CTX = None                              *)
          WriterPreference,  (* a waiting writer of IPC_STATE stops new readers  *)
          MaxDepth,          (* bound on the calls in progress on one thread     *)
          MaxRegistrations   (* bound on the registrations of a behaviour        *)

ASSUME IpcDispatchAssumption ==
    /\ NoThread \notin Threads
    /\ Modules # {}
    /\ \A m \in Modules : ExportLists[m] \subseteq Seq(Functions)
    /\ WriterPreference \in BOOLEAN
    /\ MaxDepth \in Nat
    /\ MaxRegistrations \in Nat

VARIABLES modules,        (* REGISTRY.modules, with the kind of its wrappers     *)
          moduleIndex,    (* REGISTRY.module_index, 0 for an absent name         *)
          ipcExports,     (* IPC_STATE.exports                                   *)
          moduleSockets,  (* IPC_STATE.module_sockets, 0 for an absent name      *)
          moduleBase,     (* IPC_STATE.module_base_idx; absent reads as 0        *)
          readers,        (* read guards of IPC_STATE each thread holds          *)
          writer,         (* the thread that holds its write guard               *)
          waiting,        (* the threads blocked in its write()                  *)
          ctx,            (* IPC_CALL_CTX of each thread                         *)
          calls,          (* the dispatches in progress on each thread           *)
          reg             (* the registration under way on each thread           *)

registry == <<modules, moduleIndex>>
ipcTables == <<ipcExports, moduleSockets, moduleBase>>
lock == <<readers, writer, waiting>>
vars == <<registry, ipcTables, lock, ctx, calls, reg>>

Kinds == {"artifact", "process"}
CallPcs == {"socket", "find", "base", "wrapper", "artifact", "roundtrip"}
RegPcs == {"idle", "lock", "register", "publish"}

Meta == [module : Modules, function : Functions, sock : Nat]
Module == [name : Modules, kind : Kinds, entries : Seq(Functions)]
Ctx == [idx : Nat, sock : Nat]

(* A dispatch: its target, the socket the first lookup returned (0 = None), *)
(* what find_export returned, and once the CALL is sent, the context it was *)
(* sent with.                                                               *)
Call == [pc : CallPcs, module : Modules, function : Functions, sock : Nat,
         entry : Nat, kind : Kinds, sent : Ctx]

Reg == [pc : RegPcs, module : Modules, entries : Seq(Functions), base : Nat, sock : Nat]

IdleReg == [pc |-> "idle", module |-> CHOOSE m \in Modules : TRUE,
            entries |-> <<>>, base |-> 0, sock |-> 0]

Top(t) == Last(calls[t])
At(t, pc) == calls[t] # <<>> /\ Top(t).pc = pc

\* The rest of the calls of t after the one on top becomes c.
WithTop(t, c) == [calls EXCEPT ![t] = Append(Front(@), c)]

(* --------------------------- the lock IPC_STATE -------------------------- *)

\* read() returns: there is no writer, and none waits if writers go first.
CanRead == /\ writer = NoThread
           /\ WriterPreference => waiting = {}

\* Mutant of CanWrite: the readers are not waited for.
CanWriteAnyway == writer = NoThread

\* write() returns.
CanWrite == /\ writer = NoThread
            /\ \A t \in Threads : readers[t] = 0

(* ------------------------------- registration ---------------------------- *)

\* The index find_export returns: a name that occurs twice keeps its last entry.
EntryIndex(entries, f) == CHOOSE i \in 0 .. Len(entries) - 1 :
    /\ entries[i + 1] = f
    /\ \A j \in i + 2 .. Len(entries) : entries[j] # f

\* What m was registered as, or is about to be.
KindsOf(m) == {e.kind : e \in {x \in ToSet(modules) : x.name = m}}
              \cup {"process" : t \in {u \in Threads : reg[u].pc # "idle" /\ reg[u].module = m}}

Registrations == Len(modules) + Cardinality({t \in Threads : reg[t].pc \in {"lock", "register"}})

MayRegister(t) == /\ calls[t] = <<>>
                  /\ reg[t].pc = "idle"
                  /\ Registrations < MaxRegistrations

AddsToRegistry(m, kind, entries, index) ==
    /\ modules' = Append(modules, [name |-> m, kind |-> kind, entries |-> entries])
    /\ moduleIndex' = [moduleIndex EXCEPT ![m] = index]

\* Mutant of AddToRegistry: the index is read after the push.
AddToRegistryLate(m, kind, entries) == AddsToRegistry(m, kind, entries, Len(modules) + 2)

\* glucore_register_module
AddToRegistry(m, kind, entries) == AddsToRegistry(m, kind, entries, Len(modules) + 1)

\* load_module of an ARTIFACT, which is loaded once.
RegisterArtifact(t, m, entries) ==
    /\ MayRegister(t)
    /\ KindsOf(m) = {}
    /\ AddToRegistry(m, "artifact", entries)
    /\ UNCHANGED <<ipcTables, lock, ctx, calls, reg>>

\* glucore_register_process_module up to ipc_state().write(): the process is
\* spawned, connected and has sent its export table.  The module may have been
\* started before; its earlier process goes on.
StartProcess(t, m, entries) ==
    /\ MayRegister(t)
    /\ KindsOf(m) \subseteq {"process"}
    /\ reg' = [reg EXCEPT ![t] = [pc |-> "lock", module |-> m, entries |-> entries,
                                  base |-> 0, sock |-> 0]]
    /\ waiting' = waiting \cup {t}
    /\ UNCHANGED <<registry, ipcTables, readers, writer, ctx, calls>>

\* The write guard is taken and one meta is pushed per export.  Every process has
\* a socket of its own, which stays open; later ones have larger numbers here.
PushExports(t) ==
    LET sock == Len(modules) + 1
    IN  /\ reg[t].pc = "lock"
        /\ CanWrite
        /\ writer' = t
        /\ waiting' = waiting \ {t}
        /\ ipcExports' = ipcExports \o [i \in 1 .. Len(reg[t].entries) |->
               [module |-> reg[t].module, function |-> reg[t].entries[i], sock |-> sock]]
        /\ reg' = [reg EXCEPT ![t].pc = "register", ![t].base = Len(ipcExports), ![t].sock = sock]
        /\ UNCHANGED <<registry, moduleSockets, moduleBase, readers, ctx, calls>>

RegisterProcess(t) ==
    /\ reg[t].pc = "register"
    /\ AddToRegistry(reg[t].module, "process", reg[t].entries)
    /\ reg' = [reg EXCEPT ![t].pc = "publish"]
    /\ UNCHANGED <<ipcTables, lock, ctx, calls>>

Publishes(t, base) ==
    /\ reg[t].pc = "publish"
    /\ moduleSockets' = [moduleSockets EXCEPT ![reg[t].module] = reg[t].sock]
    /\ moduleBase' = [moduleBase EXCEPT ![reg[t].module] = base]
    /\ writer' = NoThread
    /\ reg' = [reg EXCEPT ![t] = IdleReg]
    /\ UNCHANGED <<registry, ipcExports, readers, waiting, ctx, calls>>

\* Mutant of PublishSocket: the base index is the length after the push.
PublishSocketLateBase(t) == Publishes(t, Len(ipcExports))

\* The socket and the base index are published and the write guard dropped.
PublishSocket(t) == Publishes(t, reg[t].base)

(* --------------------------------- dispatch ------------------------------ *)

\* The host, the code of an ARTIFACT module, or a PROCESS module in the
\* middle of a round trip (a callback) calls m.f.
BeginCall(t, m, f) ==
    /\ reg[t].pc = "idle"
    /\ Len(calls[t]) < MaxDepth
    /\ calls[t] # <<>> => Top(t).pc \in {"artifact", "roundtrip"}
    /\ calls' = [calls EXCEPT ![t] = Append(@,
           [pc |-> "socket", module |-> m, function |-> f, sock |-> 0, entry |-> 0,
            kind |-> "artifact", sent |-> [idx |-> 0, sock |-> 0]])]
    /\ UNCHANGED <<registry, ipcTables, lock, ctx, reg>>

\* ipc_socket_for_module
LookupSocket(t) ==
    /\ At(t, "socket")
    /\ CanRead
    /\ calls' = WithTop(t, [Top(t) EXCEPT !.pc = "find", !.sock = moduleSockets[Top(t).module]])
    /\ UNCHANGED <<registry, ipcTables, lock, ctx, reg>>

\* The call on top of t is over; an IPC dispatch leaves no context behind.
Pop(t) ==
    /\ calls' = [calls EXCEPT ![t] = Front(@)]
    /\ ctx' = IF Top(t).sock # 0 THEN [ctx EXCEPT ![t] = NoCtx] ELSE ctx

\* find_export
FindExport(t) ==
    LET c == Top(t)
        m == modules[moduleIndex[c.module]]
    IN  /\ At(t, "find")
        /\ moduleIndex[c.module] # 0
        /\ c.function \in ToSet(m.entries)
        /\ calls' = WithTop(t, [c EXCEPT !.pc = IF c.sock # 0 THEN "base" ELSE "wrapper",
                                         !.entry = EntryIndex(m.entries, c.function),
                                         !.kind = m.kind])
        /\ UNCHANGED <<registry, ipcTables, lock, ctx, reg>>

FindsNothing(t, next) ==
    LET c == Top(t)
    IN  /\ At(t, "find")
        /\ moduleIndex[c.module] # 0 => c.function \notin ToSet(modules[moduleIndex[c.module]].entries)
        /\ calls' = next
        /\ UNCHANGED <<registry, ipcTables, lock, ctx, reg>>

\* Mutant of NotFound: a lookup that finds nothing is tried again.
NotFoundRetry(t) == FindsNothing(t, WithTop(t, [Top(t) EXCEPT !.pc = "socket"]))

\* find_export returned None: "module not found", "function not found".
NotFound(t) == FindsNothing(t, [calls EXCEPT ![t] = Front(@)])

\* ipc_base_idx_for_module, and the context is set for the wrapper.
SetContext(t) ==
    LET c == Top(t)
    IN  /\ At(t, "base")
        /\ CanRead
        /\ ctx' = [ctx EXCEPT ![t] = [idx |-> moduleBase[c.module] + c.entry, sock |-> c.sock]]
        /\ calls' = WithTop(t, [c EXCEPT !.pc = "wrapper"])
        /\ UNCHANGED <<registry, ipcTables, lock, reg>>

\* The wrapper of an ARTIFACT: its code runs, without a lock.
EnterArtifact(t) ==
    /\ At(t, "wrapper")
    /\ Top(t).kind = "artifact"
    /\ calls' = WithTop(t, [Top(t) EXCEPT !.pc = "artifact"])
    /\ UNCHANGED <<registry, ipcTables, lock, ctx, reg>>

\* ipc_dispatch_wrapper fails: "IPC wrapper called without context", or "IPC
\* export index out of range".
WrapperFails(t) ==
    /\ At(t, "wrapper")
    /\ Top(t).kind = "process"
    /\ ctx[t] # NoCtx => CanRead /\ ctx[t].idx >= Len(ipcExports)
    /\ Pop(t)
    /\ UNCHANGED <<registry, ipcTables, lock, reg>>

EntersRoundtrip(t, guards) ==
    /\ At(t, "wrapper")
    /\ Top(t).kind = "process"
    /\ ctx[t] # NoCtx
    /\ CanRead
    /\ ctx[t].idx < Len(ipcExports)
    /\ readers' = [readers EXCEPT ![t] = @ + guards]
    /\ calls' = WithTop(t, [Top(t) EXCEPT !.pc = "roundtrip", !.sent = ctx[t]])
    /\ UNCHANGED <<registry, ipcTables, writer, waiting, ctx, reg>>

\* Mutant of EnterRoundtrip: the read guard is not kept for the round trip.
EnterRoundtripNoGuard(t) == EntersRoundtrip(t, 0)

\* ipc_dispatch_wrapper: the read guard is taken; it is kept for the round trip.
EnterRoundtrip(t) == EntersRoundtrip(t, 1)

\* The code of an ARTIFACT returns.
ReturnArtifact(t) ==
    /\ At(t, "artifact")
    /\ Pop(t)
    /\ UNCHANGED <<registry, ipcTables, lock, reg>>

ReturnsRoundtrip(t, guards) ==
    /\ At(t, "roundtrip")
    /\ readers' = [readers EXCEPT ![t] = @ - guards]
    /\ Pop(t)
    /\ UNCHANGED <<registry, ipcTables, writer, waiting, reg>>

\* Mutant of ReturnRoundtrip: the guard is leaked, as the stream is on purpose.
ReturnRoundtripForget(t) == ReturnsRoundtrip(t, 0)

\* ipc_roundtrip returns with a result or an error; the read guard is dropped.
ReturnRoundtrip(t) == ReturnsRoundtrip(t, 1)

(* ----------------------------- specification ----------------------------- *)

Init ==
    /\ modules = <<>>
    /\ moduleIndex = [m \in Modules |-> 0]
    /\ ipcExports = <<>>
    /\ moduleSockets = [m \in Modules |-> 0]
    /\ moduleBase = [m \in Modules |-> 0]
    /\ readers = [t \in Threads |-> 0]
    /\ writer = NoThread
    /\ waiting = {}
    /\ ctx = [t \in Threads |-> NoCtx]
    /\ calls = [t \in Threads |-> <<>>]
    /\ reg = [t \in Threads |-> IdleReg]

RegistrationStep(t) == PushExports(t) \/ RegisterProcess(t) \/ PublishSocket(t)

DispatchStep(t) ==
    \/ LookupSocket(t) \/ FindExport(t) \/ NotFound(t) \/ SetContext(t)
    \/ EnterArtifact(t) \/ WrapperFails(t) \/ EnterRoundtrip(t)

Return(t) == ReturnArtifact(t) \/ ReturnRoundtrip(t)

Next == \E t \in Threads :
    \/ \E m \in Modules : \E entries \in ExportLists[m] :
           RegisterArtifact(t, m, entries) \/ StartProcess(t, m, entries)
    \/ RegistrationStep(t)
    \/ \E m \in Modules, f \in Functions : BeginCall(t, m, f)
    \/ DispatchStep(t)
    \/ Return(t)

Spec == Init /\ [][Next]_vars

\* The scheduler runs every thread that is not blocked, and the function a
\* call executes makes finitely many calls of its own and then returns.
FairSpec ==
    /\ Spec
    /\ \A t \in Threads : WF_vars(RegistrationStep(t)) /\ WF_vars(DispatchStep(t))
    /\ \A t \in Threads : \A d \in 1 .. MaxDepth : SF_vars(Len(calls[t]) = d /\ Return(t))

(* ------------------------------- properties ------------------------------ *)

\* Type invariant.
TypeOK ==
    /\ modules \in Seq(Module)
    /\ moduleIndex \in [Modules -> 0 .. Len(modules)]
    /\ ipcExports \in Seq(Meta)
    /\ moduleSockets \in [Modules -> Nat]
    /\ moduleBase \in [Modules -> 0 .. Len(ipcExports)]
    /\ readers \in [Threads -> Nat]
    /\ writer \in Threads \cup {NoThread}
    /\ waiting \subseteq Threads
    /\ ctx \in [Threads -> Ctx \cup {NoCtx}]
    /\ calls \in [Threads -> Seq(Call)]
    /\ reg \in [Threads -> Reg]

\* The lock is a lock: a thread holds one read guard per round trip it is in,
\* and while a registration is between its first and its last change of the
\* tables no round trip is in progress on any thread.
LockDiscipline ==
    \A t \in Threads :
        /\ readers[t] = Cardinality({i \in DOMAIN calls[t] : calls[t][i].pc = "roundtrip"})
        /\ writer = t <=> reg[t].pc \in {"register", "publish"}
        /\ writer # NoThread => readers[t] = 0
        /\ t \in waiting <=> reg[t].pc = "lock"

\* m comes with one export table, however often it is started.
OneProgram(m) == \A a, b \in ExportLists[m] : a = b

\* The CALL a dispatch puts on the wire goes to a process of the module that was
\* called, and when that process is the one that serves the module, it is for the
\* function that was called, by its index in the table of that very process: the
\* two tables and the two lookups of IPC_STATE agree although they are read at
\* different times.  When the module was started again in between, it may be the
\* socket of the earlier process with the index of the later one, never the
\* reverse; if both run the same program, the function is right all the same.
WireMatchesCall ==
    \A t \in Threads : \A c \in ToSet(calls[t]) :
        c.pc = "roundtrip" =>
            LET meta == ipcExports[c.sent.idx + 1]
                metas == {e \in ToSet(ipcExports) : e.module = c.module}
            IN  /\ c.sent.sock = moduleSockets[c.module] =>
                       meta = [module |-> c.module, function |-> c.function, sock |-> c.sent.sock]
                /\ <<>> \notin ExportLists[c.module] => c.sent.sock \in {e.sock : e \in metas}
                /\ OneProgram(c.module) => /\ meta.module = c.module
                                           /\ meta.function = c.function
                                           /\ c.sent.sock <= meta.sock

\* A dispatch never finds in IPC_CALL_CTX the context of another call: the
\* wrapper gets its own or none.  (An outer round trip leaves its context in
\* the thread-local while it dispatches a callback.)
ContextIsOwn ==
    \A t \in Threads :
        At(t, "wrapper") /\ Top(t).kind = "process" /\ ctx[t] # NoCtx =>
            ctx[t].sock = Top(t).sock

\* A call that is dispatched ends, and with it every callback gets its answer.
CallsEnd == \A t \in Threads : calls[t] # <<>> ~> calls[t] = <<>>

\* A registration that has its process ends, unless round trips go on for ever:
\* a reader that got its answer is not in the way of the writer that waits.
RegistrationsEnd ==
    <>[](\A t \in Threads : ~At(t, "roundtrip")) =>
        \A t \in Threads : reg[t].pc # "idle" ~> reg[t].pc = "idle"
===============================================================================
