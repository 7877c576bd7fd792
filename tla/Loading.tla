-------------------------------- MODULE Loading --------------------------------
(***************************************************************************)
(* How declared functions become callable: the tables modules export       *)
(* (adapters/rust, adapters/cpp, the registration message of a PROCESS     *)
(* module), REGISTRY with its introspection functions                      *)
(* (core/src/handles.rs), the proxies that adapters/python builds from     *)
(* them one locked look-up at a time, while other threads load the same    *)
(* modules again: a PROCESS module may be started anew from a changed      *)
(* program.  What a call does beyond finding its function is the subject   *)
(* of Router, IpcDispatch and CallData.                                    *)
(*                                                                         *)
(* The second part is how physics finds the core (coreffi::abi): the       *)
(* registry only exists in the image of the core that the host loaded.     *)
(***************************************************************************)
EXTENDS Naturals, Sequences, FiniteSets, FiniteSetsExt, Functions

CONSTANTS Threads,       (* threads of the host process                        *)
          Modules,       (* module names                                       *)
          Process,       (* those that are started as a process                *)
          Programs,      (* the programs of each module: lists of declarations *)
          Absent,        (* no name, proxy or declaration                      *)
          Directories,   (* the working directories of the host                *)
          SearchPaths,   (* whether the library search path leads to the core  *)
          MaxLoads,      (* bound on the registrations of a behaviour          *)
          MaxBuilds      (* bound on the builds of the core                    *)

\* Types of Rust, of C++, and the tags themselves for a PROCESS module.
Types == {"f64", "i64", "String", "&str", "Vec<u8>", "&[u8]", "()",
          "double", "int64_t", "std::string", "std::vector<uint8_t>", "void",
          "Float", "Int", "Buffer", "Void"}
Declaration == [name : STRING, params : Seq(Types), returns : Types]

ASSUME LoadingAssumption ==
    /\ Process \subseteq Modules
    /\ DOMAIN Programs = Modules
    /\ \A m \in Modules : Programs[m] # {} /\ Programs[m] \subseteq Seq(Declaration)
    /\ Absent \notin STRING /\ Absent \notin Declaration
    /\ \A m \in Modules \ Process : Cardinality(Programs[m]) = 1
    /\ Directories \subseteq {"root", "scripts", "elsewhere"}
    /\ SearchPaths \subseteq BOOLEAN
    /\ MaxLoads \in Nat
    /\ MaxBuilds \in Nat \ {0}

VARIABLES registry,  (* the modules registered in the host's core, as they came *)
          loads,     (* the GluProxy.__init__ each thread is in                 *)
          proxies,   (* the proxy each thread built last                        *)
          build,     (* the build of the core that is in target/release         *)
          abi        (* ABI of physics: the build it resolved, 0 for none       *)

vars == <<registry, loads, proxies, build, abi>>

(* ------------------------------- tables ---------------------------------- *)

\* match_type with tag_to_core_variant, and type_tag.
TagOf(type) ==
    CASE type \in {"f64", "double", "Float"} -> "Float"
      [] type \in {"i64", "int64_t", "Int"} -> "Int"
      [] type \in {"String", "&str", "std::string"} -> "String"
      [] type \in {"Vec<u8>", "&[u8]", "std::vector<uint8_t>", "Buffer"} -> "Buffer"
      [] OTHER -> "Void"

\* The member of a GluValue a wrapper reads an argument of a type from and
\* stores a result in: generate_unpacker and generate_packer, unpack_one and
\* pack_one, encode_call and decode_result.
MemberOf(type) ==
    CASE type \in {"f64", "double", "Float"} -> "float"
      [] type \in {"String", "&str", "std::string"} -> "string"
      [] type \in {"Vec<u8>", "&[u8]", "std::vector<uint8_t>", "Buffer"} -> "buffer"
      [] OTHER -> "int"

\* The member the Python caller uses for a tag; a Void result is not read.
PythonMember(tag) == [Float |-> "float", Int |-> "int", String |-> "string",
                      Buffer |-> "buffer", Void |-> "int"][tag]

SignatureOf(d) == [params |-> [i \in DOMAIN d.params |-> TagOf(d.params[i])],
                   returns |-> TagOf(d.returns)]
Empty == [params |-> <<>>, returns |-> "Void"]      \* GluSignatureFFI::empty

\* Mutant of WrapperKey: s_fn without the Tag parameter.
WrapperKeyNoTag(program, i) == [types |-> SignatureOf(program[i])]

\* The static that holds the function of export i: one per Tag and signature in
\* C++, a wrapper of its own in Rust.
WrapperKey(program, i) == [tag |-> i, types |-> SignatureOf(program[i])]

\* The function a wrapper ends in: make_wrapper wrote the static last for it.
Runs(program, i) ==
    program[Max({j \in DOMAIN program : WrapperKey(program, j) = WrapperKey(program, i)})]

\* glucore_module_info, or the entries built from a registration message.
Table(program) ==
    [i \in DOMAIN program |->
        [name |-> program[i].name, signature |-> SignatureOf(program[i]), runs |-> Runs(program, i)]]

(* ------------------------------- REGISTRY -------------------------------- *)

Registrations(m) == {k \in DOMAIN registry : registry[k].module = m}

\* Mutant of Registered: module_index keeps the first index of a name.
RegisteredFirst(m) == registry[Min(Registrations(m))].table

Registered(m) == registry[Max(Registrations(m))].table    \* by module_index

\* export_index: of entries with one name the last.
Entries(m, name) ==
    IF Registrations(m) = {} THEN {}
    ELSE {i \in DOMAIN Registered(m) : Registered(m)[i].name = name}

\* Mutant of GetSignature: a scan that stops at the first entry of the name.
GetSignatureFirst(m, name) ==
    IF Entries(m, name) = {} THEN Empty ELSE Registered(m)[Min(Entries(m, name))].signature

GetSignature(m, name) ==
    IF Entries(m, name) = {} THEN Empty ELSE Registered(m)[Max(Entries(m, name))].signature

ExportName(m, i) == IF i \in DOMAIN Registered(m) THEN Registered(m)[i].name ELSE Absent

FindExport(m, name) ==
    IF Entries(m, name) = {} THEN Absent ELSE Registered(m)[Max(Entries(m, name))].runs

(* ------------------------------- proxies --------------------------------- *)

Idle == [pc |-> "idle", module |-> Absent, since |-> 0, count |-> 0, next |-> 1,
         name |-> Absent, signatures |-> <<>>]

Init ==
    /\ registry = <<>>
    /\ loads = [t \in Threads |-> Idle]
    /\ proxies = [t \in Threads |-> Absent]
    /\ build = 1
    /\ abi = 0

At(t, pc) == loads[t].pc = pc

\* load_module and load_process_module up to GluProxy.__init__.
Register(t, m, program) ==
    LET since == Len(registry) + 1
    IN  /\ At(t, "idle")
        /\ Len(registry) < MaxLoads
        /\ registry' = Append(registry, [module |-> m, table |-> Table(program)])
        /\ loads' = [loads EXCEPT ![t] =
               IF m \in Process THEN [Idle EXCEPT !.pc = "count", !.module = m, !.since = since]
               ELSE [Idle EXCEPT !.pc = "name", !.module = m, !.since = since, !.count = Len(program)]]
        /\ UNCHANGED <<proxies, build, abi>>

\* n = glucore_get_module_export_count(...)
AskCount(t) ==
    /\ At(t, "count")
    /\ loads' = [loads EXCEPT ![t].pc = "name", ![t].count = Len(Registered(loads[t].module))]
    /\ UNCHANGED <<registry, proxies, build, abi>>

\* The name of export i: in the module's own table, which stays where it is, or
\* from the core, for a PROCESS module.
NameAt(load) == IF load.module \in Process THEN ExportName(load.module, load.next)
                ELSE registry[load.since].table[load.next].name

\* Mutants of AskName: "if not name_ptr: continue" is missing; it tries again.
AskNameNull(t) ==
    /\ At(t, "name")
    /\ loads[t].next <= loads[t].count
    /\ loads' = [loads EXCEPT ![t].pc = "signature", ![t].name = NameAt(loads[t])]
    /\ UNCHANGED <<registry, proxies, build, abi>>

AskNameAgain(t) ==
    /\ AskNameNull(t)
    /\ NameAt(loads[t]) # Absent

AskName(t) ==
    LET name == NameAt(loads[t])
    IN  /\ At(t, "name")
        /\ loads[t].next <= loads[t].count
        /\ \/ /\ name = Absent
              /\ loads' = [loads EXCEPT ![t].next = @ + 1]
           \/ /\ name # Absent
              /\ loads' = [loads EXCEPT ![t].pc = "signature", ![t].name = name]
        /\ UNCHANGED <<registry, proxies, build, abi>>

\* signatures[fn_name] = core.get_signature(...)
AskSignature(t) ==
    LET signature == GetSignature(loads[t].module, loads[t].name)
    IN  /\ At(t, "signature")
        /\ loads' = [loads EXCEPT
               ![t].pc = "name", ![t].next = @ + 1, ![t].name = Absent,
               ![t].signatures = [n \in DOMAIN @ \cup {loads[t].name} |->
                                      IF n = loads[t].name THEN signature ELSE @[n]]]
        /\ UNCHANGED <<registry, proxies, build, abi>>

\* A caller for each signature: the proxy is complete.
BindCallers(t) ==
    /\ At(t, "name")
    /\ loads[t].next > loads[t].count
    /\ proxies' = [proxies EXCEPT ![t] = [module |-> loads[t].module, since |-> loads[t].since,
                                          signatures |-> loads[t].signatures]]
    /\ loads' = [loads EXCEPT ![t] = Idle]
    /\ UNCHANGED <<registry, build, abi>>

\* Since registration k, its module was only registered with the same table.
Current(k) == \A j \in k .. Len(registry) :
    registry[j].module = registry[k].module => registry[j].table = registry[k].table

(* ---------------------------- coreffi::abi ------------------------------- *)

\* The paths that are tried and exist: the library search path, the working
\* directory, its parent, the directory of libphysics (when the memory map of
\* the process can be read).
Candidates(directory, search, maps) ==
    (IF search THEN <<"libglucore_core.so">> ELSE <<>>)
    \o (CASE directory = "root" -> <<"root/target/release">>
          [] directory = "scripts" -> <<"root/scripts/../target/release">>
          [] OTHER -> <<>>)
    \o (IF maps THEN <<"root/target/release">> ELSE <<>>)

\* dlopen: the image the host loaded under this very path, else the file that is
\* there now, which is the same image unless the core was built again.
Dlopen(path) == IF path = "root/target/release" THEN 1 ELSE build

\* A function of physics calls another module, for the first time or after the
\* panic of an attempt that found no core: get_or_init leaves ABI empty then.
ResolveCore(directory, search, maps) ==
    LET candidates == Candidates(directory, search, maps)
    IN  /\ registry # <<>>
        /\ abi = 0
        /\ candidates # <<>>
        /\ abi' = Dlopen(Head(candidates))
        /\ UNCHANGED <<registry, loads, proxies, build>>

\* cargo build replaces the file while the host runs.
Rebuild ==
    /\ build < MaxBuilds
    /\ build' = build + 1
    /\ UNCHANGED <<registry, loads, proxies, abi>>

(* ----------------------------- specification ----------------------------- *)

\* No load is under way and none is left.
Rest == /\ Len(registry) = MaxLoads
        /\ \A t \in Threads : At(t, "idle")
        /\ UNCHANGED vars

LoadStep(t) == AskCount(t) \/ AskName(t) \/ AskSignature(t) \/ BindCallers(t)

Next ==
    \/ \E t \in Threads :
        \/ \E m \in Modules : \E program \in Programs[m] : Register(t, m, program)
        \/ LoadStep(t)
    \/ \E directory \in Directories, search \in SearchPaths, maps \in BOOLEAN :
           ResolveCore(directory, search, maps)
    \/ Rebuild
    \/ Rest

Spec == Init /\ [][Next]_vars
FairSpec == Spec /\ \A t \in Threads : WF_vars(LoadStep(t))

(* ------------------------------- properties ------------------------------ *)

Tags == {"Int", "Float", "String", "Buffer", "Void"}
Signature == [params : Seq(Tags), returns : Tags]
Names == UNION {{program[i].name : i \in DOMAIN program} : program \in UNION Range(Programs)}
Entry == [name : Names, signature : Signature, runs : Declaration]

\* Type invariant.
TypeOK ==
    /\ \A k \in DOMAIN registry :
        /\ registry[k].module \in Modules
        /\ registry[k].table \in Seq(Entry)
    /\ \A t \in Threads :
        /\ loads[t].pc \in {"idle", "count", "name", "signature"}
        /\ At(t, "idle") => loads[t] = Idle
        /\ ~At(t, "idle") => loads[t].since \in Registrations(loads[t].module)
        /\ loads[t].name \in IF At(t, "signature") THEN Names ELSE {Absent}
        /\ loads[t].next <= loads[t].count + 1
        /\ loads[t].signatures \in [DOMAIN loads[t].signatures -> Signature]
        /\ proxies[t] # Absent => /\ proxies[t].since \in Registrations(proxies[t].module)
                                  /\ DOMAIN proxies[t].signatures \subseteq Names
    /\ build \in 1 .. MaxBuilds
    /\ abi \in 0 .. build

\* A proxy has a caller for every function of the module and no other, with the
\* signature of the function that a call by that name runs: with names that occur
\* twice, exports of one signature, and the module loaded again meanwhile, as
\* long as it comes with the same table (docs/02-type-system.md: Python uses the
\* signature "to validate arg count and per-arg Python type BEFORE the call").
ProxyExact ==
    \A t \in Threads : proxies[t] # Absent /\ Current(proxies[t].since) =>
        LET p == proxies[t]
        IN  /\ DOMAIN p.signatures = {e.name : e \in Range(registry[p.since].table)}
            /\ \A n \in DOMAIN p.signatures :
                   p.signatures[n] = SignatureOf(FindExport(p.module, n))

\* Such a call (docs/06-ipc-transport.md: packed by the proxy, found by name) runs
\* the function that was named, which reads every argument from the member the
\* caller stored it in, and whose result is read from the member it was stored in
\* (docs/08-known-footguns.md #8: "a unique TAG type").
CallsMatch ==
    \A t \in Threads : proxies[t] # Absent /\ Current(proxies[t].since) =>
        \A n \in DOMAIN proxies[t].signatures :
            LET packed == proxies[t].signatures[n]
                ran == FindExport(proxies[t].module, n)
            IN  /\ ran # Absent
                /\ ran.name = n
                /\ Len(ran.params) = Len(packed.params)
                /\ \A i \in DOMAIN ran.params :
                       MemberOf(ran.params[i]) = PythonMember(packed.params[i])
                /\ MemberOf(ran.returns) = PythonMember(packed.returns)

\* The signature a table has for a name: of entries with one name, the last one's.
Offers(table, n) ==
    LET found == {i \in DOMAIN table : table[i].name = n}
    IN  IF found = {} THEN Empty ELSE table[Max(found)].signature

\* Module m has had, since a registration of it, a table with the name n, and then
\* or later one that offers this signature for it.
HadSince(m, since, n, signature) ==
    \E k \in Registrations(m), j \in Registrations(m) :
        /\ since <= k /\ k <= j
        /\ n \in {e.name : e \in Range(registry[k].table)}
        /\ signature = Offers(registry[j].table, n)

\* Also when the module comes with other tables while it is listed, a proxy has
\* nothing from before its own load: each of its callers was named by a table the
\* module has had since, and checks its arguments against that table or a later
\* one (GluProxy asks again for every name, docs/02-type-system.md).
NothingStale ==
    \A t \in Threads : proxies[t] # Absent =>
        LET p == proxies[t]
        IN  \A n \in DOMAIN p.signatures : HadSince(p.module, p.since, n, p.signatures[n])

\* A proxy is complete at last, although the module may shrink meanwhile.
LoadsEnd == \A t \in Threads : ~At(t, "idle") ~> At(t, "idle")
=============================================================================
