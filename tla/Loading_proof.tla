----------------------------- MODULE Loading_proof -----------------------------
(***************************************************************************)
(* Theorems about Loading: what the proxies of adapters/python are, however *)
(* their look-ups interleave with other loads of the same modules.         *)
(***************************************************************************)
EXTENDS Loading, SequenceTheorems, SetInduction, TLAPS

(* -------------------------------- tables ---------------------------------- *)

\* A set of positions in a list has a greatest.
LEMMA Greatest ==
    ASSUME NEW n \in Nat, NEW S, S \subseteq 1 .. n, S # {}
    PROVE  Max(S) \in S /\ \A x \in S : x <= Max(S)
<1>. DEFINE T == {k \in Nat : \A R \in SUBSET (1 .. k) :
                      R # {} => \E x \in R : \A y \in R : x >= y}
<1>1. 0 \in T
  <2>1. 1 .. 0 = {}
    OBVIOUS
  <2>. QED
    BY <2>1
<1>2. ASSUME NEW k \in Nat, k \in T
      PROVE  k + 1 \in T
  <2>1. SUFFICES ASSUME NEW R \in SUBSET (1 .. k + 1), R # {}
                 PROVE  \E x \in R : \A y \in R : x >= y
    OBVIOUS
  <2>2. CASE k + 1 \in R
    BY <2>1, <2>2
  <2>3. CASE k + 1 \notin R
    <3>1. R \subseteq 1 .. k
      BY <2>1, <2>3
    <3>. QED
      BY <1>2, <2>1, <3>1
  <2>. QED
    BY <2>2, <2>3
<1>3. n \in T
  <2>. HIDE DEF T
  <2>. QED
    BY <1>1, <1>2, Induction
<1>4. \E x \in S : \A y \in S : x >= y
  BY <1>3
<1>. QED
  BY <1>4 DEF Max

\* The tags of a declaration are a signature, and each wrapper reads and stores the
\* member that the Python caller uses for its tag.
LEMMA TagsMatch ==
    /\ \A d \in Declaration : /\ SignatureOf(d) \in Signature
                              /\ Len(SignatureOf(d).params) = Len(d.params)
                              /\ \A i \in DOMAIN d.params :
                                     SignatureOf(d).params[i] = TagOf(d.params[i])
    /\ \A type \in Types : MemberOf(type) = PythonMember(TagOf(type))
    /\ Empty \in Signature
<1>1. \A type \in Types : TagOf(type) \in Tags
  BY DEF TagOf, Tags, Types
<1>2. ASSUME NEW d \in Declaration
      PROVE  /\ SignatureOf(d) \in Signature
             /\ Len(SignatureOf(d).params) = Len(d.params)
             /\ \A i \in DOMAIN d.params : SignatureOf(d).params[i] = TagOf(d.params[i])
  <2>1. d.params \in Seq(Types) /\ d.returns \in Types
    BY DEF Declaration
  <2>. DEFINE params == [i \in DOMAIN d.params |-> TagOf(d.params[i])]
  <2>2. params \in Seq(Tags) /\ Len(params) = Len(d.params)
        /\ \A i \in DOMAIN d.params : params[i] = TagOf(d.params[i])
    BY <1>1, <2>1
  <2>3. SignatureOf(d) = [params |-> params, returns |-> TagOf(d.returns)]
    BY DEF SignatureOf
  <2>. HIDE DEF params
  <2>. QED
    BY <1>1, <2>1, <2>2, <2>3 DEF Signature
<1>3. \A type \in Types : MemberOf(type) = PythonMember(TagOf(type))
  BY DEF Types, MemberOf, PythonMember, TagOf
<1>4. Empty \in Signature
  <2>1. <<>> \in Seq(Tags)
    OBVIOUS
  <2>. QED
    BY <2>1 DEF Empty, Signature, Tags
<1>. QED
  BY <1>2, <1>3, <1>4

\* Each entry of a table leads to the function it is the entry of.
LEMMA TablesLead ==
    ASSUME NEW m \in Modules, NEW program \in Programs[m]
    PROVE  /\ Table(program) \in Seq(Entry)
           /\ Len(Table(program)) = Len(program)
           /\ \A i \in DOMAIN Table(program) :
                  /\ Table(program)[i].signature = SignatureOf(Table(program)[i].runs)
                  /\ Table(program)[i].name = Table(program)[i].runs.name
                  /\ Table(program)[i].runs \in Declaration
<1>1. program \in Seq(Declaration)
  BY LoadingAssumption
<1>2. ASSUME NEW i \in DOMAIN program
      PROVE  Runs(program, i) = program[i]
  <2>1. {j \in DOMAIN program : WrapperKey(program, j) = WrapperKey(program, i)} = {i}
    BY DEF WrapperKey
  <2>2. Max({i}) = i
    <3>1. i \in 1 .. Len(program) /\ Len(program) \in Nat
      BY <1>1
    <3>2. {i} \subseteq 1 .. Len(program) /\ {i} # {}
      BY <3>1
    <3>3. Max({i}) \in {i}
      BY <3>1, <3>2, Greatest
    <3>. QED
      BY <3>3
  <2>. QED
    BY <2>1, <2>2 DEF Runs
<1>3. ASSUME NEW i \in DOMAIN program
      PROVE  program[i].name \in Names
  <2>1. program \in UNION Range(Programs)
    BY LoadingAssumption DEF Range
  <2>. QED
    BY <2>1 DEF Names
<1>. DEFINE entry(i) == [name |-> program[i].name, signature |-> SignatureOf(program[i]),
                         runs |-> program[i]]
<1>4. Table(program) = [i \in DOMAIN program |-> entry(i)]
  BY <1>2 DEF Table
<1>5. ASSUME NEW i \in DOMAIN program
      PROVE  /\ entry(i) \in Entry /\ entry(i).runs \in Declaration
             /\ entry(i).signature = SignatureOf(entry(i).runs) /\ entry(i).name = entry(i).runs.name
  BY <1>1, <1>3, TagsMatch DEF Entry
<1>. HIDE DEF entry
<1>. QED
  BY <1>1, <1>4, <1>5

(* ---------------------------- type correctness ---------------------------- *)

Registration == [module : Modules, table : Seq(Entry)]
Signatures == UNION {[S -> Signature] : S \in SUBSET Names}
Load == [pc : {"idle", "count", "name", "signature"}, module : Modules \cup {Absent},
         since : Nat, count : Nat, next : Nat \ {0}, name : STRING \cup {Absent},
         signatures : Signatures]
Proxy == [module : Modules, since : Nat, signatures : Signatures]

\* The load of thread t stands at an export of the table it counts.
Placed(t) ==
    LET load == loads[t]
    IN  /\ load.pc = "idle" => load = Idle
        /\ load.pc # "idle" => load.module \in Modules /\ load.since \in Registrations(load.module)
        /\ load.pc = "count" => load.module \in Process /\ load.next = 1
        /\ load.name \in IF load.pc = "signature" THEN Names ELSE {Absent}
        /\ load.next <= load.count + 1
        /\ load.pc = "signature" => load.next <= load.count
        /\ load.pc \in {"name", "signature"} /\ load.module \notin Process =>
               load.count = Len(registry[load.since].table)

\* The proxy that thread t has is of a registration.
Rooted(t) == proxies[t] # Absent => proxies[t].since \in Registrations(proxies[t].module)

TypeInv ==
    /\ registry \in Seq(Registration)
    /\ \A k \in DOMAIN registry :
           \E program \in Programs[registry[k].module] : registry[k].table = Table(program)
    /\ loads \in [Threads -> Load]
    /\ proxies \in [Threads -> Proxy \cup {Absent}]
    /\ \A t \in Threads : Placed(t) /\ Rooted(t)
    /\ build \in 1 .. MaxBuilds
    /\ abi \in 0 .. build

\* The registration that the core looks things up in is the last of the module.
LEMMA LastRegistration ==
    ASSUME TypeInv, NEW m \in Modules, Registrations(m) # {}
    PROVE  /\ Max(Registrations(m)) \in Registrations(m)
           /\ \A k \in Registrations(m) : k <= Max(Registrations(m))
           /\ Max(Registrations(m)) \in DOMAIN registry
           /\ registry[Max(Registrations(m))].module = m
           /\ Registered(m) \in Seq(Entry)
<1>1. registry \in Seq(Registration) /\ Len(registry) \in Nat /\ DOMAIN registry = 1 .. Len(registry)
  BY DEF TypeInv
<1>2. Registrations(m) \subseteq 1 .. Len(registry)
  BY <1>1 DEF Registrations
<1>3. /\ Max(Registrations(m)) \in Registrations(m)
      /\ \A k \in Registrations(m) : k <= Max(Registrations(m))
  BY <1>1, <1>2, Greatest
<1>4. /\ Max(Registrations(m)) \in DOMAIN registry
      /\ registry[Max(Registrations(m))].module = m
  BY <1>3 DEF Registrations
<1>5. registry[Max(Registrations(m))] \in Registration
  BY <1>1, <1>4
<1>. QED
  BY <1>3, <1>4, <1>5 DEF Registered, Registration

\* What the look-ups of a load return.
LEMMA LookUps ==
    ASSUME TypeInv, NEW m \in Modules, Registrations(m) # {}
    PROVE  /\ \A i : ExportName(m, i) \in Names \cup {Absent}
           /\ Len(Registered(m)) \in Nat
           /\ \A n : GetSignature(m, n) \in Signature
           /\ \A n : Entries(m, n) # {} =>
                  Max(Entries(m, n)) \in DOMAIN Registered(m)
<1>1. Registered(m) \in Seq(Entry)
  BY LastRegistration
<1>2. ASSUME NEW n, Entries(m, n) # {}
      PROVE  Max(Entries(m, n)) \in DOMAIN Registered(m)
  <2>1. Entries(m, n) \subseteq 1 .. Len(Registered(m)) /\ Len(Registered(m)) \in Nat
    BY <1>1 DEF Entries
  <2>2. Max(Entries(m, n)) \in Entries(m, n)
    BY <1>2, <2>1, Greatest
  <2>. QED
    BY <1>1, <2>1, <2>2
<1>3. ASSUME NEW i \in DOMAIN Registered(m)
      PROVE  Registered(m)[i].name \in Names /\ Registered(m)[i].signature \in Signature
  <2>1. Registered(m)[i] \in Entry
    BY <1>1
  <2>. QED
    BY <2>1 DEF Entry
<1>4. \A i : ExportName(m, i) \in Names \cup {Absent}
  BY <1>3 DEF ExportName
<1>5. \A n : GetSignature(m, n) \in Signature
  BY <1>2, <1>3, TagsMatch DEF GetSignature
<1>. QED
  BY <1>1, <1>2, <1>4, <1>5

\* A registration that was made stays as it was.
LEMMA RegistryGrows ==
    ASSUME TypeInv, registry' = registry \/ \E r \in Registration : registry' = Append(registry, r)
    PROVE  /\ \A k \in DOMAIN registry : k \in DOMAIN registry' /\ registry'[k] = registry[k]
           /\ \A m, k : k \in Registrations(m) => k \in Registrations(m)'
           /\ \A k \in DOMAIN registry : Current(k)' => Current(k)
<1>1. /\ registry \in Seq(Registration) /\ Len(registry) \in Nat
      /\ DOMAIN registry = 1 .. Len(registry)
  BY DEF TypeInv
<1>2. CASE registry' = registry
  BY <1>2 DEF Registrations, Current
<1>3. CASE \E r \in Registration : registry' = Append(registry, r)
  <2>1. /\ Len(registry') = Len(registry) + 1 /\ DOMAIN registry' = 1 .. Len(registry) + 1
        /\ \A k \in 1 .. Len(registry) : registry'[k] = registry[k]
    <3>1. PICK new \in Registration : registry' = Append(registry, new)
      BY <1>3
    <3>2. /\ Append(registry, new) \in Seq(Registration)
          /\ Len(Append(registry, new)) = Len(registry) + 1
          /\ \A k \in 1 .. Len(registry) : Append(registry, new)[k] = registry[k]
      BY <1>1, AppendProperties
    <3>. QED
      BY <3>1, <3>2
  <2>2. ASSUME NEW k \in DOMAIN registry, Current(k)'
        PROVE  Current(k)
    <3>1. SUFFICES ASSUME NEW j \in k .. Len(registry), registry[j].module = registry[k].module
                   PROVE  registry[j].table = registry[k].table
      BY DEF Current
    <3>2. /\ j \in 1 .. Len(registry) /\ k \in 1 .. Len(registry)
          /\ j \in k .. Len(registry')
      BY <1>1, <2>1, <3>1
    <3>. QED
      BY <2>1, <2>2, <3>1, <3>2 DEF Current
  <2>. QED
    BY <1>1, <2>1, <2>2 DEF Registrations
<1>. QED
  BY <1>2, <1>3

\* What a thread has stays in place when other threads register modules.
LEMMA OthersStayPlaced ==
    ASSUME TypeInv, registry' = registry \/ \E r \in Registration : registry' = Append(registry, r),
           NEW t \in Threads
    PROVE  /\ loads'[t] = loads[t] => Placed(t)'
           /\ proxies'[t] = proxies[t] => Rooted(t)'
<1>1. /\ \A k \in DOMAIN registry : registry'[k] = registry[k]
      /\ \A m, k : k \in Registrations(m) => k \in Registrations(m)'
  BY RegistryGrows
<1>2. Placed(t) /\ Rooted(t)
  BY DEF TypeInv
<1>3. loads[t].pc # "idle" => loads[t].since \in DOMAIN registry
  BY <1>2 DEF Placed, Registrations
<1>4. Rooted(t) /\ proxies'[t] = proxies[t] => Rooted(t)'
  BY <1>1 DEF Rooted
<1>5. Placed(t) /\ loads'[t] = loads[t] => Placed(t)'
  BY <1>1, <1>3 DEF Placed
<1>. QED
  BY <1>2, <1>4, <1>5

\* The names and the records that the steps need.
LEMMA Basics ==
    ASSUME TypeInv, NEW t \in Threads
    PROVE  /\ loads[t] \in Load /\ Placed(t)
           /\ Names \subseteq STRING /\ Absent \notin Names
           /\ <<>> \in Signatures /\ DOMAIN <<>> = {}
           /\ Len(registry) \in Nat /\ DOMAIN registry = 1 .. Len(registry)
           /\ \A k \in DOMAIN registry : /\ registry[k].module \in Modules
                                         /\ registry[k].table \in Seq(Entry)
                                         /\ Len(registry[k].table) \in Nat
<1>1. Names \subseteq STRING
  <2>1. ASSUME NEW program \in UNION Range(Programs), NEW i \in DOMAIN program
        PROVE  program[i].name \in STRING
    <3>1. program \in Seq(Declaration)
      BY LoadingAssumption DEF Range
    <3>2. program[i] \in Declaration
      BY <3>1
    <3>. QED
      BY <3>2 DEF Declaration
  <2>. QED
    BY <2>1 DEF Names
<1>2. <<>> \in Signatures /\ DOMAIN <<>> = {}
  <2>1. DOMAIN <<>> = {} /\ <<>> \in [{} -> Signature]
    OBVIOUS
  <2>. QED
    BY <2>1 DEF Signatures
<1>3. registry \in Seq(Registration)
  BY DEF TypeInv
<1>4. ASSUME NEW k \in DOMAIN registry
      PROVE  /\ registry[k].module \in Modules /\ registry[k].table \in Seq(Entry)
             /\ Len(registry[k].table) \in Nat
  <2>1. registry[k] \in Registration
    BY <1>3
  <2>2. registry[k].module \in Modules /\ registry[k].table \in Seq(Entry)
    BY <2>1 DEF Registration
  <2>. QED
    BY <2>2
<1>5. Len(registry) \in Nat /\ DOMAIN registry = 1 .. Len(registry)
  BY <1>3
<1>6. Absent \notin Names
  BY <1>1, LoadingAssumption
<1>7. loads[t] \in Load /\ Placed(t)
  BY DEF TypeInv
<1>. QED
  BY <1>1, <1>2, <1>4, <1>5, <1>6, <1>7

\* A step of the load of a thread leaves it where loads can be.
LEMMA LoadsStayTyped ==
    ASSUME TypeInv, NEW t \in Threads, LoadStep(t)
    PROVE  TypeInv'
<1>0. /\ loads \in [Threads -> Load] /\ loads[t] \in Load /\ Placed(t)
      /\ proxies \in [Threads -> Proxy \cup {Absent}]
      /\ registry' = registry /\ UNCHANGED <<build, abi>>
  BY Basics DEF TypeInv, LoadStep, AskCount, AskName, AskSignature, BindCallers
<1>. DEFINE load == loads[t]
<1>1. ASSUME loads'[t] \in Load, Placed(t)', Rooted(t)',
             loads' = [u \in Threads |-> loads'[u]],
             \A u \in Threads : u # t => loads'[u] = loads[u] /\ proxies'[u] = proxies[u],
             proxies' \in [Threads -> Proxy \cup {Absent}]
      PROVE  TypeInv'
  <2>1. loads' \in [Threads -> Load]
    BY <1>0, <1>1
  <2>2. \A u \in Threads : Placed(u)' /\ Rooted(u)'
    BY <1>0, <1>1, OthersStayPlaced
  <2>. QED
    BY <1>0, <1>1, <2>1, <2>2 DEF TypeInv
<1>2. load.pc # "idle" =>
          /\ load.module \in Modules /\ load.since \in Registrations(load.module)
          /\ load.since \in DOMAIN registry /\ Registrations(load.module) # {}
  BY <1>0 DEF Placed, Registrations
<1>3. /\ load.pc \in {"idle", "count", "name", "signature"} /\ load.since \in Nat
      /\ load.count \in Nat /\ load.next \in Nat \ {0} /\ load.signatures \in Signatures
      /\ load = [pc |-> load.pc, module |-> load.module, since |-> load.since,
                 count |-> load.count, next |-> load.next, name |-> load.name,
                 signatures |-> load.signatures]
  BY <1>0 DEF Load
<1>. DEFINE with(pc, count, next, name, signatures) ==
                [pc |-> pc, module |-> load.module, since |-> load.since,
                 count |-> count, next |-> next, name |-> name, signatures |-> signatures]
<1>4. ASSUME load.pc # "idle", NEW pc \in {"name", "signature"}, NEW count \in Nat,
             NEW next \in Nat \ {0}, NEW name \in Names \cup {Absent}, NEW signatures \in Signatures,
             loads'[t] = with(pc, count, next, name, signatures),
             loads' = [u \in Threads |-> loads'[u]],
             \A u \in Threads : u # t => loads'[u] = loads[u],
             proxies' = proxies,
             next <= count + 1,
             pc = "name" => name = Absent,
             pc = "signature" => name \in Names /\ next <= count,
             load.module \notin Process => count = Len(registry[load.since].table)
      PROVE  TypeInv'
  <2>1. loads'[t] \in Load
    BY <1>2, <1>3, <1>4, Basics DEF Load
  <2>2. \A m : Registrations(m)' = Registrations(m)
    BY <1>0 DEF Registrations
  <2>3. Placed(t)'
    BY <1>0, <1>2, <1>4, <2>2 DEF Placed
  <2>4. Rooted(t)'
    BY <1>0, <1>4, OthersStayPlaced
  <2>. QED
    BY <1>0, <1>1, <1>4, <2>1, <2>3, <2>4
<1>. HIDE DEF load
<1>5. CASE AskCount(t)
  <2>1. /\ load.pc = "count" /\ proxies' = proxies /\ load.next = 1 /\ load.module \in Process
        /\ load.name = Absent
    BY <1>0, <1>5 DEF AskCount, At, Placed, load
  <2>2. PICK n \in Nat : n = Len(Registered(load.module))
    BY <1>2, <2>1, LookUps
  <2>3. /\ loads'[t] = with("name", n, load.next, load.name, load.signatures)
        /\ loads' = [u \in Threads |-> loads'[u]]
        /\ \A u \in Threads : u # t => loads'[u] = loads[u]
    BY <1>0, <1>5, <2>2 DEF AskCount, load, Load
  <2>4. load.next <= n + 1
    BY <2>1, <2>2
  <2>. QED
    BY <1>3, <1>4, <2>1, <2>3, <2>4
<1>6. CASE AskName(t)
  <2>1. /\ load.pc = "name" /\ proxies' = proxies /\ load.next <= load.count /\ load.name = Absent
        /\ load.module \notin Process => load.count = Len(registry[load.since].table)
    BY <1>0, <1>6 DEF AskName, At, Placed, load
  <2>2. NameAt(load) \in Names \cup {Absent}
    <3>1. CASE load.module \in Process
      BY <1>2, <2>1, <3>1, LookUps DEF NameAt
    <3>2. CASE load.module \notin Process
      <4>1. registry[load.since].table \in Seq(Entry) /\ load.next \in 1 .. Len(registry[load.since].table)
        BY <1>2, <1>3, <2>1, <3>2, Basics
      <4>2. registry[load.since].table[load.next] \in Entry
        BY <4>1
      <4>. QED
        BY <3>2, <4>2 DEF NameAt, Entry
    <3>. QED
      BY <3>1, <3>2
  <2>3. PICK name \in Names \cup {Absent} : name = NameAt(load)
    BY <2>2
  <2>4. load.next + 1 \in Nat \ {0} /\ load.next + 1 <= load.count + 1 /\ load.next <= load.count + 1
    BY <1>3, <2>1
  <2>5. CASE name = Absent
    <3>1. loads' = [loads EXCEPT ![t].next = @ + 1]
      BY <1>6, <2>3, <2>5 DEF AskName, load
    <3>2. /\ loads'[t] = with("name", load.count, load.next + 1, load.name, load.signatures)
          /\ loads' = [u \in Threads |-> loads'[u]]
          /\ \A u \in Threads : u # t => loads'[u] = loads[u]
      BY <1>0, <2>1, <3>1 DEF load, Load
    <3>. QED
      BY <1>3, <1>4, <2>1, <2>4, <3>2
  <2>6. CASE name # Absent
    <3>1. loads' = [loads EXCEPT ![t].pc = "signature", ![t].name = name]
      BY <1>6, <2>3, <2>6 DEF AskName, load
    <3>2. /\ loads'[t] = with("signature", load.count, load.next, name, load.signatures)
          /\ loads' = [u \in Threads |-> loads'[u]]
          /\ \A u \in Threads : u # t => loads'[u] = loads[u]
      BY <1>0, <3>1 DEF load, Load
    <3>. QED
      BY <1>3, <1>4, <2>1, <2>4, <2>6, <3>2
  <2>. QED
    BY <2>5, <2>6
<1>7. CASE AskSignature(t)
  <2>1. /\ load.pc = "signature" /\ proxies' = proxies /\ load.next <= load.count /\ load.name \in Names
        /\ load.module \notin Process => load.count = Len(registry[load.since].table)
    BY <1>0, <1>7 DEF AskSignature, At, Placed, load
  <2>2. PICK signature \in Signature : signature = GetSignature(load.module, load.name)
    BY <1>2, <2>1, LookUps
  <2>3. PICK all : all = [n \in DOMAIN load.signatures \cup {load.name} |->
                              IF n = load.name THEN signature ELSE load.signatures[n]]
    OBVIOUS
  <2>4. all \in Signatures
    <3>1. PICK S \in SUBSET Names : load.signatures \in [S -> Signature]
      BY <1>3 DEF Signatures
    <3>2. S \cup {load.name} \in SUBSET Names /\ all \in [S \cup {load.name} -> Signature]
      BY <2>1, <2>3, <3>1
    <3>. QED
      BY <3>2 DEF Signatures
  <2>5. /\ loads'[t] = with("name", load.count, load.next + 1, Absent, all)
        /\ loads' = [u \in Threads |-> loads'[u]]
        /\ \A u \in Threads : u # t => loads'[u] = loads[u]
    BY <1>0, <1>7, <2>2, <2>3 DEF AskSignature, load, Load
  <2>6. load.next + 1 \in Nat \ {0} /\ load.next + 1 <= load.count + 1
    BY <1>3, <2>1
  <2>. QED
    BY <1>3, <1>4, <2>1, <2>4, <2>5, <2>6
<1>8. CASE BindCallers(t)
  <2>. DEFINE p == [module |-> load.module, since |-> load.since, signatures |-> load.signatures]
  <2>1. /\ load.pc = "name" /\ proxies' = [proxies EXCEPT ![t] = p]
        /\ loads' = [loads EXCEPT ![t] = Idle]
    BY <1>8 DEF BindCallers, At, load
  <2>2. p \in Proxy
    BY <1>2, <1>3, <2>1 DEF Proxy
  <2>3. Idle \in Load
    BY Basics DEF Idle, Load
  <2>4. loads'[t] = Idle /\ proxies'[t] = p
    BY <1>0, <2>1
  <2>5. Placed(t)'
    <3>1. /\ Idle.pc = "idle" /\ Idle.name = Absent /\ Idle.next <= Idle.count + 1
      BY DEF Idle
    <3>. QED
      BY <2>4, <3>1 DEF Placed
  <2>6. Rooted(t)'
    BY <1>0, <1>2, <2>1, <2>4 DEF Rooted, Registrations
  <2>7. \A u \in Threads : u # t => loads'[u] = loads[u] /\ proxies'[u] = proxies[u]
    BY <1>0, <2>1
  <2>8. /\ loads' = [u \in Threads |-> loads'[u]]
        /\ proxies' \in [Threads -> Proxy \cup {Absent}]
    BY <1>0, <2>1, <2>2
  <2>. QED
    BY <1>1, <2>3, <2>4, <2>5, <2>6, <2>7, <2>8
<1>. QED
  BY <1>5, <1>6, <1>7, <1>8 DEF LoadStep

\* A load that begins.
Begun(pc, m, since, count) ==
    [pc |-> pc, module |-> m, since |-> since, count |-> count, next |-> 1,
     name |-> Absent, signatures |-> <<>>]

\* The record that Register makes of an idle one for a module in a process.
LEMMA LoadBegins ==
    ASSUME NEW pc, NEW m, NEW since
    PROVE  [Idle EXCEPT !.pc = pc, !.module = m, !.since = since] = Begun(pc, m, since, 0)
<1>1. [Idle EXCEPT !.pc = pc] = Begun(pc, Absent, 0, 0)
  BY DEF Idle, Begun
<1>2. [Begun(pc, Absent, 0, 0) EXCEPT !.module = m] = Begun(pc, m, 0, 0)
  BY DEF Begun
<1>3. [Begun(pc, m, 0, 0) EXCEPT !.since = since] = Begun(pc, m, since, 0)
  BY DEF Begun
<1>. QED
  BY <1>1, <1>2, <1>3

\* The one it makes for a module in the process of the host, whose count is known.
LEMMA LoadBeginsCounted ==
    ASSUME NEW pc, NEW m, NEW since, NEW count
    PROVE  [Idle EXCEPT !.pc = pc, !.module = m, !.since = since, !.count = count]
           = Begun(pc, m, since, count)
<1>1. [Idle EXCEPT !.pc = pc] = Begun(pc, Absent, 0, 0)
  BY DEF Idle, Begun
<1>2. [Begun(pc, Absent, 0, 0) EXCEPT !.module = m] = Begun(pc, m, 0, 0)
  BY DEF Begun
<1>3. [Begun(pc, m, 0, 0) EXCEPT !.since = since] = Begun(pc, m, since, 0)
  BY DEF Begun
<1>4. [Begun(pc, m, since, 0) EXCEPT !.count = count] = Begun(pc, m, since, count)
  BY DEF Begun
<1>. QED
  BY <1>1, <1>2, <1>3, <1>4

\* A module that is registered gets its place, and its load begins.
LEMMA RegisteringStaysTyped ==
    ASSUME TypeInv, NEW t \in Threads, NEW m \in Modules, NEW program \in Programs[m],
           Register(t, m, program)
    PROVE  /\ TypeInv'
           /\ registry' = Append(registry, [module |-> m, table |-> Table(program)])
           /\ [module |-> m, table |-> Table(program)] \in Registration
           /\ Len(registry)' = Len(registry) + 1
           /\ registry'[Len(registry) + 1] = [module |-> m, table |-> Table(program)]
           /\ loads' = [u \in Threads |-> IF u = t THEN loads'[t] ELSE loads[u]]
           /\ \E pc \in {"count", "name"}, count \in Nat :
                  /\ loads'[t] = Begun(pc, m, Len(registry) + 1, count)
                  /\ pc = "count" => m \in Process
                  /\ pc = "name" => count = Len(Table(program))
<1>. DEFINE since == Len(registry) + 1
            new == [module |-> m, table |-> Table(program)]
<1>0. /\ loads \in [Threads -> Load] /\ registry \in Seq(Registration) /\ Len(registry) \in Nat
      /\ DOMAIN registry = 1 .. Len(registry)
      /\ proxies' = proxies /\ UNCHANGED <<build, abi>>
      /\ since \in Nat /\ <<>> \in Signatures
  <2>1. Len(registry) \in Nat /\ DOMAIN registry = 1 .. Len(registry) /\ <<>> \in Signatures
    BY Basics
  <2>2. loads \in [Threads -> Load] /\ registry \in Seq(Registration)
    BY DEF TypeInv
  <2>3. proxies' = proxies /\ UNCHANGED <<build, abi>>
    BY DEF Register
  <2>. QED
    BY <2>1, <2>2, <2>3
<1>1. Table(program) \in Seq(Entry) /\ Len(Table(program)) = Len(program) /\ Len(program) \in Nat
  BY TablesLead, LoadingAssumption
<1>2. new \in Registration /\ registry' = Append(registry, new)
  BY <1>1 DEF Register, Registration
<1>. HIDE DEF new
<1>3. /\ registry' \in Seq(Registration) /\ Len(registry') = Len(registry) + 1
      /\ \A k \in 1 .. Len(registry) : registry'[k] = registry[k]
      /\ registry'[since] = new
  <2>1. /\ Append(registry, new) \in Seq(Registration)
        /\ Len(Append(registry, new)) = Len(registry) + 1
        /\ \A k \in 1 .. Len(registry) : Append(registry, new)[k] = registry[k]
        /\ Append(registry, new)[Len(registry) + 1] = new
    BY <1>0, <1>2, AppendProperties
  <2>. QED
    BY <1>2, <2>1
<1>4. PICK pc \in {"count", "name"}, count \in Nat :
          /\ loads' = [loads EXCEPT ![t] = Begun(pc, m, since, count)]
          /\ pc = "count" => m \in Process
          /\ pc = "name" => count = Len(Table(program))
  <2>1. CASE m \in Process
    <3>1. loads' = [loads EXCEPT ![t] = Begun("count", m, since, 0)]
      BY <2>1, LoadBegins DEF Register
    <3>. QED
      BY <2>1, <3>1
  <2>2. CASE m \notin Process
    <3>1. loads' = [loads EXCEPT ![t] = Begun("name", m, since, Len(program))]
      <4>1. PICK p, k, n : p = "name" /\ k = since /\ n = Len(program)
        OBVIOUS
      <4>2. [Idle EXCEPT !.pc = p, !.module = m, !.since = k, !.count = n] = Begun(p, m, k, n)
        BY LoadBeginsCounted
      <4>3. loads' = [loads EXCEPT ![t] =
                        [Idle EXCEPT !.pc = p, !.module = m, !.since = k, !.count = n]]
        BY <2>2, <4>1 DEF Register
      <4>. QED
        BY <4>1, <4>2, <4>3
    <3>. QED
      BY <1>1, <3>1
  <2>. QED
    BY <2>1, <2>2
<1>. DEFINE load == Begun(pc, m, since, count)
<1>5. /\ loads'[t] = load /\ \A u \in Threads : u # t => loads'[u] = loads[u]
      /\ loads' = [u \in Threads |-> IF u = t THEN loads'[t] ELSE loads[u]]
  BY <1>0, <1>4
<1>6. load \in Load
  BY <1>0, <1>4 DEF Load, Begun
<1>7. since \in Registrations(m)'
  <2>1. new.module = m /\ since \in DOMAIN registry'
    BY <1>0, <1>3 DEF new
  <2>. QED
    BY <1>3, <2>1 DEF Registrations
<1>8. Placed(t)'
  <2>1. registry'[since].table = Table(program)
    BY <1>3 DEF new
  <2>2. /\ load.pc = pc /\ load.module = m /\ load.since = since /\ load.count = count
        /\ load.next = 1 /\ load.name = Absent
    BY DEF Begun
  <2>. QED
    BY <1>0, <1>4, <1>5, <1>7, <2>1, <2>2 DEF Placed
<1>9. \A u \in Threads : Placed(u)' /\ Rooted(u)'
  BY <1>0, <1>2, <1>5, <1>8, OthersStayPlaced
<1>10. \A k \in DOMAIN registry' :
           \E p \in Programs[registry'[k].module] : registry'[k].table = Table(p)
  <2>1. SUFFICES ASSUME NEW k \in DOMAIN registry'
                 PROVE  \E p \in Programs[registry'[k].module] : registry'[k].table = Table(p)
    OBVIOUS
  <2>2. CASE k = since
    BY <1>3, <2>2 DEF new
  <2>3. CASE k # since
    <3>1. k \in 1 .. Len(registry)
      BY <1>0, <1>3, <2>1, <2>3
    <3>. QED
      BY <1>0, <1>3, <3>1 DEF TypeInv
  <2>. QED
    BY <2>2, <2>3
<1>11. TypeInv'
  <2>1. loads' \in [Threads -> Load]
    BY <1>0, <1>5, <1>6
  <2>. QED
    BY <1>0, <1>3, <1>9, <1>10, <2>1 DEF TypeInv
<1>. QED
  BY <1>2, <1>3, <1>4, <1>5, <1>11 DEF new

\* Every step keeps the types.
LEMMA Typed == Spec => []TypeInv
<1>1. Init => TypeInv
  <2>1. SUFFICES ASSUME Init PROVE TypeInv
    OBVIOUS
  <2>2. <<>> \in Seq(Registration) /\ DOMAIN <<>> = {} /\ <<>> \in Signatures
    <3>1. DOMAIN <<>> = {} /\ <<>> \in [{} -> Signature]
      OBVIOUS
    <3>2. <<>> \in Signatures
      BY <3>1 DEF Signatures
    <3>. QED
      BY <3>1, <3>2
  <2>3. Idle \in Load
    BY <2>2 DEF Idle, Load
  <2>4. \A t \in Threads : Placed(t) /\ Rooted(t)
    <3>1. Idle.pc = "idle" /\ Idle.name = Absent /\ Idle.next <= Idle.count + 1
      BY DEF Idle
    <3>. QED
      BY <2>1, <3>1 DEF Init, Placed, Rooted
  <2>5. build \in 1 .. MaxBuilds /\ abi \in 0 .. build
    BY <2>1, LoadingAssumption DEF Init
  <2>. QED
    BY <2>1, <2>2, <2>3, <2>4, <2>5 DEF Init, TypeInv
<1>2. TypeInv /\ [Next]_vars => TypeInv'
  <2>1. SUFFICES ASSUME TypeInv, [Next]_vars PROVE TypeInv'
    OBVIOUS
  <2>2. ASSUME UNCHANGED <<registry, loads, proxies>>,
               build' \in 1 .. MaxBuilds, abi' \in 0 .. build'
        PROVE  TypeInv'
    BY <2>1, <2>2 DEF TypeInv, Placed, Rooted, Registrations
  <2>3. /\ build \in Nat /\ build \in 1 .. MaxBuilds /\ abi \in 0 .. build /\ MaxBuilds \in Nat
    BY <2>1, LoadingAssumption DEF TypeInv
  <2>4. CASE Rest \/ UNCHANGED vars
    BY <2>2, <2>3, <2>4 DEF Rest, vars
  <2>5. CASE Rebuild
    BY <2>2, <2>3, <2>5 DEF Rebuild
  <2>6. ASSUME NEW directory, NEW search, NEW maps, ResolveCore(directory, search, maps)
        PROVE  TypeInv'
    BY <2>2, <2>3, <2>6 DEF ResolveCore, Dlopen
  <2>. QED
    BY <2>1, <2>4, <2>5, <2>6, LoadsStayTyped, RegisteringStaysTyped DEF Next
<1>. QED
  BY <1>1, <1>2, PTL DEF Spec

\* The registry, the loads and the proxies are well-formed, and a load stands at an
\* export of the table it counts.
THEOREM TypeCorrect == Spec => []TypeOK
<1>1. TypeInv => TypeOK
  <2>1. SUFFICES ASSUME TypeInv PROVE TypeOK
    OBVIOUS
  <2>2. \A k \in DOMAIN registry : registry[k].module \in Modules /\ registry[k].table \in Seq(Entry)
    <3>1. SUFFICES ASSUME NEW k \in DOMAIN registry
                   PROVE  registry[k].module \in Modules /\ registry[k].table \in Seq(Entry)
      OBVIOUS
    <3>2. registry[k] \in Registration
      BY <2>1 DEF TypeInv
    <3>. QED
      BY <3>2 DEF Registration
  <2>3. ASSUME NEW t \in Threads
        PROVE  /\ loads[t].pc \in {"idle", "count", "name", "signature"}
               /\ At(t, "idle") => loads[t] = Idle
               /\ ~At(t, "idle") => loads[t].since \in Registrations(loads[t].module)
               /\ loads[t].name \in IF At(t, "signature") THEN Names ELSE {Absent}
               /\ loads[t].next <= loads[t].count + 1
               /\ loads[t].signatures \in [DOMAIN loads[t].signatures -> Signature]
               /\ proxies[t] # Absent => /\ proxies[t].since \in Registrations(proxies[t].module)
                                         /\ DOMAIN proxies[t].signatures \subseteq Names
    <3>1. loads[t] \in Load /\ Placed(t) /\ Rooted(t) /\ proxies[t] \in Proxy \cup {Absent}
      BY <2>1 DEF TypeInv
    <3>2. loads[t].signatures \in [DOMAIN loads[t].signatures -> Signature]
      BY <3>1 DEF Load, Signatures
    <3>3. proxies[t] # Absent => DOMAIN proxies[t].signatures \subseteq Names
      BY <3>1 DEF Proxy, Signatures
    <3>4. loads[t].pc \in {"idle", "count", "name", "signature"}
      BY <3>1 DEF Load
    <3>. QED
      BY <3>1, <3>2, <3>3, <3>4 DEF Placed, Rooted, At
  <2>. QED
    BY <2>1, <2>2, <2>3 DEF TypeOK, TypeInv
<1>. QED
  BY <1>1, Typed, PTL

(* ------------------------- what a proxy is built of ----------------------- *)

\* The last entry of a name in a table, and what an exact set of signatures holds
\* of those names it has come to.
LastOf(table, n) == Max({i \in DOMAIN table : table[i].name = n})
NamesUpTo(table, k) == {table[i].name : i \in {j \in DOMAIN table : j <= k}}
Exact(signatures, table, k) ==
    /\ DOMAIN signatures = NamesUpTo(table, k)
    /\ \A n \in DOMAIN signatures : signatures[n] = table[LastOf(table, n)].signature

\* As long as its module came with no other table, a load has the signatures of
\* the exports before the one it stands at.
Progress(t) ==
    LET load == loads[t]
        table == registry[load.since].table
    IN  load.pc # "idle" /\ Current(load.since) =>
            /\ Exact(load.signatures, table, load.next - 1)
            /\ load.pc \in {"name", "signature"} => load.count = Len(table)
            /\ load.pc = "signature" => load.name = table[load.next].name

Complete(t) ==
    LET p == proxies[t]
        table == registry[p.since].table
    IN  p # Absent /\ Current(p.since) => Exact(p.signatures, table, Len(table))

ExactInv == \A t \in Threads : Progress(t) /\ Complete(t)

\* What the core looks up is in the table of every current registration.
LEMMA CurrentIsRegistered ==
    ASSUME TypeInv, NEW k \in DOMAIN registry, Current(k)
    PROVE  /\ Registered(registry[k].module) = registry[k].table
           /\ Registrations(registry[k].module) # {}
           /\ \A n : Entries(registry[k].module, n)
                     = {i \in DOMAIN registry[k].table : registry[k].table[i].name = n}
<1>. DEFINE m == registry[k].module
            last == Max(Registrations(m))
<1>1. m \in Modules /\ k \in Registrations(m) /\ DOMAIN registry = 1 .. Len(registry)
      /\ Len(registry) \in Nat
  <2>1. registry \in Seq(Registration)
    BY DEF TypeInv
  <2>2. registry[k] \in Registration
    BY <2>1
  <2>. QED
    BY <2>1, <2>2 DEF Registration, Registrations
<1>2. last \in DOMAIN registry /\ registry[last].module = m /\ k <= last
  BY <1>1, LastRegistration
<1>3. registry[last].table = registry[k].table
  <2>1. last \in k .. Len(registry)
    BY <1>1, <1>2
  <2>. QED
    BY <1>2, <2>1 DEF Current
<1>. QED
  BY <1>1, <1>3 DEF Registered, Entries

\* The table of a load, and what the core answers about it.
LEMMA CurrentLoad ==
    ASSUME TypeInv, NEW t \in Threads, Progress(t), loads[t].pc # "idle", Current(loads[t].since)
    PROVE  LET load == loads[t]
               table == registry[load.since].table
           IN  /\ load.since \in DOMAIN registry /\ registry[load.since].module = load.module
               /\ table \in Seq(Entry) /\ Len(table) \in Nat
               /\ Registered(load.module) = table
               /\ Exact(load.signatures, table, load.next - 1)
               /\ \A i \in DOMAIN table :
                      /\ table[i].name \in Names
                      /\ GetSignature(load.module, table[i].name)
                         = table[LastOf(table, table[i].name)].signature
               /\ load.pc \in {"name", "signature"} => load.count = Len(table)
               /\ load.pc = "signature" => load.name = table[load.next].name
<1>. DEFINE load == loads[t]
            table == registry[load.since].table
<1>1. load.since \in DOMAIN registry /\ registry[load.since].module = load.module
  BY Basics DEF Placed, Registrations
<1>2. table \in Seq(Entry) /\ Len(table) \in Nat
  BY <1>1, Basics
<1>3. /\ Registered(load.module) = table
      /\ \A n : Entries(load.module, n) = {i \in DOMAIN table : table[i].name = n}
  BY <1>1, CurrentIsRegistered
<1>4. \A n : Entries(load.module, n) # {} =>
          GetSignature(load.module, n) = table[LastOf(table, n)].signature
  BY <1>3 DEF GetSignature, LastOf
<1>5. ASSUME NEW i \in DOMAIN table
      PROVE  table[i].name \in Names /\ Entries(load.module, table[i].name) # {}
  <2>1. table[i] \in Entry
    BY <1>2
  <2>. QED
    BY <1>3, <2>1 DEF Entry
<1>. QED
  BY <1>1, <1>2, <1>3, <1>4, <1>5 DEF Progress

\* One more export of the table.
LEMMA NamesGrow ==
    ASSUME NEW table \in Seq(Entry), NEW k \in Nat
    PROVE  /\ NamesUpTo(table, 0) = {}
           /\ k + 1 \in DOMAIN table =>
                  NamesUpTo(table, k + 1) = NamesUpTo(table, k) \cup {table[k + 1].name}
           /\ NamesUpTo(table, Len(table)) = {e.name : e \in Range(table)}
<1>1. DOMAIN table = 1 .. Len(table) /\ Len(table) \in Nat
  OBVIOUS
<1>2. NamesUpTo(table, 0) = {}
  BY <1>1 DEF NamesUpTo
<1>3. ASSUME k + 1 \in DOMAIN table
      PROVE  NamesUpTo(table, k + 1) = NamesUpTo(table, k) \cup {table[k + 1].name}
  <2>1. {j \in DOMAIN table : j <= k + 1} = {j \in DOMAIN table : j <= k} \cup {k + 1}
    BY <1>1, <1>3
  <2>. QED
    BY <2>1 DEF NamesUpTo
<1>4. NamesUpTo(table, Len(table)) = {e.name : e \in Range(table)}
  <2>1. {j \in DOMAIN table : j <= Len(table)} = DOMAIN table
    BY <1>1
  <2>. QED
    BY <2>1 DEF NamesUpTo, Range
<1>. QED
  BY <1>2, <1>3, <1>4

\* What other threads do leaves a load and a proxy as they are.
LEMMA OthersStayExact ==
    ASSUME TypeInv, ExactInv, NEW t \in Threads,
           registry' = registry \/ \E r \in Registration : registry' = Append(registry, r)
    PROVE  /\ loads'[t] = loads[t] => Progress(t)'
           /\ proxies'[t] = proxies[t] => Complete(t)'
<1>1. /\ \A k \in DOMAIN registry : registry'[k] = registry[k] /\ (Current(k)' => Current(k))
  BY RegistryGrows
<1>2. Progress(t) /\ Complete(t)
  BY DEF ExactInv
<1>3. loads[t].pc # "idle" => loads[t].since \in DOMAIN registry
  BY Basics DEF Placed, Registrations
<1>4. proxies[t] # Absent => proxies[t].since \in DOMAIN registry
  BY DEF TypeInv, Rooted, Registrations
<1>5. ASSUME loads'[t] = loads[t] PROVE Progress(t)'
  <2>1. PICK l : l = loads[t]
    OBVIOUS
  <2>2. l.pc # "idle" => registry'[l.since] = registry[l.since] /\ (Current(l.since)' => Current(l.since))
    BY <1>1, <1>3, <2>1
  <2>. QED
    BY <1>2, <1>5, <2>1, <2>2 DEF Progress
<1>6. ASSUME proxies'[t] = proxies[t] PROVE Complete(t)'
  <2>1. PICK p : p = proxies[t]
    OBVIOUS
  <2>2. p # Absent => registry'[p.since] = registry[p.since] /\ (Current(p.since)' => Current(p.since))
    BY <1>1, <1>4, <2>1
  <2>. QED
    BY <1>2, <1>6, <2>1, <2>2 DEF Complete
<1>. QED
  BY <1>5, <1>6

\* A step of a load leaves it with the signatures of the exports it has passed.
LEMMA LoadsStayExact ==
    ASSUME TypeInv, TypeInv', ExactInv, NEW t \in Threads, LoadStep(t)
    PROVE  ExactInv'
<1>0. /\ loads \in [Threads -> Load] /\ loads[t] \in Load /\ Placed(t) /\ Progress(t)
      /\ proxies \in [Threads -> Proxy \cup {Absent}]
      /\ registry' = registry
      /\ \A k : Current(k)' = Current(k)
  BY Basics DEF TypeInv, ExactInv, LoadStep, AskCount, AskName, AskSignature, BindCallers, Current
<1>1. ASSUME \A u \in Threads : u # t => loads'[u] = loads[u] /\ proxies'[u] = proxies[u],
             Progress(t)', Complete(t)'
      PROVE  ExactInv'
  BY <1>0, <1>1, OthersStayExact DEF ExactInv
<1>. DEFINE load == loads[t]
            table == registry[load.since].table
<1>2. ASSUME Current(load.since), load.pc # "idle"
      PROVE  /\ table \in Seq(Entry) /\ Len(table) \in Nat
             /\ Registered(load.module) = table
             /\ Exact(load.signatures, table, load.next - 1)
             /\ \A i \in DOMAIN table :
                    /\ table[i].name \in Names
                    /\ GetSignature(load.module, table[i].name)
                       = table[LastOf(table, table[i].name)].signature
             /\ load.pc \in {"name", "signature"} => load.count = Len(table)
             /\ load.pc = "signature" => load.name = table[load.next].name
  BY <1>0, <1>2, CurrentLoad
<1>3. /\ load.count \in Nat /\ load.next \in Nat \ {0}
      /\ load.next <= load.count + 1
      /\ load.pc = "signature" => load.next <= load.count
      /\ load.pc = "count" => load.next = 1
      /\ Absent \notin Names
  BY <1>0, Basics DEF Load, Placed
<1>4. CASE AskCount(t)
  <2>1. /\ load.pc = "count" /\ proxies' = proxies
        /\ loads' = [loads EXCEPT ![t].pc = "name", ![t].count = Len(Registered(load.module))]
    BY <1>4 DEF AskCount, At
  <2>2. /\ loads'[t].pc = "name" /\ loads'[t].count = Len(Registered(load.module))
        /\ loads'[t].since = load.since /\ loads'[t].next = load.next
        /\ loads'[t].signatures = load.signatures
        /\ \A u \in Threads : u # t => loads'[u] = loads[u]
    BY <1>0, <2>1 DEF Load
  <2>3. Progress(t)'
    BY <1>0, <1>2, <2>1, <2>2 DEF Progress
  <2>4. Complete(t)'
    BY <1>0, <2>1, OthersStayExact
  <2>. QED
    BY <1>1, <2>1, <2>2, <2>3, <2>4
<1>5. CASE AskName(t)
  <2>1. load.pc = "name" /\ proxies' = proxies /\ load.next <= load.count
    BY <1>5 DEF AskName, At
  <2>2. Current(load.since) => NameAt(load) = table[load.next].name /\ NameAt(load) # Absent
    <3>1. SUFFICES ASSUME Current(load.since)
                   PROVE  NameAt(load) = table[load.next].name /\ NameAt(load) # Absent
      OBVIOUS
    <3>2. load.next \in DOMAIN table
      <4>1. table \in Seq(Entry) /\ load.count = Len(table)
        BY <1>2, <2>1, <3>1
      <4>2. DOMAIN table = 1 .. load.count
        BY <4>1
      <4>. QED
        BY <1>3, <2>1, <4>2
    <3>3. NameAt(load) = table[load.next].name
      BY <1>2, <2>1, <3>1, <3>2 DEF NameAt, ExportName
    <3>. QED
      BY <1>2, <1>3, <2>1, <3>1, <3>2, <3>3
  <2>3. CASE NameAt(load) = Absent
    <3>1. loads' = [loads EXCEPT ![t].next = @ + 1]
      BY <1>5, <2>3 DEF AskName
    <3>2. loads'[t].since = load.since /\ \A u \in Threads : u # t => loads'[u] = loads[u]
      BY <1>0, <3>1 DEF Load
    <3>3. Progress(t)'
      BY <1>0, <2>2, <2>3, <3>2 DEF Progress
    <3>4. Complete(t)'
      BY <1>0, <2>1, OthersStayExact
    <3>. QED
      BY <1>1, <2>1, <3>2, <3>3, <3>4
  <2>4. CASE NameAt(load) # Absent
    <3>1. loads' = [loads EXCEPT ![t].pc = "signature", ![t].name = NameAt(load)]
      BY <1>5, <2>4 DEF AskName
    <3>2. /\ loads'[t].pc = "signature" /\ loads'[t].name = NameAt(load)
          /\ loads'[t].since = load.since /\ loads'[t].next = load.next
          /\ loads'[t].signatures = load.signatures /\ loads'[t].count = load.count
          /\ \A u \in Threads : u # t => loads'[u] = loads[u]
      BY <1>0, <3>1 DEF Load
    <3>3. Progress(t)'
      BY <1>0, <1>2, <2>1, <2>2, <3>2 DEF Progress
    <3>4. Complete(t)'
      BY <1>0, <2>1, OthersStayExact
    <3>. QED
      BY <1>1, <2>1, <3>2, <3>3, <3>4
  <2>. QED
    BY <2>3, <2>4
<1>6. CASE AskSignature(t)
  <2>1. load.pc = "signature" /\ proxies' = proxies
    BY <1>6 DEF AskSignature, At
  <2>. DEFINE signature == GetSignature(load.module, load.name)
              all == [n \in DOMAIN load.signatures \cup {load.name} |->
                          IF n = load.name THEN signature ELSE load.signatures[n]]
  <2>2. loads' = [loads EXCEPT ![t].pc = "name", ![t].next = @ + 1, ![t].name = Absent,
                               ![t].signatures = all]
    BY <1>6 DEF AskSignature
  <2>. HIDE DEF all
  <2>3. /\ loads'[t].pc = "name" /\ loads'[t].since = load.since
        /\ loads'[t].next = load.next + 1 /\ loads'[t].signatures = all
        /\ loads'[t].count = load.count
        /\ \A u \in Threads : u # t => loads'[u] = loads[u]
    BY <1>0, <2>2 DEF Load
  <2>4. ASSUME Current(load.since)
        PROVE  Exact(all, table, load.next)
    <3>1. /\ load.next \in DOMAIN table /\ load.name = table[load.next].name
          /\ table \in Seq(Entry) /\ load.next - 1 \in Nat /\ load.next - 1 + 1 = load.next
      <4>1. table \in Seq(Entry) /\ load.count = Len(table) /\ load.name = table[load.next].name
        BY <1>2, <2>1, <2>4
      <4>2. DOMAIN table = 1 .. load.count
        BY <4>1
      <4>3. /\ load.next \in 1 .. load.count
            /\ load.next - 1 \in Nat /\ load.next - 1 + 1 = load.next
        BY <1>3, <2>1
      <4>. QED
        BY <4>1, <4>2, <4>3
    <3>2. signature = table[LastOf(table, load.name)].signature
      BY <1>2, <2>1, <2>4, <3>1
    <3>3. /\ DOMAIN load.signatures = NamesUpTo(table, load.next - 1)
          /\ \A n \in DOMAIN load.signatures :
                 load.signatures[n] = table[LastOf(table, n)].signature
      BY <1>2, <2>1, <2>4 DEF Exact
    <3>4. NamesUpTo(table, load.next) = NamesUpTo(table, load.next - 1) \cup {load.name}
      <4>1. PICK k \in Nat, g \in Seq(Entry) : k = load.next - 1 /\ g = table
        BY <3>1
      <4>2. k + 1 = load.next /\ k + 1 \in DOMAIN g
        BY <3>1, <4>1
      <4>3. NamesUpTo(g, k + 1) = NamesUpTo(g, k) \cup {g[k + 1].name}
        BY <4>2, NamesGrow
      <4>. QED
        BY <3>1, <4>1, <4>2, <4>3
    <3>. QED
      BY <3>2, <3>3, <3>4 DEF Exact, all
  <2>5. Progress(t)'
    <3>1. loads'[t].next - 1 = load.next
      BY <1>3, <2>3
    <3>2. Current(load.since) => Exact(all, table, loads'[t].next - 1) /\ load.count = Len(table)
      BY <1>2, <2>1, <2>4, <3>1
    <3>. QED
      BY <1>0, <2>3, <3>2 DEF Progress
  <2>6. Complete(t)'
    BY <1>0, <2>1, OthersStayExact
  <2>. QED
    BY <1>1, <2>1, <2>3, <2>5, <2>6
<1>7. CASE BindCallers(t)
  <2>. DEFINE p == [module |-> load.module, since |-> load.since, signatures |-> load.signatures]
  <2>1. /\ load.pc = "name" /\ load.next > load.count
        /\ proxies' = [proxies EXCEPT ![t] = p]
        /\ loads' = [loads EXCEPT ![t] = Idle]
    BY <1>7 DEF BindCallers, At
  <2>2. /\ loads'[t] = Idle /\ proxies'[t] = p
        /\ \A u \in Threads : u # t => loads'[u] = loads[u] /\ proxies'[u] = proxies[u]
    BY <1>0, <2>1
  <2>3. Progress(t)'
    <3>1. Idle.pc = "idle"
      BY DEF Idle
    <3>. QED
      BY <2>2, <3>1 DEF Progress
  <2>4. Current(load.since) => Exact(load.signatures, table, Len(table))
    <3>1. load.next - 1 = load.count
      BY <1>3, <2>1
    <3>. QED
      BY <1>2, <2>1, <3>1
  <2>5. Complete(t)'
    BY <1>0, <2>2, <2>4 DEF Complete
  <2>. QED
    BY <1>1, <2>2, <2>3, <2>5
<1>. QED
  BY <1>4, <1>5, <1>6, <1>7 DEF LoadStep

\* A load begins with no signatures and no exports passed.
LEMMA LoadsBeginExact ==
    ASSUME TypeInv, TypeInv', ExactInv, NEW t \in Threads, NEW m \in Modules,
           NEW program \in Programs[m], Register(t, m, program)
    PROVE  ExactInv'
<1>0. /\ \E r \in Registration : registry' = Append(registry, r)
      /\ \A u \in Threads : u # t => loads'[u] = loads[u]
      /\ proxies' = proxies
  BY RegisteringStaysTyped DEF Register
<1>1. PICK pc \in {"count", "name"}, count \in Nat :
          /\ loads'[t] = Begun(pc, m, Len(registry) + 1, count)
          /\ pc = "name" => count = Len(Table(program))
  BY RegisteringStaysTyped
<1>2. PICK since \in Nat : since = Len(registry) + 1
  BY Basics
<1>3. registry'[since].table = Table(program)
  <2>1. registry'[Len(registry) + 1] = [module |-> m, table |-> Table(program)]
    BY RegisteringStaysTyped
  <2>. QED
    BY <1>2, <2>1
<1>4. Exact(<<>>, Table(program), 0)
  <2>1. NamesUpTo(Table(program), 0) = {} /\ DOMAIN <<>> = {}
    BY TablesLead, NamesGrow
  <2>. QED
    BY <2>1 DEF Exact
<1>5. /\ loads'[t].pc = pc /\ loads'[t].since = since /\ loads'[t].count = count
      /\ loads'[t].next - 1 = 0 /\ loads'[t].signatures = <<>>
  BY <1>1, <1>2 DEF Begun
<1>6. Progress(t)'
  BY <1>1, <1>3, <1>4, <1>5 DEF Progress
<1>. QED
  BY <1>0, <1>6, OthersStayExact DEF ExactInv

\* Whatever the loads do to one another, the signatures are exact.
LEMMA ExactHolds == Spec => []ExactInv
<1>1. Init => ExactInv
  <2>1. SUFFICES ASSUME Init, NEW t \in Threads PROVE Progress(t) /\ Complete(t)
    BY DEF ExactInv
  <2>2. loads[t].pc = "idle" /\ proxies[t] = Absent
    BY <2>1 DEF Init, Idle
  <2>. QED
    BY <2>2 DEF Progress, Complete
<1>2. TypeInv /\ TypeInv' /\ ExactInv /\ [Next]_vars => ExactInv'
  <2>1. SUFFICES ASSUME TypeInv, TypeInv', ExactInv, [Next]_vars PROVE ExactInv'
    OBVIOUS
  <2>2. CASE UNCHANGED <<registry, loads, proxies>>
    BY <2>1, <2>2, OthersStayExact DEF ExactInv
  <2>3. CASE \/ Rest \/ Rebuild \/ UNCHANGED vars
             \/ \E directory \in Directories, search \in SearchPaths, maps \in BOOLEAN :
                    ResolveCore(directory, search, maps)
    BY <2>2, <2>3 DEF Rest, Rebuild, ResolveCore, vars
  <2>. QED
    BY <2>1, <2>3, LoadsStayExact, LoadsBeginExact DEF Next
<1>. QED
  BY <1>1, <1>2, Typed, PTL DEF Spec

\* What a complete proxy has for a name, and what a call by that name runs.
LEMMA CompleteProxy ==
    ASSUME TypeInv, ExactInv, NEW t \in Threads, proxies[t] # Absent, Current(proxies[t].since)
    PROVE  LET p == proxies[t]
               table == registry[p.since].table
           IN  /\ DOMAIN p.signatures = {e.name : e \in Range(table)}
               /\ \A n \in DOMAIN p.signatures :
                      /\ FindExport(p.module, n) \in Declaration
                      /\ FindExport(p.module, n).name = n
                      /\ p.signatures[n] = SignatureOf(FindExport(p.module, n))
<1>. DEFINE p == proxies[t]
            table == registry[p.since].table
<1>1. p.since \in DOMAIN registry /\ registry[p.since].module = p.module
  BY DEF TypeInv, Rooted, Registrations
<1>2. table \in Seq(Entry) /\ registry[p.since].module \in Modules
  BY <1>1, Basics
<1>3. Exact(p.signatures, table, Len(table))
  BY DEF ExactInv, Complete
<1>4. DOMAIN p.signatures = {e.name : e \in Range(table)}
  BY <1>2, <1>3, NamesGrow DEF Exact
<1>5. /\ Registered(p.module) = table
      /\ \A n : Entries(p.module, n) = {i \in DOMAIN table : table[i].name = n}
  BY <1>1, CurrentIsRegistered
<1>6. \A i \in DOMAIN table : /\ table[i].signature = SignatureOf(table[i].runs)
                              /\ table[i].name = table[i].runs.name
                              /\ table[i].runs \in Declaration
  <2>1. PICK program \in Programs[registry[p.since].module] : table = Table(program)
    BY <1>1 DEF TypeInv
  <2>. QED
    BY <1>2, <2>1, TablesLead
<1>7. ASSUME NEW n \in DOMAIN p.signatures
      PROVE  /\ FindExport(p.module, n) \in Declaration
             /\ FindExport(p.module, n).name = n
             /\ p.signatures[n] = SignatureOf(FindExport(p.module, n))
  <2>. DEFINE found == {i \in DOMAIN table : table[i].name = n}
  <2>1. found # {}
    BY <1>4 DEF Range
  <2>2. Max(found) \in found
    <3>1. found \subseteq 1 .. Len(table) /\ Len(table) \in Nat
      <4>1. DOMAIN table = 1 .. Len(table) /\ Len(table) \in Nat
        BY <1>2
      <4>2. found \subseteq DOMAIN table
        OBVIOUS
      <4>. QED
        BY <4>1, <4>2
    <3>. QED
      BY <2>1, <3>1, Greatest
  <2>3. FindExport(p.module, n) = table[Max(found)].runs
    BY <1>5, <2>1 DEF FindExport
  <2>4. p.signatures[n] = table[Max(found)].signature
    BY <1>3 DEF Exact, LastOf
  <2>. QED
    BY <1>6, <2>2, <2>3, <2>4
<1>. QED
  BY <1>4, <1>7

\* However its look-ups interleave with other loads, a proxy has a caller for every
\* function of its module and no other, each with the signature of the function
\* that a call by the name runs, until the module comes with another table.
THEOREM ProxiesAreExact == Spec => []ProxyExact
<1>1. TypeInv /\ ExactInv => ProxyExact
  BY CompleteProxy DEF ProxyExact
<1>. QED
  BY <1>1, Typed, ExactHolds, PTL

\* A call through such a proxy runs the function that was named, and both sides
\* use the same member of a GluValue for each argument and for the result.
THEOREM CallsFindTheirFunction == Spec => []CallsMatch
<1>1. TypeInv /\ ExactInv => CallsMatch
  <2>1. SUFFICES ASSUME TypeInv, ExactInv, NEW t \in Threads,
                        proxies[t] # Absent, Current(proxies[t].since),
                        NEW n \in DOMAIN proxies[t].signatures
                 PROVE  LET packed == proxies[t].signatures[n]
                            ran == FindExport(proxies[t].module, n)
                        IN  /\ ran # Absent
                            /\ ran.name = n
                            /\ Len(ran.params) = Len(packed.params)
                            /\ \A i \in DOMAIN ran.params :
                                   MemberOf(ran.params[i]) = PythonMember(packed.params[i])
                            /\ MemberOf(ran.returns) = PythonMember(packed.returns)
    BY DEF CallsMatch
  <2>2. PICK ran \in Declaration : ran = FindExport(proxies[t].module, n)
    BY <2>1, CompleteProxy
  <2>3. ran.name = n /\ proxies[t].signatures[n] = SignatureOf(ran)
    BY <2>1, <2>2, CompleteProxy
  <2>4. ran # Absent
    BY <2>2, LoadingAssumption
  <2>5. ran.params \in Seq(Types) /\ ran.returns \in Types
    BY DEF Declaration
  <2>6. SignatureOf(ran).returns = TagOf(ran.returns)
    BY DEF SignatureOf
  <2>7. \A i \in DOMAIN ran.params : ran.params[i] \in Types
    BY <2>5
  <2>. QED
    BY <2>2, <2>3, <2>4, <2>5, <2>6, <2>7, TagsMatch
<1>. QED
  BY <1>1, Typed, ExactHolds, PTL

(* ------------------------- a module that has changed ----------------------- *)

\* Every caller in a list of signatures is of a table since the registration, and so
\* is the name whose signature the load of thread t is about to ask for.
Fresh(m, since, signatures) ==
    \A n \in DOMAIN signatures : HadSince(m, since, n, signatures[n])
NamedSince(m, since, n) ==
    \E k \in Registrations(m) : since <= k /\ n \in {e.name : e \in Range(registry[k].table)}
LoadFresh(t) ==
    LET load == loads[t]
    IN  load.pc # "idle" =>
            /\ Fresh(load.module, load.since, load.signatures)
            /\ load.pc = "signature" => NamedSince(load.module, load.since, load.name)
ProxyFresh(t) ==
    proxies[t] # Absent => Fresh(proxies[t].module, proxies[t].since, proxies[t].signatures)
FreshInv == \A t \in Threads : LoadFresh(t) /\ ProxyFresh(t)

\* What a module has had since a registration it has had also later.
LEMMA FreshnessStays ==
    ASSUME TypeInv, registry' = registry \/ \E r \in Registration : registry' = Append(registry, r)
    PROVE  /\ \A m, since, n, signature :
                  HadSince(m, since, n, signature) => HadSince(m, since, n, signature)'
           /\ \A m, since, n : NamedSince(m, since, n) => NamedSince(m, since, n)'
           /\ \A m, since, signatures : Fresh(m, since, signatures) => Fresh(m, since, signatures)'
           /\ \A t : loads'[t] = loads[t] /\ LoadFresh(t) => LoadFresh(t)'
           /\ \A t : proxies'[t] = proxies[t] /\ ProxyFresh(t) => ProxyFresh(t)'
<1>1. /\ \A k \in DOMAIN registry : registry'[k] = registry[k]
      /\ \A m, k : k \in Registrations(m) => k \in Registrations(m)' /\ k \in DOMAIN registry
  BY RegistryGrows DEF Registrations
<1>2. \A m, since, n, signature :
          HadSince(m, since, n, signature) => HadSince(m, since, n, signature)'
  BY <1>1 DEF HadSince
<1>3. \A m, since, n : NamedSince(m, since, n) => NamedSince(m, since, n)'
  BY <1>1 DEF NamedSince
<1>4. \A m, since, signatures : Fresh(m, since, signatures) => Fresh(m, since, signatures)'
  BY <1>2 DEF Fresh
<1>. QED
  BY <1>2, <1>3, <1>4 DEF LoadFresh, ProxyFresh

\* The core answers for a name from the last table of the module.
LEMMA SignatureIsOffered ==
    ASSUME TypeInv, NEW m \in Modules, NEW since \in Nat, NEW n, NamedSince(m, since, n)
    PROVE  HadSince(m, since, n, GetSignature(m, n))
<1>. DEFINE last == Max(Registrations(m))
<1>1. PICK k \in Registrations(m) :
          since <= k /\ n \in {e.name : e \in Range(registry[k].table)}
  BY DEF NamedSince
<1>2. last \in Registrations(m) /\ k <= last
  BY <1>1, LastRegistration
<1>3. GetSignature(m, n) = Offers(registry[last].table, n)
  BY <1>1 DEF GetSignature, Entries, Registered, Offers
<1>. HIDE DEF last
<1>. QED
  BY <1>1, <1>2, <1>3 DEF HadSince

\* A name that is listed is in a table of the module since the load began.
LEMMA ListedIsNamed ==
    ASSUME TypeInv, NEW t \in Threads, loads[t].pc = "name", loads[t].next <= loads[t].count,
           NameAt(loads[t]) # Absent
    PROVE  NamedSince(loads[t].module, loads[t].since, NameAt(loads[t]))
<1>. DEFINE load == loads[t]
            m == load.module
<1>1. /\ m \in Modules /\ load.since \in Registrations(m) /\ load.since \in DOMAIN registry
      /\ load.since \in Nat /\ load.next \in Nat \ {0} /\ load.count \in Nat
      /\ m \notin Process => load.count = Len(registry[load.since].table)
  BY Basics DEF Placed, Load, Registrations
<1>2. CASE m \in Process
  <2>. DEFINE last == Max(Registrations(m))
  <2>1. last \in Registrations(m) /\ load.since <= last /\ Registered(m) = registry[last].table
    BY <1>1, LastRegistration DEF Registered
  <2>2. load.next \in DOMAIN Registered(m) /\ NameAt(load) = Registered(m)[load.next].name
    BY <1>2 DEF NameAt, ExportName
  <2>3. NameAt(load) \in {e.name : e \in Range(registry[last].table)}
    BY <2>1, <2>2 DEF Range
  <2>. HIDE DEF last
  <2>. QED
    BY <2>1, <2>3 DEF NamedSince
<1>3. CASE m \notin Process
  <2>. DEFINE table == registry[load.since].table
  <2>1. NameAt(load) = table[load.next].name
    BY <1>3 DEF NameAt
  <2>2. load.next \in DOMAIN table
    <3>1. table \in Seq(Entry) /\ load.count = Len(table)
      BY <1>1, <1>3, Basics
    <3>2. load.next \in 1 .. Len(table)
      BY <1>1, <3>1
    <3>. QED
      BY <3>1, <3>2
  <2>3. NameAt(load) \in {e.name : e \in Range(table)}
    BY <2>1, <2>2 DEF Range
  <2>. QED
    BY <1>1, <2>3 DEF NamedSince
<1>. QED
  BY <1>2, <1>3

\* A step of a load adds nothing that is older than the load.
LEMMA LoadsStayFresh ==
    ASSUME TypeInv, FreshInv, NEW t \in Threads, LoadStep(t)
    PROVE  FreshInv'
<1>. DEFINE load == loads[t]
<1>0. /\ registry' = registry /\ load \in Load /\ t \in DOMAIN loads /\ t \in DOMAIN proxies
      /\ LoadFresh(t) /\ ProxyFresh(t)
  BY Basics DEF TypeInv, FreshInv, LoadStep, AskCount, AskName, AskSignature, BindCallers
<1>1. \A u \in Threads : u # t => loads'[u] = loads[u] /\ proxies'[u] = proxies[u]
  <2>1. loads \in [Threads -> Load] /\ proxies \in [Threads -> Proxy \cup {Absent}]
    BY DEF TypeInv
  <2>2. AskCount(t) \/ AskName(t) \/ AskSignature(t)
            => proxies' = proxies /\ \A u \in Threads : u # t => loads'[u] = loads[u]
    BY <2>1 DEF AskCount, AskName, AskSignature
  <2>3. BindCallers(t) =>
            \A u \in Threads : u # t => loads'[u] = loads[u] /\ proxies'[u] = proxies[u]
    BY <2>1 DEF BindCallers
  <2>. QED
    BY <2>2, <2>3 DEF LoadStep
<1>2. SUFFICES LoadFresh(t)' /\ ProxyFresh(t)'
  BY <1>0, <1>1, FreshnessStays DEF FreshInv
<1>3. PICK m, since, signatures :
          m = load.module /\ since = load.since /\ signatures = load.signatures
  OBVIOUS
<1>4. load.pc # "idle" => Fresh(m, since, signatures)'
  BY <1>0, <1>3, FreshnessStays DEF LoadFresh
<1>5. CASE AskCount(t)
  <2>1. /\ load.pc # "idle" /\ proxies' = proxies /\ loads'[t].pc = "name"
        /\ loads'[t].module = load.module /\ loads'[t].since = load.since
        /\ loads'[t].signatures = load.signatures
    BY <1>0, <1>5 DEF AskCount, At, Load
  <2>. QED
    BY <1>0, <1>3, <1>4, <2>1, FreshnessStays DEF LoadFresh
<1>6. CASE AskName(t)
  <2>1. load.pc = "name" /\ load.next <= load.count /\ proxies' = proxies
    BY <1>6 DEF AskName, At
  <2>3. CASE NameAt(load) = Absent
    <3>1. loads' = [loads EXCEPT ![t].next = @ + 1]
      BY <1>6, <2>3 DEF AskName
    <3>2. /\ loads'[t].pc = "name" /\ loads'[t].module = load.module
          /\ loads'[t].since = load.since /\ loads'[t].signatures = load.signatures
      BY <1>0, <2>1, <3>1 DEF Load
    <3>. QED
      BY <1>0, <1>3, <1>4, <2>1, <3>2, FreshnessStays DEF LoadFresh
  <2>4. CASE NameAt(load) # Absent
    <3>1. loads' = [loads EXCEPT ![t].pc = "signature", ![t].name = NameAt(load)]
      BY <1>6, <2>4 DEF AskName
    <3>2. /\ loads'[t].module = load.module /\ loads'[t].name = NameAt(load)
          /\ loads'[t].since = load.since /\ loads'[t].signatures = load.signatures
      BY <1>0, <3>1 DEF Load
    <3>3. NamedSince(load.module, load.since, NameAt(load))
      BY <2>1, <2>4, ListedIsNamed
    <3>4. PICK n : n = NameAt(load)
      OBVIOUS
    <3>5. NamedSince(m, since, n)'
      BY <1>0, <1>3, <3>3, <3>4, FreshnessStays
    <3>6. LoadFresh(t)'
      BY <1>3, <1>4, <2>1, <3>2, <3>4, <3>5 DEF LoadFresh
    <3>. QED
      BY <1>0, <2>1, <3>6, FreshnessStays
  <2>. QED
    BY <2>3, <2>4
<1>7. CASE AskSignature(t)
  <2>. DEFINE signature == GetSignature(load.module, load.name)
              all == [n \in DOMAIN load.signatures \cup {load.name} |->
                          IF n = load.name THEN signature ELSE load.signatures[n]]
  <2>1. load.pc = "signature" /\ proxies' = proxies
    BY <1>7 DEF AskSignature, At
  <2>2. loads' = [loads EXCEPT ![t].pc = "name", ![t].next = @ + 1, ![t].name = Absent,
                               ![t].signatures = all]
    BY <1>7 DEF AskSignature
  <2>3. HadSince(load.module, load.since, load.name, signature)
    <3>1. load.module \in Modules /\ load.since \in Nat
      BY <1>0, <2>1, Basics DEF Placed, Load
    <3>. QED
      BY <1>0, <2>1, <3>1, SignatureIsOffered DEF LoadFresh
  <2>4. Fresh(load.module, load.since, all)
    BY <1>0, <2>1, <2>3 DEF LoadFresh, Fresh
  <2>. HIDE DEF all
  <2>5. /\ loads'[t].pc = "name" /\ loads'[t].module = load.module
        /\ loads'[t].since = load.since /\ loads'[t].signatures = all
    BY <1>0, <2>2 DEF Load
  <2>6. PICK grown : grown = all
    OBVIOUS
  <2>7. Fresh(m, since, grown)'
    BY <1>0, <1>3, <2>4, <2>6, FreshnessStays
  <2>8. LoadFresh(t)'
    BY <1>3, <2>5, <2>6, <2>7 DEF LoadFresh
  <2>. QED
    BY <1>0, <2>1, <2>8, FreshnessStays
<1>8. CASE BindCallers(t)
  <2>. DEFINE p == [module |-> load.module, since |-> load.since, signatures |-> load.signatures]
  <2>1. /\ load.pc = "name" /\ proxies' = [proxies EXCEPT ![t] = p]
        /\ loads' = [loads EXCEPT ![t] = Idle]
    BY <1>8 DEF BindCallers, At
  <2>2. proxies'[t] = p /\ loads'[t].pc = "idle"
    BY <1>0, <2>1 DEF Idle
  <2>3. /\ proxies'[t].module = m /\ proxies'[t].since = since
        /\ proxies'[t].signatures = signatures
    BY <1>3, <2>2
  <2>4. Fresh(m, since, signatures)'
    BY <1>4, <2>1
  <2>. QED
    BY <2>2, <2>3, <2>4 DEF LoadFresh, ProxyFresh
<1>. QED
  BY <1>5, <1>6, <1>7, <1>8 DEF LoadStep

\* However often its module comes with another table while it is listed, a proxy has
\* callers and signatures only of tables the module has had since its load began.
THEOREM ProxiesAreFresh == Spec => []NothingStale
<1>1. Init => FreshInv
  BY DEF Init, FreshInv, LoadFresh, ProxyFresh, Idle
<1>2. TypeInv /\ FreshInv /\ [Next]_vars => FreshInv'
  <2>1. SUFFICES ASSUME TypeInv, FreshInv, [Next]_vars PROVE FreshInv'
    OBVIOUS
  <2>2. CASE UNCHANGED <<registry, loads, proxies>>
    <3>1. \A t \in Threads : loads'[t] = loads[t] /\ proxies'[t] = proxies[t]
      BY <2>2
    <3>. QED
      BY <2>1, <2>2, <3>1, FreshnessStays DEF FreshInv
  <2>3. CASE \/ Rest \/ Rebuild \/ UNCHANGED vars
             \/ \E directory \in Directories, search \in SearchPaths, maps \in BOOLEAN :
                    ResolveCore(directory, search, maps)
    BY <2>2, <2>3 DEF Rest, Rebuild, ResolveCore, vars
  <2>4. ASSUME NEW t \in Threads, NEW m \in Modules, NEW program \in Programs[m],
               Register(t, m, program)
        PROVE  FreshInv'
    <3>1. /\ \E r \in Registration : registry' = Append(registry, r)
          /\ \A u \in Threads : u # t => loads'[u] = loads[u]
          /\ proxies' = proxies
      BY <2>1, <2>4, RegisteringStaysTyped DEF Register
    <3>2. PICK pc \in {"count", "name"}, count \in Nat :
              loads'[t] = Begun(pc, m, Len(registry) + 1, count)
      BY <2>1, <2>4, RegisteringStaysTyped
    <3>3. /\ loads'[t].pc # "signature" /\ DOMAIN loads'[t].signatures = {}
      BY <3>2, Basics, <2>1 DEF Begun
    <3>4. LoadFresh(t)'
      BY <3>3 DEF LoadFresh, Fresh
    <3>. QED
      BY <2>1, <3>1, <3>4, FreshnessStays DEF FreshInv
  <2>. QED
    BY <2>1, <2>3, <2>4, LoadsStayFresh DEF Next
<1>3. FreshInv => NothingStale
  BY DEF FreshInv, ProxyFresh, Fresh, NothingStale
<1>. QED
  BY <1>1, <1>2, <1>3, Typed, PTL DEF Spec
===============================================================================
