--------------------------- MODULE IpcDispatch_proof ---------------------------
(***************************************************************************)
(* Theorems about IpcDispatch, for every set of threads, modules and       *)
(* functions, every depth of nesting, every number of registrations and    *)
(* both policies of the lock.                                              *)
(***************************************************************************)
EXTENDS IpcDispatch, SequenceTheorems, FiniteSetTheorems, WellFoundedInduction, TLAPS

(* -------------------------- lemmas on sequences -------------------------- *)

\* What Front and Last return on a sequence with an element.
LEMMA FrontLast ==
    ASSUME NEW S, NEW s \in Seq(S), s # <<>>
    PROVE  /\ Front(s) \in Seq(S)
           /\ Len(s) \in Nat \ {0}
           /\ Len(Front(s)) = Len(s) - 1
           /\ \A i \in 1 .. Len(s) - 1 : Front(s)[i] = s[i]
           /\ Last(s) \in S
           /\ Last(s) = s[Len(s)]
<1>1. Len(s) \in Nat /\ Len(s) # 0
  OBVIOUS
<1>2. Front(s) = SubSeq(s, 1, Len(s) - 1) /\ Last(s) = s[Len(s)]
  BY DEF Front, Last
<1>3. s[Len(s)] \in S /\ \A i \in 1 .. Len(s) - 1 : s[i] \in S
  BY <1>1, LenProperties
<1>4. /\ Front(s) \in Seq(S)
      /\ Len(Front(s)) = Len(s) - 1
      /\ \A i \in 1 .. Len(s) - 1 : Front(s)[i] = s[i]
  <2>. DEFINE n == Len(s) - 1
  <2>1. n \in Int /\ 1 \in Int /\ n >= 0 /\ \A i \in 1 .. n : s[i] \in S
    BY <1>1, <1>3
  <2>. HIDE DEF n
  <2>2. /\ SubSeq(s, 1, n) \in Seq(S)
        /\ Len(SubSeq(s, 1, n)) = IF 1 <= n THEN n - 1 + 1 ELSE 0
        /\ \A i \in 1 .. n - 1 + 1 : SubSeq(s, 1, n)[i] = s[1 + i - 1]
    BY <2>1, SubSeqProperties
  <2>3. ASSUME NEW i \in 1 .. n
        PROVE  SubSeq(s, 1, n)[i] = s[i]
    <3>1. i \in 1 .. n - 1 + 1 /\ 1 + i - 1 = i
      BY <2>1
    <3>. QED
      BY <2>2, <3>1
  <2>4. Len(SubSeq(s, 1, n)) = n
    BY <2>1, <2>2
  <2>. QED
    BY <1>2, <2>2, <2>3, <2>4 DEF n
<1>. QED
  BY <1>1, <1>2, <1>3, <1>4

\* Replacing the last element leaves the length and the other elements.
LEMMA ReplaceLast ==
    ASSUME NEW S, NEW s \in Seq(S), s # <<>>, NEW e \in S
    PROVE  /\ Append(Front(s), e) \in Seq(S)
           /\ Append(Front(s), e) # <<>>
           /\ Len(Append(Front(s), e)) = Len(s)
           /\ \A i \in 1 .. Len(s) - 1 : Append(Front(s), e)[i] = s[i]
           /\ Append(Front(s), e)[Len(s)] = e
<1>. DEFINE r == Append(Front(s), e)
<1>1. Len(r) = Len(s) /\ r \in Seq(S)
  BY FrontLast
<1>2. \A i \in 1 .. Len(s) - 1 : r[i] = s[i]
  BY FrontLast
<1>. QED
  BY <1>1, <1>2, FrontLast

\* The last place at which a sequence holds one of its elements.
LEMMA LastOccurrence ==
    ASSUME NEW S, NEW s \in Seq(S), NEW e \in ToSet(s)
    PROVE  \E i \in 0 .. Len(s) - 1 : s[i + 1] = e /\ \A j \in i + 2 .. Len(s) : s[j] # e
<1>. DEFINE n == Len(s)
            T == {k \in Nat : k < n /\ s[n - k] = e}
<1>1. n \in Nat
  OBVIOUS
<1>2. PICK i \in 1 .. n : s[i] = e
  BY DEF ToSet
<1>3. n - i \in T
  <2>1. n - i \in Nat /\ n - i < n /\ n - (n - i) = i
    BY <1>1, <1>2
  <2>. QED
    BY <1>2, <2>1
<1>4. PICK k \in T : \A l \in T : ~(<<l, k>> \in OpToRel(<, Nat))
  <2>1. T \subseteq Nat /\ T # {}
    BY <1>3
  <2>. HIDE DEF T
  <2>. QED
    BY <2>1, WFMin, NatLessThanWellFounded
<1>5. k \in Nat /\ k < n /\ s[n - k] = e
  BY <1>4
<1>6. ASSUME NEW l \in T
      PROVE  ~(l < k)
  BY <1>4, <1>6 DEF OpToRel
<1>. DEFINE p == n - k - 1
<1>7. p \in 0 .. n - 1 /\ p + 1 = n - k
  BY <1>1, <1>5
<1>8. ASSUME NEW j \in p + 2 .. n, s[j] = e
      PROVE  FALSE
  <2>1. n - j \in Nat /\ n - j < n /\ n - (n - j) = j /\ n - j < k
    BY <1>1, <1>5
  <2>2. n - j \in T
    BY <1>8, <2>1
  <2>. QED
    BY <1>6, <2>1, <2>2
<1>. QED
  BY <1>5, <1>7, <1>8

(* ---------------------------- type correctness ---------------------------- *)

\* The base of a registration is an index of the table it pushes to.
TypeInv == TypeOK /\ \A t \in Threads : reg[t].base <= Len(ipcExports)

\* A thread that registers nothing.
LEMMA IdleRegType == IdleReg \in Reg
<1>1. (CHOOSE m \in Modules : TRUE) \in Modules
  BY IpcDispatchAssumption
<1>. QED
  BY <1>1 DEF IdleReg, Reg, RegPcs

\* find_export answers the index of an entry with the name it was asked for.
LEMMA EntryIndexType ==
    ASSUME NEW entries \in Seq(Functions), NEW f \in ToSet(entries)
    PROVE  /\ EntryIndex(entries, f) \in Nat
           /\ EntryIndex(entries, f) < Len(entries)
           /\ entries[EntryIndex(entries, f) + 1] = f
<1>1. \E i \in 0 .. Len(entries) - 1 :
          entries[i + 1] = f /\ \A j \in i + 2 .. Len(entries) : entries[j] # f
  BY LastOccurrence
<1>2. /\ EntryIndex(entries, f) \in 0 .. Len(entries) - 1
      /\ entries[EntryIndex(entries, f) + 1] = f
  BY <1>1 DEF EntryIndex
<1>. QED
  BY <1>2

\* The call on top of a thread that has calls.
LEMMA TopType ==
    ASSUME TypeOK, NEW t \in Threads, calls[t] # <<>>
    PROVE  /\ Top(t) \in Call
           /\ Front(calls[t]) \in Seq(Call)
           /\ Top(t) = calls[t][Len(calls[t])]
           /\ Len(calls[t]) \in Nat \ {0}
           /\ Len(Front(calls[t])) = Len(calls[t]) - 1
           /\ \A i \in 1 .. Len(calls[t]) - 1 : Front(calls[t])[i] = calls[t][i]
  BY FrontLast DEF TypeOK, Top

\* The calls of the threads after the one on top of t became c.
LEMMA WithTopType ==
    ASSUME TypeOK, NEW t \in Threads, calls[t] # <<>>, NEW c \in Call, calls' = WithTop(t, c)
    PROVE  /\ calls' \in [Threads -> Seq(Call)]
           /\ Len(calls'[t]) = Len(calls[t])
           /\ Len(calls[t]) \in Nat \ {0}
           /\ calls'[t][Len(calls[t])] = c
           /\ calls'[t] # <<>>
           /\ Last(calls'[t]) = c
           /\ \A i \in 1 .. Len(calls[t]) - 1 : calls'[t][i] = calls[t][i]
           /\ \A u \in Threads \ {t} : calls'[u] = calls[u]
<1>1. calls[t] \in Seq(Call) /\ calls \in [Threads -> Seq(Call)]
  BY DEF TypeOK
<1>2. /\ calls'[t] = Append(Front(calls[t]), c)
      /\ \A u \in Threads \ {t} : calls'[u] = calls[u]
      /\ DOMAIN calls' = Threads /\ calls' = [u \in Threads |-> calls'[u]]
  BY <1>1 DEF WithTop
<1>3. /\ calls'[t] \in Seq(Call)
      /\ Len(calls'[t]) = Len(calls[t])
      /\ calls'[t] # <<>>
      /\ \A i \in 1 .. Len(calls[t]) - 1 : calls'[t][i] = calls[t][i]
      /\ calls'[t][Len(calls[t])] = c
  BY <1>1, <1>2, ReplaceLast
<1>4. Last(calls'[t]) = calls'[t][Len(calls'[t])]
  BY <1>3, FrontLast
<1>5. Len(calls[t]) \in Nat \ {0}
  BY TopType
<1>. QED
  BY <1>1, <1>2, <1>3, <1>4, <1>5

\* The calls of the threads after t has made a call.
LEMMA PushType ==
    ASSUME TypeOK, NEW t \in Threads, NEW c \in Call,
           calls' = [calls EXCEPT ![t] = Append(@, c)]
    PROVE  /\ calls' \in [Threads -> Seq(Call)]
           /\ Len(calls'[t]) = Len(calls[t]) + 1
           /\ Len(calls[t]) \in Nat
           /\ calls'[t][Len(calls[t]) + 1] = c
           /\ calls'[t] # <<>>
           /\ Last(calls'[t]) = c
           /\ \A i \in 1 .. Len(calls[t]) : calls'[t][i] = calls[t][i]
           /\ \A u \in Threads \ {t} : calls'[u] = calls[u]
<1>1. calls[t] \in Seq(Call) /\ calls \in [Threads -> Seq(Call)]
  BY DEF TypeOK
<1>2. /\ calls'[t] = Append(calls[t], c)
      /\ \A u \in Threads \ {t} : calls'[u] = calls[u]
      /\ DOMAIN calls' = Threads /\ calls' = [u \in Threads |-> calls'[u]]
  BY <1>1
<1>3. calls'[t] \in Seq(Call) /\ calls'[t] # <<>>
  BY <1>1, <1>2
<1>4. Last(calls'[t]) = calls'[t][Len(calls'[t])]
  BY <1>3, FrontLast
<1>. QED
  BY <1>1, <1>2, <1>3, <1>4

\* The calls of the threads after the one on top of t is over.
LEMMA PopType ==
    ASSUME TypeOK, NEW t \in Threads, calls[t] # <<>>,
           calls' = [calls EXCEPT ![t] = Front(@)]
    PROVE  /\ calls' \in [Threads -> Seq(Call)]
           /\ Len(calls'[t]) = Len(calls[t]) - 1
           /\ Len(calls[t]) \in Nat \ {0}
           /\ \A i \in 1 .. Len(calls[t]) - 1 : calls'[t][i] = calls[t][i]
           /\ calls'[t] # <<>> => Last(calls'[t]) = calls[t][Len(calls[t]) - 1]
           /\ \A u \in Threads \ {t} : calls'[u] = calls[u]
<1>1. calls[t] \in Seq(Call) /\ calls \in [Threads -> Seq(Call)]
  BY DEF TypeOK
<1>2. /\ calls'[t] = Front(calls[t])
      /\ \A u \in Threads \ {t} : calls'[u] = calls[u]
      /\ DOMAIN calls' = Threads /\ calls' = [u \in Threads |-> calls'[u]]
  BY <1>1
<1>3. /\ calls'[t] \in Seq(Call)
      /\ Len(calls[t]) \in Nat \ {0}
      /\ Len(calls'[t]) = Len(calls[t]) - 1
      /\ \A i \in 1 .. Len(calls[t]) - 1 : calls'[t][i] = calls[t][i]
  BY <1>2, TopType
<1>4. calls'[t] # <<>> => /\ Last(calls'[t]) = calls'[t][Len(calls'[t])]
                          /\ Len(calls'[t]) \in Nat \ {0}
  BY <1>3, FrontLast
<1>5. calls'[t] # <<>> => Last(calls'[t]) = calls[t][Len(calls[t]) - 1]
  BY <1>3, <1>4
<1>. QED
  BY <1>1, <1>2, <1>3, <1>5

(* ------------------------------- read guards ------------------------------ *)

\* The round trips among the calls s.
RoundTrips(s) == {i \in DOMAIN s : s[i].pc = "roundtrip"}

\* The round trips of a thread can be counted.
LEMMA RoundTripsFinite ==
    ASSUME NEW s \in Seq(Call)
    PROVE  /\ IsFiniteSet(RoundTrips(s))
           /\ Cardinality(RoundTrips(s)) \in Nat
           /\ Cardinality(RoundTrips(s)) = 0 <=> RoundTrips(s) = {}
<1>1. IsFiniteSet(1 .. Len(s))
  BY FS_Interval
<1>2. IsFiniteSet(RoundTrips(s))
  <2>1. RoundTrips(s) \in SUBSET (1 .. Len(s))
    BY DEF RoundTrips
  <2>. QED
    BY <1>1, <2>1, FS_Subset
<1>. QED
  BY <1>2, FS_CardinalityType, FS_EmptySet

\* A thread in a round trip holds a guard.
LEMMA GuardHeld ==
    ASSUME TypeOK, LockDiscipline, NEW t \in Threads, NEW i \in 1 .. Len(calls[t]),
           calls[t][i].pc = "roundtrip"
    PROVE  readers[t] # 0
<1>1. calls[t] \in Seq(Call)
  BY DEF TypeOK
<1>2. i \in RoundTrips(calls[t])
  BY <1>1 DEF RoundTrips
<1>3. readers[t] = Cardinality(RoundTrips(calls[t]))
  BY DEF LockDiscipline, RoundTrips
<1>. QED
  BY <1>1, <1>2, <1>3, RoundTripsFinite

\* A call that begins is not in a round trip.
LEMMA RoundTripsPush ==
    ASSUME NEW s \in Seq(Call), NEW r \in Seq(Call),
           Len(r) = Len(s) + 1, r[Len(s) + 1].pc # "roundtrip",
           \A i \in 1 .. Len(s) : r[i] = s[i]
    PROVE  RoundTrips(r) = RoundTrips(s)
<1>1. DOMAIN r = 1 .. Len(s) + 1 /\ DOMAIN s = 1 .. Len(s) /\ Len(s) \in Nat
  OBVIOUS
<1>2. \A i \in 1 .. Len(s) + 1 : i = Len(s) + 1 \/ i \in 1 .. Len(s)
  BY <1>1
<1>. QED
  BY <1>1, <1>2 DEF RoundTrips

\* A call on top that moves on, or enters its round trip.
LEMMA RoundTripsTop ==
    ASSUME NEW s \in Seq(Call), NEW r \in Seq(Call), s # <<>>,
           Len(r) = Len(s), s[Len(s)].pc # "roundtrip",
           \A i \in 1 .. Len(s) - 1 : r[i] = s[i]
    PROVE  Cardinality(RoundTrips(r)) =
               Cardinality(RoundTrips(s)) + (IF r[Len(s)].pc = "roundtrip" THEN 1 ELSE 0)
<1>. DEFINE n == Len(s)
<1>1. DOMAIN r = 1 .. n /\ DOMAIN s = 1 .. n /\ n \in Nat \ {0}
  OBVIOUS
<1>. HIDE DEF n
<1>2. n \in 1 .. n /\ \A i \in 1 .. n : i = n \/ i \in 1 .. n - 1
  BY <1>1
<1>3. n \notin RoundTrips(s)
  BY DEF RoundTrips, n
<1>4. CASE r[n].pc = "roundtrip"
  <2>1. RoundTrips(r) = RoundTrips(s) \cup {n}
    BY <1>1, <1>2, <1>4 DEF RoundTrips, n
  <2>. QED
    BY <1>3, <1>4, <2>1, FS_AddElement, RoundTripsFinite DEF n
<1>5. CASE r[n].pc # "roundtrip"
  <2>1. RoundTrips(r) = RoundTrips(s)
    BY <1>1, <1>2, <1>5 DEF RoundTrips, n
  <2>. QED
    BY <1>5, <2>1, RoundTripsFinite DEF n
<1>. QED
  BY <1>4, <1>5

\* A call that is over, in its round trip or not.
LEMMA RoundTripsPop ==
    ASSUME NEW s \in Seq(Call), NEW r \in Seq(Call), s # <<>>,
           Len(r) = Len(s) - 1,
           \A i \in 1 .. Len(s) - 1 : r[i] = s[i]
    PROVE  Cardinality(RoundTrips(r)) =
               Cardinality(RoundTrips(s)) - (IF s[Len(s)].pc = "roundtrip" THEN 1 ELSE 0)
<1>. DEFINE n == Len(s)
<1>1. DOMAIN r = 1 .. n - 1 /\ DOMAIN s = 1 .. n /\ n \in Nat \ {0}
  OBVIOUS
<1>. HIDE DEF n
<1>2. \A i \in 1 .. n : i = n \/ i \in 1 .. n - 1
  BY <1>1
<1>3. n \notin 1 .. n - 1 /\ 1 .. n - 1 \subseteq 1 .. n /\ n \in 1 .. n
  BY <1>1
<1>4. CASE s[n].pc = "roundtrip"
  <2>1. RoundTrips(r) = RoundTrips(s) \ {n} /\ n \in RoundTrips(s)
    BY <1>1, <1>2, <1>3, <1>4 DEF RoundTrips, n
  <2>. QED
    BY <1>4, <2>1, FS_RemoveElement, RoundTripsFinite DEF n
<1>5. CASE s[n].pc # "roundtrip"
  <2>1. RoundTrips(r) = RoundTrips(s)
    BY <1>1, <1>2, <1>3, <1>5 DEF RoundTrips, n
  <2>. QED
    BY <1>5, <2>1, RoundTripsFinite DEF n
<1>. QED
  BY <1>4, <1>5

(* ------------------------------- every step ------------------------------- *)

\* A step of a dispatch that rewrites the call on top.
LEMMA WithTopKeepsTypes ==
    ASSUME TypeInv, NEW t \in Threads, calls[t] # <<>>, NEW c \in Call, calls' = WithTop(t, c),
           UNCHANGED <<registry, ipcTables, writer, waiting, reg>>,
           readers' \in [Threads -> Nat], ctx' \in [Threads -> Ctx \cup {NoCtx}]
    PROVE  TypeInv'
<1>1. calls' \in [Threads -> Seq(Call)]
  BY WithTopType DEF TypeInv
<1>. QED
  BY <1>1 DEF TypeInv, TypeOK, registry, ipcTables

\* The end of a call.
LEMMA PopKeepsTypes ==
    ASSUME TypeInv, NEW t \in Threads, calls[t] # <<>>, Pop(t),
           UNCHANGED <<registry, ipcTables, writer, waiting, reg>>,
           readers' \in [Threads -> Nat]
    PROVE  TypeInv'
<1>1. calls' \in [Threads -> Seq(Call)]
  BY PopType DEF TypeInv, Pop
<1>2. ctx' \in [Threads -> Ctx \cup {NoCtx}]
  BY DEF TypeInv, TypeOK, Pop
<1>. QED
  BY <1>1, <1>2 DEF TypeInv, TypeOK, registry, ipcTables

\* A new module in REGISTRY.
LEMMA AddToRegistryType ==
    ASSUME TypeOK, NEW m \in Modules, NEW kind \in Kinds, NEW entries \in Seq(Functions),
           AddToRegistry(m, kind, entries)
    PROVE  /\ modules' \in Seq(Module)
           /\ Len(modules) \in Nat
           /\ Len(modules') = Len(modules) + 1
           /\ modules'[Len(modules) + 1] = [name |-> m, kind |-> kind, entries |-> entries]
           /\ \A i \in 1 .. Len(modules) : modules'[i] = modules[i]
           /\ moduleIndex' = [moduleIndex EXCEPT ![m] = Len(modules) + 1]
           /\ moduleIndex' \in [Modules -> 0 .. Len(modules')]
<1>1. [name |-> m, kind |-> kind, entries |-> entries] \in Module
  BY DEF Module
<1>2. /\ modules' = Append(modules, [name |-> m, kind |-> kind, entries |-> entries])
      /\ moduleIndex' = [moduleIndex EXCEPT ![m] = Len(modules) + 1]
  BY DEF AddToRegistry, AddsToRegistry
<1>3. modules \in Seq(Module) /\ moduleIndex \in [Modules -> 0 .. Len(modules)]
  BY DEF TypeOK
<1>4. /\ modules' \in Seq(Module)
      /\ Len(modules) \in Nat
      /\ Len(modules') = Len(modules) + 1
      /\ modules'[Len(modules) + 1] = [name |-> m, kind |-> kind, entries |-> entries]
      /\ \A i \in 1 .. Len(modules) : modules'[i] = modules[i]
  BY <1>1, <1>2, <1>3
<1>5. moduleIndex' \in [Modules -> 0 .. Len(modules')]
  BY <1>2, <1>3, <1>4
<1>. QED
  BY <1>2, <1>4, <1>5

\* The metas a registration pushes.
NewMetas(t, sock) == [i \in 1 .. Len(reg[t].entries) |->
    [module |-> reg[t].module, function |-> reg[t].entries[i], sock |-> sock]]

\* The number the next socket gets.
NextSocket == Len(modules) + 1

\* The table after a registration has pushed its metas.
LEMMA PushExportsType ==
    ASSUME TypeOK, NEW t \in Threads, PushExports(t)
    PROVE  /\ ipcExports' \in Seq(Meta)
           /\ Len(ipcExports) \in Nat
           /\ Len(reg[t].entries) \in Nat
           /\ Len(ipcExports') = Len(ipcExports) + Len(reg[t].entries)
           /\ \A i \in 1 .. Len(ipcExports) : ipcExports'[i] = ipcExports[i]
           /\ \A i \in 1 .. Len(reg[t].entries) : ipcExports'[Len(ipcExports) + i] =
                  [module |-> reg[t].module, function |-> reg[t].entries[i], sock |-> NextSocket]
           /\ reg'[t].pc = "register" /\ reg'[t].module = reg[t].module
           /\ reg'[t].entries = reg[t].entries
           /\ reg'[t].base = Len(ipcExports) /\ reg'[t].sock = NextSocket
           /\ \A u \in Threads \ {t} : reg'[u] = reg[u]
           /\ reg' \in [Threads -> Reg]
           /\ NextSocket \in Nat \ {0}
<1>1. /\ ipcExports' = ipcExports \o NewMetas(t, NextSocket)
      /\ reg' = [reg EXCEPT ![t].pc = "register", ![t].base = Len(ipcExports), ![t].sock = NextSocket]
  BY DEF PushExports, NewMetas, NextSocket
<1>2. /\ reg[t] \in Reg /\ reg \in [Threads -> Reg]
      /\ ipcExports \in Seq(Meta)
  BY DEF TypeOK
<1>3. NextSocket \in Nat \ {0}
  BY DEF TypeOK, NextSocket
<1>4. NewMetas(t, NextSocket) \in Seq(Meta) /\ Len(NewMetas(t, NextSocket)) = Len(reg[t].entries)
  <2>1. reg[t].entries \in Seq(Functions) /\ reg[t].module \in Modules
    BY <1>2 DEF Reg
  <2>2. \A i \in 1 .. Len(reg[t].entries) :
            [module |-> reg[t].module, function |-> reg[t].entries[i], sock |-> NextSocket] \in Meta
    BY <1>3, <2>1 DEF Meta
  <2>. QED
    BY <2>1, <2>2 DEF NewMetas
<1>5. /\ ipcExports' \in Seq(Meta)
      /\ Len(ipcExports') = Len(ipcExports) + Len(reg[t].entries)
      /\ \A i \in 1 .. Len(ipcExports) : ipcExports'[i] = ipcExports[i]
      /\ \A i \in 1 .. Len(reg[t].entries) :
             ipcExports'[Len(ipcExports) + i] = NewMetas(t, NextSocket)[i]
  <2>. DEFINE r == NewMetas(t, NextSocket)
  <2>. HIDE DEF r
  <2>1. r \in Seq(Meta) /\ Len(r) = Len(reg[t].entries) /\ ipcExports' = ipcExports \o r
    BY <1>1, <1>4 DEF r
  <2>2. /\ ipcExports \o r \in Seq(Meta)
        /\ Len(ipcExports \o r) = Len(ipcExports) + Len(r)
        /\ \A i \in 1 .. Len(ipcExports) + Len(r) : (ipcExports \o r)[i] =
               IF i <= Len(ipcExports) THEN ipcExports[i] ELSE r[i - Len(ipcExports)]
    BY <1>2, <2>1, ConcatProperties
  <2>3. Len(ipcExports) \in Nat /\ Len(r) \in Nat
    BY <1>2, <2>1
  <2>4. ASSUME NEW i \in 1 .. Len(ipcExports)
        PROVE  ipcExports'[i] = ipcExports[i]
    BY <2>1, <2>2, <2>3
  <2>5. ASSUME NEW i \in 1 .. Len(r)
        PROVE  ipcExports'[Len(ipcExports) + i] = r[i]
    <3>1. /\ Len(ipcExports) + i \in 1 .. Len(ipcExports) + Len(r)
          /\ ~(Len(ipcExports) + i <= Len(ipcExports))
          /\ Len(ipcExports) + i - Len(ipcExports) = i
      BY <2>3
    <3>. QED
      BY <2>1, <2>2, <3>1
  <2>. QED
    BY <2>1, <2>2, <2>4, <2>5 DEF r
<1>6. \A i \in 1 .. Len(reg[t].entries) : NewMetas(t, NextSocket)[i] =
          [module |-> reg[t].module, function |-> reg[t].entries[i], sock |-> NextSocket]
  BY DEF NewMetas
<1>7. Len(ipcExports) \in Nat /\ Len(reg[t].entries) \in Nat
  BY <1>2 DEF Reg
<1>8. /\ reg'[t].pc = "register" /\ reg'[t].module = reg[t].module
      /\ reg'[t].entries = reg[t].entries
      /\ reg'[t].base = Len(ipcExports) /\ reg'[t].sock = NextSocket
      /\ \A u \in Threads \ {t} : reg'[u] = reg[u]
      /\ reg' \in [Threads -> Reg]
  BY <1>1, <1>2, <1>3, <1>7 DEF Reg, RegPcs
<1>. QED
  BY <1>3, <1>5, <1>6, <1>7, <1>8

\* A registration begins.
LEMMA StartProcessType ==
    ASSUME TypeOK, NEW t \in Threads, NEW m \in Modules, NEW entries \in ExportLists[m],
           StartProcess(t, m, entries)
    PROVE  /\ reg' \in [Threads -> Reg]
           /\ reg'[t].pc = "lock" /\ reg'[t].module = m /\ reg'[t].entries = entries
           /\ reg'[t].base = 0 /\ reg'[t].sock = 0
           /\ \A u \in Threads \ {t} : reg'[u] = reg[u]
<1>1. entries \in Seq(Functions)
  BY IpcDispatchAssumption
<1>2. reg \in [Threads -> Reg]
  BY DEF TypeOK
<1>. QED
  BY <1>1, <1>2 DEF StartProcess, Reg, RegPcs

\* A registration is done with REGISTRY.
LEMMA RegisterProcessType ==
    ASSUME TypeOK, NEW t \in Threads, RegisterProcess(t)
    PROVE  /\ reg[t].module \in Modules /\ reg[t].entries \in Seq(Functions)
           /\ reg' \in [Threads -> Reg]
           /\ reg'[t].pc = "publish" /\ reg'[t].module = reg[t].module
           /\ reg'[t].entries = reg[t].entries
           /\ reg'[t].base = reg[t].base /\ reg'[t].sock = reg[t].sock
           /\ \A u \in Threads \ {t} : reg'[u] = reg[u]
<1>1. reg \in [Threads -> Reg] /\ reg' = [reg EXCEPT ![t].pc = "publish"]
  BY DEF TypeOK, RegisterProcess
<1>. QED
  BY <1>1 DEF Reg, RegPcs

\* A new dispatch.
LEMMA BeginCallType ==
    ASSUME NEW m \in Modules, NEW f \in Functions
    PROVE  [pc |-> "socket", module |-> m, function |-> f, sock |-> 0, entry |-> 0,
            kind |-> "artifact", sent |-> [idx |-> 0, sock |-> 0]] \in Call
  BY DEF Call, CallPcs, Kinds, Ctx

\* What FindExport has found, when it finds something.
LEMMA FindExportType ==
    ASSUME TypeOK, NEW t \in Threads, FindExport(t)
    PROVE  LET c == Top(t)
               m == modules[moduleIndex[c.module]]
               d == [c EXCEPT !.pc = IF c.sock # 0 THEN "base" ELSE "wrapper",
                              !.entry = EntryIndex(m.entries, c.function), !.kind = m.kind]
           IN  /\ calls[t] # <<>>
               /\ moduleIndex[c.module] \in 1 .. Len(modules)
               /\ m \in Module
               /\ d \in Call
               /\ calls' = WithTop(t, d)
               /\ d.entry < Len(m.entries) /\ m.entries[d.entry + 1] = c.function
<1>. DEFINE c == Top(t)
            m == modules[moduleIndex[c.module]]
            d == [c EXCEPT !.pc = IF c.sock # 0 THEN "base" ELSE "wrapper",
                           !.entry = EntryIndex(m.entries, c.function), !.kind = m.kind]
<1>1. /\ calls[t] # <<>> /\ moduleIndex[c.module] # 0 /\ c.function \in ToSet(m.entries)
      /\ calls' = WithTop(t, d)
  BY DEF FindExport, At
<1>2. c \in Call
  BY <1>1, TopType
<1>3. c.module \in Modules
  BY <1>2 DEF Call
<1>4. moduleIndex[c.module] \in 1 .. Len(modules) /\ m \in Module
  BY <1>1, <1>3 DEF TypeOK
<1>5. m.entries \in Seq(Functions) /\ m.kind \in Kinds
  BY <1>4 DEF Module
<1>6. /\ EntryIndex(m.entries, c.function) \in Nat
      /\ EntryIndex(m.entries, c.function) < Len(m.entries)
      /\ m.entries[EntryIndex(m.entries, c.function) + 1] = c.function
  BY <1>1, <1>5, EntryIndexType
<1>. HIDE DEF c, m
<1>7. d \in Call /\ d.entry = EntryIndex(m.entries, c.function)
  BY <1>2, <1>5, <1>6 DEF Call, CallPcs
<1>. QED
  BY <1>1, <1>4, <1>6, <1>7 DEF c, m

\* The new top of each of the other steps of a dispatch.
LEMMA NewTopType ==
    ASSUME TypeOK, NEW t \in Threads, calls[t] # <<>>
    PROVE  /\ [Top(t) EXCEPT !.pc = "find", !.sock = moduleSockets[Top(t).module]] \in Call
           /\ [Top(t) EXCEPT !.pc = "wrapper"] \in Call
           /\ [Top(t) EXCEPT !.pc = "artifact"] \in Call
           /\ ctx[t] # NoCtx => [Top(t) EXCEPT !.pc = "roundtrip", !.sent = ctx[t]] \in Call
<1>1. Top(t) \in Call
  BY TopType
<1>2. moduleSockets[Top(t).module] \in Nat /\ ctx[t] \in Ctx \cup {NoCtx}
  BY <1>1 DEF TypeOK, Call
<1>. QED
  BY <1>1, <1>2 DEF Call, CallPcs

\* The initial state is well-typed.
LEMMA InitTypes == Init => TypeInv
<1>. SUFFICES ASSUME Init PROVE TypeInv
  OBVIOUS
<1>1. reg \in [Threads -> Reg] /\ \A t \in Threads : reg[t].base = 0
  BY IdleRegType DEF Init, IdleReg
<1>2. Len(modules) = 0 /\ Len(ipcExports) = 0
  BY DEF Init
<1>. QED
  BY <1>1, <1>2 DEF Init, TypeInv, TypeOK

\* Every step keeps the types.  That a guard that is dropped was held is part
\* of the discipline of the lock.
LEMMA TypeStep ==
    ASSUME TypeInv, LockDiscipline, [Next]_vars
    PROVE  TypeInv'
<1>. USE DEF TypeInv
<1>1. ASSUME NEW t \in Threads, NEW m \in Modules, NEW entries \in ExportLists[m],
             RegisterArtifact(t, m, entries)
      PROVE  TypeInv'
  <2>1. entries \in Seq(Functions) /\ "artifact" \in Kinds
    BY IpcDispatchAssumption DEF Kinds
  <2>2. AddToRegistry(m, "artifact", entries) /\ UNCHANGED <<ipcTables, lock, ctx, calls, reg>>
    BY <1>1 DEF RegisterArtifact
  <2>. QED
    BY <2>1, <2>2, AddToRegistryType DEF TypeOK, ipcTables, lock
<1>2. ASSUME NEW t \in Threads, NEW m \in Modules, NEW entries \in ExportLists[m],
             StartProcess(t, m, entries)
      PROVE  TypeInv'
  <2>1. /\ reg' \in [Threads -> Reg]
        /\ reg'[t].base = 0
        /\ \A u \in Threads \ {t} : reg'[u].base = reg[u].base
    BY <1>2, StartProcessType
  <2>2. waiting' = waiting \cup {t} /\ UNCHANGED <<registry, ipcTables, readers, writer, ctx, calls>>
    BY <1>2 DEF StartProcess
  <2>3. \A u \in Threads : reg'[u].base <= Len(ipcExports')
    <3>1. Len(ipcExports) \in Nat /\ ipcExports' = ipcExports
      BY <2>2 DEF TypeOK, ipcTables
    <3>. QED
      BY <2>1, <3>1
  <2>. QED
    BY <2>1, <2>2, <2>3 DEF TypeOK, registry, ipcTables
<1>3. ASSUME NEW t \in Threads, PushExports(t)
      PROVE  TypeInv'
  <2>1. /\ ipcExports' \in Seq(Meta) /\ reg' \in [Threads -> Reg]
        /\ Len(ipcExports) \in Nat /\ Len(ipcExports') \in Nat
        /\ Len(ipcExports) <= Len(ipcExports')
        /\ reg'[t].base = Len(ipcExports)
        /\ \A u \in Threads \ {t} : reg'[u].base = reg[u].base
    BY <1>3, PushExportsType
  <2>2. \A u \in Threads : reg'[u].base <= Len(ipcExports')
    <3>1. \A u \in Threads : reg[u].base \in Nat /\ reg[u].base <= Len(ipcExports)
      BY DEF TypeOK, Reg
    <3>. QED
      BY <2>1, <3>1
  <2>3. /\ UNCHANGED <<registry, moduleSockets, moduleBase, readers, ctx, calls>>
        /\ writer' = t /\ waiting' = waiting \ {t}
    BY <1>3 DEF PushExports
  <2>4. moduleBase' \in [Modules -> 0 .. Len(ipcExports')]
    BY <2>1, <2>3 DEF TypeOK
  <2>. QED
    BY <2>1, <2>2, <2>3, <2>4 DEF TypeOK, registry
<1>4. ASSUME NEW t \in Threads, RegisterProcess(t)
      PROVE  TypeInv'
  <2>1. /\ reg' \in [Threads -> Reg]
        /\ \A u \in Threads : reg'[u].base = reg[u].base
        /\ reg[t].module \in Modules /\ reg[t].entries \in Seq(Functions) /\ "process" \in Kinds
    BY <1>4, RegisterProcessType DEF Kinds
  <2>2. /\ AddToRegistry(reg[t].module, "process", reg[t].entries)
        /\ UNCHANGED <<ipcTables, lock, ctx, calls>>
    BY <1>4 DEF RegisterProcess
  <2>. QED
    BY <2>1, <2>2, AddToRegistryType DEF TypeOK, ipcTables, lock
<1>5. ASSUME NEW t \in Threads, PublishSocket(t)
      PROVE  TypeInv'
  <2>1. reg[t] \in Reg /\ reg[t].base \in 0 .. Len(ipcExports)
    BY DEF TypeOK, Reg
  <2>2. /\ moduleSockets' = [moduleSockets EXCEPT ![reg[t].module] = reg[t].sock]
        /\ moduleBase' = [moduleBase EXCEPT ![reg[t].module] = reg[t].base]
        /\ writer' = NoThread /\ reg' = [reg EXCEPT ![t] = IdleReg]
        /\ UNCHANGED <<registry, ipcExports, readers, waiting, ctx, calls>>
    BY <1>5 DEF PublishSocket, Publishes
  <2>3. IdleReg.base = 0 /\ Len(ipcExports) \in Nat
    BY DEF IdleReg, TypeOK
  <2>4. /\ reg' \in [Threads -> Reg]
        /\ \A u \in Threads : reg'[u].base <= Len(ipcExports)
    BY <2>2, <2>3, IdleRegType DEF TypeOK
  <2>. QED
    BY <2>1, <2>2, <2>4 DEF TypeOK, registry, Reg
<1>6. ASSUME NEW t \in Threads, NEW m \in Modules, NEW f \in Functions, BeginCall(t, m, f)
      PROVE  TypeInv'
  <2>1. calls' \in [Threads -> Seq(Call)]
    BY <1>6, BeginCallType, PushType DEF BeginCall
  <2>. QED
    BY <1>6, <2>1 DEF BeginCall, TypeOK, registry, ipcTables, lock
<1>7. ASSUME NEW t \in Threads, LookupSocket(t)
      PROVE  TypeInv'
  BY <1>7, NewTopType, WithTopKeepsTypes DEF LookupSocket, At, lock, TypeOK
<1>8. ASSUME NEW t \in Threads, FindExport(t)
      PROVE  TypeInv'
  <2>1. \E d \in Call : calls' = WithTop(t, d)
    BY <1>8, FindExportType
  <2>2. calls[t] # <<>>
    BY <1>8 DEF FindExport, At
  <2>. QED
    BY <1>8, <2>1, <2>2, WithTopKeepsTypes DEF FindExport, lock, TypeOK
<1>9. ASSUME NEW t \in Threads, NotFound(t)
      PROVE  TypeInv'
  <2>1. calls' \in [Threads -> Seq(Call)]
    BY <1>9, PopType DEF NotFound, FindsNothing, At
  <2>. QED
    BY <1>9, <2>1 DEF NotFound, FindsNothing, TypeOK, registry, ipcTables, lock
<1>10. ASSUME NEW t \in Threads, SetContext(t)
       PROVE  TypeInv'
  <2>1. calls[t] # <<>> /\ Top(t) \in Call
    BY <1>10, TopType DEF SetContext, At
  <2>2. [idx |-> moduleBase[Top(t).module] + Top(t).entry, sock |-> Top(t).sock] \in Ctx
    <3>1. Top(t).module \in Modules /\ Top(t).entry \in Nat /\ Top(t).sock \in Nat
      BY <2>1 DEF Call
    <3>2. moduleBase[Top(t).module] \in Nat
      BY <3>1 DEF TypeOK
    <3>. QED
      BY <3>1, <3>2 DEF Ctx
  <2>. QED
    BY <1>10, <2>1, <2>2, NewTopType, WithTopKeepsTypes DEF SetContext, lock, TypeOK
<1>11. ASSUME NEW t \in Threads, EnterArtifact(t)
       PROVE  TypeInv'
  BY <1>11, NewTopType, WithTopKeepsTypes DEF EnterArtifact, At, lock, TypeOK
<1>12. ASSUME NEW t \in Threads, WrapperFails(t)
       PROVE  TypeInv'
  BY <1>12, PopKeepsTypes DEF WrapperFails, At, lock, TypeOK
<1>13. ASSUME NEW t \in Threads, EnterRoundtrip(t)
       PROVE  TypeInv'
  <2>1. readers' \in [Threads -> Nat]
    BY <1>13 DEF EnterRoundtrip, EntersRoundtrip, TypeOK
  <2>. QED
    BY <1>13, <2>1, NewTopType, WithTopKeepsTypes DEF EnterRoundtrip, EntersRoundtrip, At, TypeOK
<1>14. ASSUME NEW t \in Threads, ReturnArtifact(t)
       PROVE  TypeInv'
  BY <1>14, PopKeepsTypes DEF ReturnArtifact, At, lock, TypeOK
<1>15. ASSUME NEW t \in Threads, ReturnRoundtrip(t)
       PROVE  TypeInv'
  <2>a. calls[t] # <<>> /\ Top(t).pc = "roundtrip"
    BY <1>15 DEF ReturnRoundtrip, ReturnsRoundtrip, At
  <2>b. Len(calls[t]) \in 1 .. Len(calls[t]) /\ Top(t) = calls[t][Len(calls[t])]
    BY <2>a, TopType
  <2>1. readers[t] \in Nat \ {0}
    BY <2>a, <2>b, GuardHeld DEF TypeOK
  <2>2. readers' \in [Threads -> Nat]
    BY <1>15, <2>1 DEF ReturnRoundtrip, ReturnsRoundtrip, TypeOK
  <2>. QED
    BY <1>15, <2>2, PopKeepsTypes DEF ReturnRoundtrip, ReturnsRoundtrip, At
<1>16. CASE UNCHANGED vars
  BY <1>16 DEF vars, TypeOK, registry, ipcTables, lock
<1>. QED
  BY <1>1, <1>2, <1>3, <1>4, <1>5, <1>6, <1>7, <1>8, <1>9, <1>10, <1>11, <1>12, <1>13, <1>14,
     <1>15, <1>16 DEF Next, RegistrationStep, DispatchStep, Return

(* ------------------------------- the lock --------------------------------- *)

\* A step of a dispatch leaves the writer, the waiting threads and the
\* registrations alone, and changes the calls and guards of its thread only.
LEMMA LockKept ==
    ASSUME LockDiscipline, NEW t \in Threads,
           UNCHANGED <<writer, waiting, reg>>,
           \A u \in Threads \ {t} : calls'[u] = calls[u] /\ readers'[u] = readers[u],
           readers'[t] = Cardinality(RoundTrips(calls'[t])),
           writer # NoThread => readers'[t] = 0
    PROVE  LockDiscipline'
<1>. SUFFICES ASSUME NEW u \in Threads
              PROVE  /\ readers'[u] = Cardinality(RoundTrips(calls'[u]))
                     /\ writer' = u <=> reg'[u].pc \in {"register", "publish"}
                     /\ writer' # NoThread => readers'[u] = 0
                     /\ u \in waiting' <=> reg'[u].pc = "lock"
  BY DEF LockDiscipline, RoundTrips
<1>1. /\ readers[u] = Cardinality(RoundTrips(calls[u]))
      /\ writer = u <=> reg[u].pc \in {"register", "publish"}
      /\ writer # NoThread => readers[u] = 0
      /\ u \in waiting <=> reg[u].pc = "lock"
  BY DEF LockDiscipline, RoundTrips
<1>. QED
  BY <1>1

\* A step of a registration changes neither the calls nor the guards.
LEMMA RegistrationKeepsGuards ==
    ASSUME LockDiscipline, UNCHANGED <<calls, readers>>,
           \A u \in Threads :
               /\ writer' = u <=> reg'[u].pc \in {"register", "publish"}
               /\ writer' # NoThread => readers[u] = 0
               /\ u \in waiting' <=> reg'[u].pc = "lock"
    PROVE  LockDiscipline'
  BY DEF LockDiscipline

\* Every step keeps the discipline of the lock.
LEMMA LockStep ==
    ASSUME TypeInv, LockDiscipline, [Next]_vars
    PROVE  LockDiscipline'
<1>. USE DEF TypeInv
<1>a. \A u \in Threads :
          /\ writer = u <=> reg[u].pc \in {"register", "publish"}
          /\ writer # NoThread => readers[u] = 0
          /\ u \in waiting <=> reg[u].pc = "lock"
          /\ readers[u] = Cardinality(RoundTrips(calls[u]))
          /\ calls[u] \in Seq(Call)
          /\ readers[u] \in Nat
  BY DEF LockDiscipline, RoundTrips, TypeOK
<1>b. NoThread \notin Threads /\ readers \in [Threads -> Nat] /\ waiting \subseteq Threads
  BY IpcDispatchAssumption DEF TypeOK
<1>1. ASSUME NEW t \in Threads, NEW m \in Modules, NEW entries \in ExportLists[m],
             RegisterArtifact(t, m, entries)
      PROVE  LockDiscipline'
  BY <1>1 DEF RegisterArtifact, lock, LockDiscipline
<1>2. ASSUME NEW t \in Threads, NEW m \in Modules, NEW entries \in ExportLists[m],
             StartProcess(t, m, entries)
      PROVE  LockDiscipline'
  <2>1. reg[t].pc = "idle" /\ reg'[t].pc = "lock" /\ \A u \in Threads \ {t} : reg'[u] = reg[u]
    BY <1>2, StartProcessType DEF StartProcess, MayRegister
  <2>2. waiting' = waiting \cup {t} /\ UNCHANGED <<calls, readers, writer>>
    BY <1>2 DEF StartProcess
  <2>. QED
    BY <1>a, <2>1, <2>2, RegistrationKeepsGuards
<1>3. ASSUME NEW t \in Threads, PushExports(t)
      PROVE  LockDiscipline'
  <2>1. reg[t].pc = "lock" /\ reg'[t].pc = "register" /\ \A u \in Threads \ {t} : reg'[u] = reg[u]
    BY <1>3, PushExportsType DEF PushExports
  <2>2. /\ waiting' = waiting \ {t} /\ writer = NoThread /\ writer' = t
        /\ UNCHANGED <<calls, readers>> /\ \A u \in Threads : readers[u] = 0
    BY <1>3 DEF PushExports, CanWrite
  <2>. QED
    BY <1>a, <1>b, <2>1, <2>2, RegistrationKeepsGuards
<1>4. ASSUME NEW t \in Threads, RegisterProcess(t)
      PROVE  LockDiscipline'
  <2>1. reg[t].pc = "register" /\ reg'[t].pc = "publish" /\ \A u \in Threads \ {t} : reg'[u] = reg[u]
    BY <1>4, RegisterProcessType DEF RegisterProcess
  <2>2. UNCHANGED <<calls, readers, writer, waiting>>
    BY <1>4 DEF RegisterProcess, lock
  <2>. QED
    BY <1>a, <2>1, <2>2, RegistrationKeepsGuards
<1>5. ASSUME NEW t \in Threads, PublishSocket(t)
      PROVE  LockDiscipline'
  <2>1. reg[t].pc = "publish" /\ reg'[t].pc = "idle" /\ \A u \in Threads \ {t} : reg'[u] = reg[u]
    BY <1>5 DEF PublishSocket, Publishes, IdleReg, TypeOK
  <2>2. UNCHANGED <<calls, readers, waiting>> /\ writer = t /\ writer' = NoThread
    BY <1>5, <1>a DEF PublishSocket, Publishes
  <2>. QED
    BY <1>a, <1>b, <2>1, <2>2, RegistrationKeepsGuards
<1>6. ASSUME NEW t \in Threads, NEW m \in Modules, NEW f \in Functions, BeginCall(t, m, f)
      PROVE  LockDiscipline'
  <2>. DEFINE c == [pc |-> "socket", module |-> m, function |-> f, sock |-> 0, entry |-> 0,
                    kind |-> "artifact", sent |-> [idx |-> 0, sock |-> 0]]
  <2>1. c \in Call /\ c.pc # "roundtrip"
    BY BeginCallType
  <2>2. /\ calls' = [calls EXCEPT ![t] = Append(@, c)]
        /\ UNCHANGED <<readers, writer, waiting, reg>>
    BY <1>6 DEF BeginCall, lock
  <2>. HIDE DEF c
  <2>3. /\ calls' \in [Threads -> Seq(Call)]
        /\ Len(calls'[t]) = Len(calls[t]) + 1 /\ calls'[t][Len(calls[t]) + 1] = c
        /\ \A i \in 1 .. Len(calls[t]) : calls'[t][i] = calls[t][i]
        /\ \A u \in Threads \ {t} : calls'[u] = calls[u]
    BY <2>1, <2>2, PushType
  <2>4. RoundTrips(calls'[t]) = RoundTrips(calls[t])
    BY <1>a, <2>1, <2>3, RoundTripsPush
  <2>. QED
    BY <1>a, <2>2, <2>3, <2>4, LockKept
<1>7. ASSUME NEW t \in Threads, calls[t] # <<>>, Top(t).pc # "roundtrip", NEW c \in Call,
             calls' = WithTop(t, c), UNCHANGED <<writer, waiting, reg>>,
             readers' = [readers EXCEPT ![t] = @ + (IF c.pc = "roundtrip" THEN 1 ELSE 0)],
             c.pc = "roundtrip" => writer = NoThread
      PROVE  LockDiscipline'
  <2>1. /\ calls' \in [Threads -> Seq(Call)]
        /\ Len(calls'[t]) = Len(calls[t]) /\ calls'[t][Len(calls[t])] = c
        /\ \A i \in 1 .. Len(calls[t]) - 1 : calls'[t][i] = calls[t][i]
        /\ \A u \in Threads \ {t} : calls'[u] = calls[u]
    BY <1>7, WithTopType
  <2>2. calls[t][Len(calls[t])].pc # "roundtrip"
    BY <1>7, TopType
  <2>3. Cardinality(RoundTrips(calls'[t])) =
            Cardinality(RoundTrips(calls[t])) + (IF c.pc = "roundtrip" THEN 1 ELSE 0)
    <3>. DEFINE r == calls'[t]
                s == calls[t]
    <3>1. /\ r \in Seq(Call) /\ s \in Seq(Call) /\ s # <<>> /\ Len(r) = Len(s)
          /\ s[Len(s)].pc # "roundtrip" /\ r[Len(s)] = c
          /\ \A i \in 1 .. Len(s) - 1 : r[i] = s[i]
      BY <1>7, <1>a, <2>1, <2>2
    <3>. HIDE DEF r, s
    <3>2. Cardinality(RoundTrips(r)) =
              Cardinality(RoundTrips(s)) + (IF r[Len(s)].pc = "roundtrip" THEN 1 ELSE 0)
      BY <3>1, RoundTripsTop
    <3>. QED
      BY <3>1, <3>2 DEF r, s
  <2>4. readers'[t] = Cardinality(RoundTrips(calls'[t]))
    BY <1>7, <1>a, <1>b, <2>3
  <2>5. \A u \in Threads \ {t} : readers'[u] = readers[u]
    BY <1>7, <1>b
  <2>6. writer # NoThread => readers'[t] = 0
    BY <1>7, <1>a, <1>b
  <2>. QED
    BY <1>7, <2>1, <2>4, <2>5, <2>6, LockKept
<1>8. ASSUME NEW t \in Threads, calls[t] # <<>>, calls' = [calls EXCEPT ![t] = Front(@)],
             UNCHANGED <<writer, waiting, reg>>,
             readers' = [readers EXCEPT ![t] = @ - (IF Top(t).pc = "roundtrip" THEN 1 ELSE 0)]
      PROVE  LockDiscipline'
  <2>1. /\ calls' \in [Threads -> Seq(Call)]
        /\ Len(calls'[t]) = Len(calls[t]) - 1
        /\ \A i \in 1 .. Len(calls[t]) - 1 : calls'[t][i] = calls[t][i]
        /\ \A u \in Threads \ {t} : calls'[u] = calls[u]
    BY <1>8, PopType
  <2>2. Top(t) = calls[t][Len(calls[t])] /\ Len(calls[t]) \in 1 .. Len(calls[t])
    BY <1>8, TopType
  <2>3. Cardinality(RoundTrips(calls'[t])) =
            Cardinality(RoundTrips(calls[t])) - (IF Top(t).pc = "roundtrip" THEN 1 ELSE 0)
    BY <1>8, <1>a, <2>1, <2>2, RoundTripsPop
  <2>4. readers'[t] = Cardinality(RoundTrips(calls'[t]))
    BY <1>8, <1>a, <1>b, <2>3
  <2>5. \A u \in Threads \ {t} : readers'[u] = readers[u]
    BY <1>8, <1>b
  <2>6. Top(t).pc = "roundtrip" => readers[t] # 0
    BY <2>2, GuardHeld
  <2>7. writer # NoThread => readers'[t] = 0
    BY <1>8, <1>a, <1>b, <2>6
  <2>. QED
    BY <1>8, <2>1, <2>4, <2>5, <2>7, LockKept
<1>9. ASSUME NEW t \in Threads, \/ LookupSocket(t) \/ FindExport(t) \/ SetContext(t)
                                \/ EnterArtifact(t) \/ EnterRoundtrip(t)
      PROVE  LockDiscipline'
  <2>. DEFINE plus(c) == readers' = [readers EXCEPT ![t] = @ + (IF c.pc = "roundtrip" THEN 1 ELSE 0)]
  <2>1. calls[t] # <<>> /\ Top(t).pc # "roundtrip" /\ UNCHANGED <<writer, waiting, reg>>
    BY <1>9 DEF LookupSocket, FindExport, SetContext, EnterArtifact, EnterRoundtrip,
                EntersRoundtrip, At, lock
  <2>2. readers = [readers EXCEPT ![t] = @ + 0]
    BY <1>a, <1>b
  <2>3. CASE LookupSocket(t)
    <3>1. /\ calls' = WithTop(t, [Top(t) EXCEPT !.pc = "find", !.sock = moduleSockets[Top(t).module]])
          /\ readers' = readers
      BY <2>3 DEF LookupSocket, lock
    <3>. QED
      BY <1>7, <2>1, <2>2, <3>1, NewTopType, TopType DEF Call
  <2>4. CASE FindExport(t)
    <3>1. readers' = readers
      BY <2>4 DEF FindExport, lock
    <3>2. \E d \in Call : calls' = WithTop(t, d) /\ d.pc # "roundtrip"
      <4>. DEFINE c == Top(t)
                  m == modules[moduleIndex[c.module]]
                  d == [c EXCEPT !.pc = IF c.sock # 0 THEN "base" ELSE "wrapper",
                                 !.entry = EntryIndex(m.entries, c.function), !.kind = m.kind]
      <4>1. d \in Call /\ calls' = WithTop(t, d)
        BY <2>4, FindExportType
      <4>2. c \in Call
        BY <2>1, TopType
      <4>. HIDE DEF c, m
      <4>3. d.pc # "roundtrip"
        BY <4>2 DEF Call
      <4>. HIDE DEF d
      <4>. QED
        BY <4>1, <4>3
    <3>. QED
      BY <1>7, <2>1, <2>2, <3>1, <3>2
  <2>5. CASE SetContext(t)
    <3>1. calls' = WithTop(t, [Top(t) EXCEPT !.pc = "wrapper"]) /\ readers' = readers
      BY <2>5 DEF SetContext, lock
    <3>. QED
      BY <1>7, <2>1, <2>2, <3>1, NewTopType, TopType DEF Call
  <2>6. CASE EnterArtifact(t)
    <3>1. calls' = WithTop(t, [Top(t) EXCEPT !.pc = "artifact"]) /\ readers' = readers
      BY <2>6 DEF EnterArtifact, lock
    <3>. QED
      BY <1>7, <2>1, <2>2, <3>1, NewTopType, TopType DEF Call
  <2>7. CASE EnterRoundtrip(t)
    <3>1. /\ calls' = WithTop(t, [Top(t) EXCEPT !.pc = "roundtrip", !.sent = ctx[t]])
          /\ readers' = [readers EXCEPT ![t] = @ + 1]
          /\ writer = NoThread /\ ctx[t] # NoCtx
      BY <2>7 DEF EnterRoundtrip, EntersRoundtrip, CanRead
    <3>. QED
      BY <1>7, <2>1, <3>1, NewTopType, TopType DEF Call
  <2>. QED
    BY <1>9, <2>3, <2>4, <2>5, <2>6, <2>7
<1>10. ASSUME NEW t \in Threads, \/ NotFound(t) \/ WrapperFails(t)
                                 \/ ReturnArtifact(t) \/ ReturnRoundtrip(t)
       PROVE  LockDiscipline'
  <2>1. /\ calls[t] # <<>> /\ calls' = [calls EXCEPT ![t] = Front(@)]
        /\ UNCHANGED <<writer, waiting, reg>>
    BY <1>10 DEF NotFound, FindsNothing, WrapperFails, ReturnArtifact, ReturnRoundtrip,
                 ReturnsRoundtrip, Pop, At, lock
  <2>2. readers = [readers EXCEPT ![t] = @ - 0]
    BY <1>a, <1>b
  <2>3. readers' = [readers EXCEPT ![t] = @ - (IF Top(t).pc = "roundtrip" THEN 1 ELSE 0)]
    BY <1>10, <2>2 DEF NotFound, FindsNothing, WrapperFails, ReturnArtifact, ReturnRoundtrip,
                 ReturnsRoundtrip, At, lock
  <2>. QED
    BY <1>8, <2>1, <2>3
<1>11. CASE UNCHANGED vars
  BY <1>11 DEF vars, lock, LockDiscipline
<1>. QED
  BY <1>1, <1>2, <1>3, <1>4, <1>5, <1>6, <1>9, <1>10, <1>11
     DEF Next, RegistrationStep, DispatchStep, Return

\* The types and the discipline of the lock hold together: a guard is only
\* dropped where it is held.
LEMMA TypedAndLocked == Spec => [](TypeInv /\ LockDiscipline)
<1>1. Init => TypeInv /\ LockDiscipline
  <2>1. ASSUME Init
        PROVE  LockDiscipline
    <3>1. \A t \in Threads : RoundTrips(calls[t]) = {} /\ readers[t] = 0
      BY <2>1 DEF Init, RoundTrips
    <3>2. Cardinality({}) = 0
      BY FS_EmptySet
    <3>3. \A t \in Threads : reg[t].pc = "idle" /\ t \notin waiting /\ writer # t
      BY <2>1, IpcDispatchAssumption DEF Init, IdleReg
    <3>. QED
      BY <3>1, <3>2, <3>3 DEF LockDiscipline, RoundTrips
  <2>. QED
    BY <2>1, InitTypes
<1>2. TypeInv /\ LockDiscipline /\ [Next]_vars => (TypeInv /\ LockDiscipline)'
  BY TypeStep, LockStep
<1>. QED
  BY <1>1, <1>2, PTL DEF Spec

\* Type correctness: every reachable state has the shape of the Rust state.
THEOREM TypeCorrect == Spec => []TypeOK
<1>1. TypeInv => TypeOK
  BY DEF TypeInv
<1>. QED
  BY <1>1, TypedAndLocked, PTL

\* The lock is a lock: a thread holds one read guard of IPC_STATE per round
\* trip it is in, and no round trip is in progress while a registration is
\* between its first and its last change of the tables (runtime.rs 318-395).
THEOREM LockIsKept == Spec => []LockDiscipline
  BY TypedAndLocked, PTL

(* ------------------------- REGISTRY and the sockets ----------------------- *)

\* REGISTRY: what a name is indexed to has that name; a name has wrappers of
\* one kind, and those of a PROCESS have a socket except while the thread that
\* registers it is about to publish it.
RegistryInv ==
    /\ \A m \in Modules :
           /\ moduleIndex[m] # 0 => modules[moduleIndex[m]].name = m
           /\ moduleSockets[m] # 0 => moduleIndex[m] # 0
    /\ \A i \in 1 .. Len(modules) :
           /\ modules[i].entries \in ExportLists[modules[i].name]
           /\ modules[i].kind = "artifact" =>
                  /\ moduleSockets[modules[i].name] = 0
                  /\ \A t \in Threads : reg[t].pc # "idle" => reg[t].module # modules[i].name
           /\ modules[i].kind = "process" =>
                  \/ moduleSockets[modules[i].name] # 0
                  \/ \E t \in Threads : reg[t].pc = "publish" /\ reg[t].module = modules[i].name
    /\ \A t \in Threads :
           /\ reg[t].pc # "idle" => reg[t].entries \in ExportLists[reg[t].module]
           /\ reg[t].pc \in {"register", "publish"} => reg[t].sock # 0
           /\ reg[t].pc = "publish" => moduleIndex[reg[t].module] # 0

\* What a name was registered as.
LEMMA KindsOfNames ==
    ASSUME TypeOK, NEW m \in Modules
    PROVE  /\ \A i \in 1 .. Len(modules) : modules[i].name = m => modules[i].kind \in KindsOf(m)
           /\ \A t \in Threads : reg[t].pc # "idle" /\ reg[t].module = m => "process" \in KindsOf(m)
<1>1. \A i \in 1 .. Len(modules) : modules[i] \in ToSet(modules)
  BY DEF TypeOK, ToSet
<1>. QED
  BY <1>1 DEF KindsOf

\* Every step keeps names, kinds and sockets in agreement.
LEMMA RegistryStep ==
    ASSUME TypeInv, LockDiscipline, RegistryInv, [Next]_vars
    PROVE  RegistryInv'
<1>. USE DEF TypeInv
<1>. DEFINE n == Len(modules)
<1>a. /\ n \in Nat /\ moduleIndex \in [Modules -> 0 .. n] /\ moduleSockets \in [Modules -> Nat]
      /\ \A i \in 1 .. n : modules[i] \in Module
      /\ \A t \in Threads : reg[t] \in Reg
  BY DEF TypeOK
<1>b. \A i \in 1 .. n : modules[i].name \in Modules /\ modules[i].kind \in Kinds
  BY <1>a DEF Module
<1>1. ASSUME NEW t \in Threads, NEW m \in Modules, NEW entries \in ExportLists[m],
             RegisterArtifact(t, m, entries)
      PROVE  RegistryInv'
  <2>1. /\ KindsOf(m) = {}
        /\ AddToRegistry(m, "artifact", entries)
        /\ UNCHANGED <<moduleSockets, reg>>
    BY <1>1 DEF RegisterArtifact, ipcTables
  <2>2. entries \in Seq(Functions) /\ "artifact" \in Kinds
    BY IpcDispatchAssumption DEF Kinds
  <2>3. /\ Len(modules') = n + 1
        /\ modules'[n + 1] = [name |-> m, kind |-> "artifact", entries |-> entries]
        /\ \A i \in 1 .. n : modules'[i] = modules[i]
        /\ moduleIndex' = [moduleIndex EXCEPT ![m] = n + 1]
    BY <2>1, <2>2, AddToRegistryType
  <2>4. /\ \A i \in 1 .. n : modules[i].name # m
        /\ \A u \in Threads : reg[u].pc # "idle" => reg[u].module # m
    BY <2>1, KindsOfNames
  <2>5. moduleSockets[m] = 0
    <3>1. moduleIndex[m] # 0 => moduleIndex[m] \in 1 .. n
      BY <1>a
    <3>. QED
      BY <2>4, <3>1 DEF RegistryInv
  <2>. HIDE DEF n
  <2>6. \A i \in 1 .. n + 1 : i = n + 1 \/ i \in 1 .. n
    BY <1>a
  <2>7. \A l \in Modules : /\ moduleIndex'[l] # 0 => modules'[moduleIndex'[l]].name = l
                           /\ moduleSockets'[l] # 0 => moduleIndex'[l] # 0
    BY <1>a, <2>1, <2>3, <2>5 DEF RegistryInv
  <2>8. \A i \in 1 .. n + 1 :
            /\ modules'[i].entries \in ExportLists[modules'[i].name]
            /\ modules'[i].kind = "artifact" =>
                   /\ moduleSockets'[modules'[i].name] = 0
                   /\ \A u \in Threads : reg'[u].pc # "idle" => reg'[u].module # modules'[i].name
            /\ modules'[i].kind = "process" =>
                   \/ moduleSockets'[modules'[i].name] # 0
                   \/ \E u \in Threads : reg'[u].pc = "publish" /\ reg'[u].module = modules'[i].name
    BY <2>1, <2>3, <2>4, <2>5, <2>6 DEF RegistryInv, n
  <2>9. \A u \in Threads :
           /\ reg'[u].pc # "idle" => reg'[u].entries \in ExportLists[reg'[u].module]
           /\ reg'[u].pc \in {"register", "publish"} => reg'[u].sock # 0
           /\ reg'[u].pc = "publish" => moduleIndex'[reg'[u].module] # 0
    BY <1>a, <2>1, <2>3 DEF RegistryInv, Reg
  <2>. QED
    BY <2>3, <2>7, <2>8, <2>9 DEF RegistryInv
<1>2. ASSUME NEW t \in Threads, NEW m \in Modules, NEW entries \in ExportLists[m],
             StartProcess(t, m, entries)
      PROVE  RegistryInv'
  <2>1. /\ KindsOf(m) \subseteq {"process"} /\ reg[t].pc = "idle"
        /\ UNCHANGED <<modules, moduleIndex, moduleSockets>>
    BY <1>2 DEF StartProcess, MayRegister, registry, ipcTables
  <2>2. /\ reg'[t].pc = "lock" /\ reg'[t].module = m /\ reg'[t].entries = entries
        /\ \A u \in Threads \ {t} : reg'[u] = reg[u]
    BY <1>2, StartProcessType
  <2>3. \A i \in 1 .. n : modules[i].name = m => modules[i].kind # "artifact"
    BY <2>1, KindsOfNames
  <2>. QED
    BY <2>1, <2>2, <2>3 DEF RegistryInv
<1>3. ASSUME NEW t \in Threads, PushExports(t)
      PROVE  RegistryInv'
  <2>1. reg[t].pc = "lock" /\ UNCHANGED <<modules, moduleIndex, moduleSockets>>
    BY <1>3 DEF PushExports, registry
  <2>2. /\ reg'[t].pc = "register" /\ reg'[t].module = reg[t].module
        /\ reg'[t].entries = reg[t].entries /\ reg'[t].sock # 0
        /\ \A u \in Threads \ {t} : reg'[u] = reg[u]
    BY <1>3, PushExportsType
  <2>. QED
    BY <2>1, <2>2 DEF RegistryInv
<1>4. ASSUME NEW t \in Threads, RegisterProcess(t)
      PROVE  RegistryInv'
  <2>. DEFINE m == reg[t].module
  <2>1. /\ reg[t].pc = "register" /\ AddToRegistry(m, "process", reg[t].entries)
        /\ UNCHANGED moduleSockets
    BY <1>4 DEF RegisterProcess, ipcTables
  <2>2. /\ m \in Modules /\ reg[t].entries \in Seq(Functions)
        /\ reg'[t].pc = "publish" /\ reg'[t].module = m /\ reg'[t].entries = reg[t].entries
        /\ reg'[t].sock = reg[t].sock
        /\ \A u \in Threads \ {t} : reg'[u] = reg[u]
    BY <1>4, RegisterProcessType
  <2>3. /\ Len(modules') = n + 1
        /\ modules'[n + 1] = [name |-> m, kind |-> "process", entries |-> reg[t].entries]
        /\ \A i \in 1 .. n : modules'[i] = modules[i]
        /\ moduleIndex' = [moduleIndex EXCEPT ![m] = n + 1]
    BY <2>1, <2>2, AddToRegistryType DEF Kinds
  <2>. HIDE DEF n, m
  <2>4. \A i \in 1 .. n + 1 : i = n + 1 \/ i \in 1 .. n
    BY <1>a
  <2>5. \A l \in Modules : /\ moduleIndex'[l] # 0 => modules'[moduleIndex'[l]].name = l
                           /\ moduleSockets'[l] # 0 => moduleIndex'[l] # 0
    BY <1>a, <2>1, <2>2, <2>3 DEF RegistryInv
  <2>6. \A i \in 1 .. n + 1 :
            /\ modules'[i].entries \in ExportLists[modules'[i].name]
            /\ modules'[i].kind = "artifact" =>
                   /\ moduleSockets'[modules'[i].name] = 0
                   /\ \A u \in Threads : reg'[u].pc # "idle" => reg'[u].module # modules'[i].name
            /\ modules'[i].kind = "process" =>
                   \/ moduleSockets'[modules'[i].name] # 0
                   \/ \E u \in Threads : reg'[u].pc = "publish" /\ reg'[u].module = modules'[i].name
    <3>1. ASSUME NEW i \in 1 .. n
          PROVE  /\ modules[i].entries \in ExportLists[modules[i].name]
                 /\ modules[i].kind = "artifact" =>
                        /\ moduleSockets[modules[i].name] = 0
                        /\ \A u \in Threads : reg'[u].pc # "idle" => reg'[u].module # modules[i].name
                 /\ modules[i].kind = "process" =>
                        \/ moduleSockets[modules[i].name] # 0
                        \/ \E u \in Threads : reg'[u].pc = "publish" /\ reg'[u].module = modules[i].name
      BY <2>1, <2>2 DEF RegistryInv, n, m
    <3>2. reg[t].entries \in ExportLists[m]
      BY <2>1 DEF RegistryInv, m
    <3>. QED
      BY <2>1, <2>2, <2>3, <2>4, <3>1, <3>2
  <2>7. ASSUME NEW u \in Threads
        PROVE  /\ reg'[u].pc # "idle" => reg'[u].entries \in ExportLists[reg'[u].module]
               /\ reg'[u].pc \in {"register", "publish"} => reg'[u].sock # 0
               /\ reg'[u].pc = "publish" => moduleIndex'[reg'[u].module] # 0
    <3>1. /\ reg[u].module \in Modules
          /\ reg[u].pc # "idle" => reg[u].entries \in ExportLists[reg[u].module]
          /\ reg[u].pc \in {"register", "publish"} => reg[u].sock # 0
          /\ reg[u].pc = "publish" => moduleIndex[reg[u].module] # 0
      BY <1>a DEF RegistryInv, Reg
    <3>2. CASE u = t
      BY <1>a, <2>1, <2>2, <2>3, <3>1, <3>2 DEF m
    <3>3. CASE u # t
      BY <1>a, <2>2, <2>3, <3>1, <3>3
    <3>. QED
      BY <3>2, <3>3
  <2>. QED
    BY <2>3, <2>5, <2>6, <2>7 DEF RegistryInv
<1>5. ASSUME NEW t \in Threads, PublishSocket(t)
      PROVE  RegistryInv'
  <2>1. /\ reg[t].pc = "publish" /\ reg[t].module \in Modules /\ reg[t].sock # 0
        /\ moduleIndex[reg[t].module] # 0
        /\ \A i \in 1 .. n : modules[i].kind = "artifact" => reg[t].module # modules[i].name
    BY <1>5, <1>a DEF PublishSocket, Publishes, Reg, RegistryInv
  <2>2. /\ moduleSockets' = [moduleSockets EXCEPT ![reg[t].module] = reg[t].sock]
        /\ UNCHANGED <<modules, moduleIndex>>
        /\ reg'[t].pc = "idle" /\ \A u \in Threads \ {t} : reg'[u] = reg[u]
    BY <1>5 DEF PublishSocket, Publishes, registry, IdleReg, TypeOK
  <2>3. \A l \in Modules : /\ moduleIndex'[l] # 0 => modules'[moduleIndex'[l]].name = l
                           /\ moduleSockets'[l] # 0 => moduleIndex'[l] # 0
    BY <1>a, <2>1, <2>2 DEF RegistryInv
  <2>4. ASSUME NEW i \in 1 .. n
        PROVE  /\ modules'[i].entries \in ExportLists[modules'[i].name]
               /\ modules'[i].kind = "artifact" =>
                      /\ moduleSockets'[modules'[i].name] = 0
                      /\ \A u \in Threads : reg'[u].pc # "idle" => reg'[u].module # modules'[i].name
               /\ modules'[i].kind = "process" =>
                      \/ moduleSockets'[modules'[i].name] # 0
                      \/ \E u \in Threads : reg'[u].pc = "publish" /\ reg'[u].module = modules'[i].name
    <3>1. modules[i].name \in Modules /\ modules'[i] = modules[i]
      BY <1>b, <2>2
    <3>2. CASE modules[i].name = reg[t].module
      BY <1>a, <2>1, <2>2, <3>1, <3>2 DEF RegistryInv
    <3>3. CASE modules[i].name # reg[t].module
      <4>1. /\ modules[i].entries \in ExportLists[modules[i].name]
            /\ modules[i].kind = "artifact" =>
                   /\ moduleSockets[modules[i].name] = 0
                   /\ \A u \in Threads : reg[u].pc # "idle" => reg[u].module # modules[i].name
            /\ modules[i].kind = "process" =>
                   \/ moduleSockets[modules[i].name] # 0
                   \/ \E u \in Threads : reg[u].pc = "publish" /\ reg[u].module = modules[i].name
        BY DEF RegistryInv
      <4>2. moduleSockets'[modules[i].name] = moduleSockets[modules[i].name]
        BY <1>a, <2>1, <2>2, <3>1, <3>3
      <4>3. \A u \in Threads : reg[u].module = modules[i].name => reg'[u] = reg[u]
        BY <2>2, <3>3
      <4>4. \A u \in Threads : reg'[u] = reg[u] \/ reg'[u].pc = "idle"
        BY <2>2
      <4>. QED
        BY <3>1, <4>1, <4>2, <4>3, <4>4
    <3>. QED
      BY <3>2, <3>3
  <2>5. \A u \in Threads :
           /\ reg'[u].pc # "idle" => reg'[u].entries \in ExportLists[reg'[u].module]
           /\ reg'[u].pc \in {"register", "publish"} => reg'[u].sock # 0
           /\ reg'[u].pc = "publish" => moduleIndex'[reg'[u].module] # 0
    BY <2>2 DEF RegistryInv
  <2>. QED
    BY <2>2, <2>3, <2>4, <2>5 DEF RegistryInv
<1>6. CASE UNCHANGED <<modules, moduleIndex, moduleSockets, reg>>
  BY <1>6 DEF RegistryInv
<1>7. ASSUME NEW t \in Threads, \/ DispatchStep(t) \/ Return(t)
                                \/ \E m \in Modules, f \in Functions : BeginCall(t, m, f)
      PROVE  UNCHANGED <<modules, moduleIndex, moduleSockets, reg>>
  BY <1>7 DEF DispatchStep, Return, BeginCall, LookupSocket, FindExport, NotFound, FindsNothing,
              SetContext, EnterArtifact, WrapperFails, EnterRoundtrip, EntersRoundtrip,
              ReturnArtifact, ReturnRoundtrip, ReturnsRoundtrip, registry, ipcTables
<1>8. CASE UNCHANGED vars
  BY <1>6, <1>8 DEF vars, registry, ipcTables
<1>. QED
  BY <1>1, <1>2, <1>3, <1>4, <1>5, <1>6, <1>7, <1>8 DEF Next, RegistrationStep

(* -------------------------- the calls and contexts ------------------------ *)

\* A call that is not on top waits for its callee: the code of an ARTIFACT, or
\* a round trip.
OuterCallsWait ==
    \A t \in Threads : \A i \in 1 .. Len(calls[t]) - 1 :
        calls[t][i].pc \in {"artifact", "roundtrip"}

\* A lookup that returned a socket was for a module that has one, and the
\* wrapper it then finds is that of a PROCESS.
Found(c) ==
    /\ c.sock # 0 => moduleSockets[c.module] # 0
    /\ c.pc = "socket" => c.sock = 0
    /\ c.pc = "base" => c.sock # 0
    /\ c.sock # 0 /\ c.pc \in {"base", "wrapper"} => c.kind = "process"
    /\ c.pc = "artifact" => c.sock = 0
    /\ c.pc = "roundtrip" => c.sock # 0

LookupInv == \A t \in Threads : \A i \in 1 .. Len(calls[t]) : Found(calls[t][i])

\* A lookup that returned no socket while its thread keeps a read guard is
\* still right; one whose wrapper turned out to be that of a PROCESS was made
\* without a guard, and its thread has no context.
ContextOK(t) ==
    /\ At(t, "find") /\ Top(t).sock = 0 /\ readers[t] # 0 => moduleSockets[Top(t).module] = 0
    /\ At(t, "wrapper") /\ Top(t).sock = 0 /\ Top(t).kind = "process" => readers[t] = 0
    /\ At(t, "wrapper") /\ Top(t).sock # 0 => ctx[t].sock = Top(t).sock
    /\ ctx[t] # NoCtx => \/ readers[t] # 0
                         \/ At(t, "wrapper") /\ Top(t).sock # 0

ContextInv == \A t \in Threads : ContextOK(t)

\* A module that has a socket keeps having one.
LEMMA SocketsStay ==
    ASSUME TypeInv, RegistryInv, [Next]_vars, NEW m \in Modules, moduleSockets[m] # 0
    PROVE  moduleSockets'[m] # 0
<1>1. ASSUME NEW t \in Threads, PublishSocket(t)
      PROVE  moduleSockets'[m] # 0
  <2>1. moduleSockets' = [moduleSockets EXCEPT ![reg[t].module] = reg[t].sock] /\ reg[t].sock # 0
    BY <1>1 DEF PublishSocket, Publishes, RegistryInv
  <2>. QED
    BY <2>1 DEF TypeInv, TypeOK
<1>2. CASE UNCHANGED moduleSockets
  BY <1>2
<1>3. UNCHANGED moduleSockets \/ \E t \in Threads : PublishSocket(t)
  BY DEF Next, RegistrationStep, DispatchStep, Return, RegisterArtifact, StartProcess, PushExports,
         RegisterProcess, BeginCall, LookupSocket, FindExport, NotFound, FindsNothing, SetContext,
         EnterArtifact, WrapperFails, EnterRoundtrip, EntersRoundtrip, ReturnArtifact,
         ReturnRoundtrip, ReturnsRoundtrip, ipcTables, vars
<1>. QED
  BY <1>1, <1>2, <1>3

\* The steps of a registration change no call; every other step changes the
\* calls of one thread, at the top.
LEMMA RegistrationKeepsCalls ==
    ASSUME [Next]_vars
    PROVE  \/ UNCHANGED <<calls, ctx, readers>>
           \/ \E t \in Threads : \/ \E m \in Modules, f \in Functions : BeginCall(t, m, f)
                                 \/ DispatchStep(t)
                                 \/ Return(t)
  BY DEF Next, RegistrationStep, RegisterArtifact, StartProcess, PushExports, RegisterProcess,
         PublishSocket, Publishes, vars, lock

\* The invariants of the calls, together: each needs the others.
CallsInv == OuterCallsWait /\ LookupInv /\ ContextInv

\* Every step of a thread other than a registration leaves what calls are
\* about: the tables and the other threads.
LEMMA CallStepFrame ==
    ASSUME TypeInv, NEW t \in Threads,
           \/ \E m \in Modules, f \in Functions : BeginCall(t, m, f)
           \/ DispatchStep(t)
           \/ Return(t)
    PROVE  /\ UNCHANGED <<modules, moduleIndex, ipcExports, moduleSockets, moduleBase, writer, reg>>
           /\ \A u \in Threads \ {t} : /\ calls'[u] = calls[u]
                                       /\ readers'[u] = readers[u]
                                       /\ ctx'[u] = ctx[u]
<1>1. calls \in [Threads -> Seq(Call)] /\ readers \in [Threads -> Nat]
      /\ ctx \in [Threads -> Ctx \cup {NoCtx}]
  BY DEF TypeInv, TypeOK
<1>. QED
  BY <1>1 DEF DispatchStep, Return, BeginCall, LookupSocket, FindExport, NotFound, FindsNothing,
              SetContext, EnterArtifact, WrapperFails, EnterRoundtrip, EntersRoundtrip, WithTop, Pop,
              ReturnArtifact, ReturnRoundtrip, ReturnsRoundtrip, registry, ipcTables, lock

\* The outer calls of a thread stay outer calls.
LEMMA OuterStep ==
    ASSUME TypeInv, OuterCallsWait, [Next]_vars
    PROVE  OuterCallsWait'
<1>. USE DEF TypeInv
<1>1. CASE UNCHANGED calls
  BY <1>1 DEF OuterCallsWait
<1>2. ASSUME NEW t \in Threads, NEW m \in Modules, NEW f \in Functions, BeginCall(t, m, f)
      PROVE  OuterCallsWait'
  <2>1. /\ \A u \in Threads \ {t} : calls'[u] = calls[u]
        /\ Len(calls'[t]) = Len(calls[t]) + 1 /\ Len(calls[t]) \in Nat
        /\ \A i \in 1 .. Len(calls[t]) : calls'[t][i] = calls[t][i]
    BY <1>2, BeginCallType, PushType DEF BeginCall
  <2>2. calls[t] # <<>> => calls[t][Len(calls[t])].pc \in {"artifact", "roundtrip"}
    BY <1>2, TopType DEF BeginCall
  <2>3. \A i \in 1 .. Len(calls[t]) : i = Len(calls[t]) \/ i \in 1 .. Len(calls[t]) - 1
    BY <2>1
  <2>4. \A i \in 1 .. Len(calls[t]) : calls[t][i].pc \in {"artifact", "roundtrip"}
    BY <2>2, <2>3 DEF OuterCallsWait
  <2>5. ASSUME NEW u \in Threads, NEW i \in 1 .. Len(calls'[u]) - 1
        PROVE  calls'[u][i].pc \in {"artifact", "roundtrip"}
    <3>1. CASE u = t
      <4>1. i \in 1 .. Len(calls[t])
        BY <2>1, <2>5, <3>1
      <4>. QED
        BY <2>1, <2>4, <3>1, <4>1
    <3>2. CASE u # t
      BY <2>1, <2>5, <3>2 DEF OuterCallsWait
    <3>. QED
      BY <3>1, <3>2
  <2>. QED
    BY <2>5 DEF OuterCallsWait
<1>3. ASSUME NEW t \in Threads, calls[t] # <<>>, NEW c \in Call, calls' = WithTop(t, c)
      PROVE  OuterCallsWait'
  <2>1. /\ Len(calls'[t]) = Len(calls[t])
        /\ \A i \in 1 .. Len(calls[t]) - 1 : calls'[t][i] = calls[t][i]
        /\ \A u \in Threads \ {t} : calls'[u] = calls[u]
    BY <1>3, WithTopType
  <2>. QED
    BY <2>1 DEF OuterCallsWait
<1>4. ASSUME NEW t \in Threads, calls[t] # <<>>, calls' = [calls EXCEPT ![t] = Front(@)]
      PROVE  OuterCallsWait'
  <2>1. /\ \A u \in Threads \ {t} : calls'[u] = calls[u]
        /\ Len(calls'[t]) = Len(calls[t]) - 1 /\ Len(calls[t]) \in Nat
        /\ \A i \in 1 .. Len(calls[t]) - 1 : calls'[t][i] = calls[t][i]
    BY <1>4, PopType
  <2>. QED
    BY <2>1 DEF OuterCallsWait
<1>5. ASSUME NEW t \in Threads, DispatchStep(t) \/ Return(t)
      PROVE  OuterCallsWait'
  <2>1. calls[t] # <<>>
    BY <1>5 DEF DispatchStep, Return, LookupSocket, FindExport, NotFound, FindsNothing, SetContext,
                EnterArtifact, WrapperFails, EnterRoundtrip, EntersRoundtrip, ReturnArtifact,
                ReturnRoundtrip, ReturnsRoundtrip, At
  <2>2. CASE LookupSocket(t) \/ SetContext(t) \/ EnterArtifact(t) \/ EnterRoundtrip(t)
    BY <1>3, <2>1, <2>2, NewTopType
       DEF LookupSocket, SetContext, EnterArtifact, EnterRoundtrip, EntersRoundtrip
  <2>3. CASE FindExport(t)
    BY <1>3, <2>1, <2>3, FindExportType
  <2>4. CASE NotFound(t) \/ WrapperFails(t) \/ Return(t)
    BY <1>4, <2>1, <2>4 DEF NotFound, FindsNothing, WrapperFails, Return, ReturnArtifact,
                            ReturnRoundtrip, ReturnsRoundtrip, Pop
  <2>. QED
    BY <1>5, <2>2, <2>3, <2>4 DEF DispatchStep
<1>. QED
  BY <1>1, <1>2, <1>5, RegistrationKeepsCalls

\* The wrapper a lookup finds for a module with a socket is that of a PROCESS,
\* and the other way round once the registration is complete.
LEMMA WrapperKind ==
    ASSUME TypeOK, LockDiscipline, RegistryInv, NEW m \in Modules, moduleIndex[m] # 0
    PROVE  /\ modules[moduleIndex[m]].name = m
           /\ modules[moduleIndex[m]].entries \in ExportLists[m]
           /\ moduleSockets[m] # 0 => modules[moduleIndex[m]].kind = "process"
           /\ moduleSockets[m] = 0 /\ modules[moduleIndex[m]].kind = "process" => writer # NoThread
<1>1. moduleIndex[m] \in 1 .. Len(modules) /\ modules[moduleIndex[m]].name = m
  BY DEF TypeOK, RegistryInv
<1>2. modules[moduleIndex[m]].kind \in Kinds
  <2>1. modules \in Seq(Module)
    BY DEF TypeOK
  <2>2. modules[moduleIndex[m]] \in Module
    BY <1>1, <2>1
  <2>. QED
    BY <2>2 DEF Module
<1>3. moduleSockets[m] # 0 => modules[moduleIndex[m]].kind = "process"
  BY <1>1, <1>2 DEF RegistryInv, Kinds
<1>4. ASSUME moduleSockets[m] = 0, modules[moduleIndex[m]].kind = "process"
      PROVE  writer # NoThread
  <2>1. PICK u \in Threads : reg[u].pc = "publish"
    BY <1>1, <1>4 DEF RegistryInv
  <2>2. writer = u
    BY <2>1 DEF LockDiscipline
  <2>. QED
    BY <2>2, IpcDispatchAssumption
<1>. QED
  BY <1>1, <1>3, <1>4 DEF RegistryInv

\* Who has a context in the wrapper of a PROCESS has a socket, its own.
LEMMA WrapperContext ==
    ASSUME ContextInv, NEW t \in Threads, At(t, "wrapper"), Top(t).kind = "process",
           ctx[t] # NoCtx
    PROVE  Top(t).sock # 0 /\ ctx[t].sock = Top(t).sock
  BY DEF ContextInv, ContextOK

\* What a lookup has found stays true.
LEMMA LookupStep ==
    ASSUME TypeInv, LockDiscipline, RegistryInv, CallsInv, [Next]_vars
    PROVE  LookupInv'
<1>. USE DEF TypeInv, CallsInv
<1>a. /\ \A m \in Modules : moduleSockets[m] # 0 => moduleSockets'[m] # 0
      /\ \A t \in Threads : calls[t] \in Seq(Call)
  BY SocketsStay DEF TypeOK
<1>c. ASSUME NEW t \in Threads, NEW i \in 1 .. Len(calls[t])
      PROVE  calls[t][i] \in Call /\ Found(calls[t][i])
  BY <1>a DEF LookupInv
<1>1. CASE UNCHANGED calls
  BY <1>1, <1>a, <1>c DEF LookupInv, Found, Call
<1>2. ASSUME NEW t \in Threads, NEW m \in Modules, NEW f \in Functions, BeginCall(t, m, f)
      PROVE  LookupInv'
  <2>. DEFINE c == [pc |-> "socket", module |-> m, function |-> f, sock |-> 0, entry |-> 0,
                    kind |-> "artifact", sent |-> [idx |-> 0, sock |-> 0]]
  <2>1. c \in Call /\ Found(c)
    BY BeginCallType DEF Found
  <2>2. calls' = [calls EXCEPT ![t] = Append(@, c)] /\ UNCHANGED moduleSockets
    BY <1>2 DEF BeginCall, ipcTables
  <2>. HIDE DEF c
  <2>3. /\ \A u \in Threads \ {t} : calls'[u] = calls[u]
        /\ Len(calls'[t]) = Len(calls[t]) + 1 /\ Len(calls[t]) \in Nat
        /\ calls'[t][Len(calls[t]) + 1] = c
        /\ \A i \in 1 .. Len(calls[t]) : calls'[t][i] = calls[t][i]
    BY <2>1, <2>2, PushType
  <2>4. \A i \in 1 .. Len(calls[t]) + 1 : i = Len(calls[t]) + 1 \/ i \in 1 .. Len(calls[t])
    BY <2>3
  <2>. QED
    BY <1>c, <2>1, <2>2, <2>3, <2>4 DEF LookupInv, Found
<1>3. ASSUME NEW t \in Threads, calls[t] # <<>>, NEW c \in Call, calls' = WithTop(t, c),
             Found(c), UNCHANGED moduleSockets
      PROVE  LookupInv'
  <2>1. /\ Len(calls'[t]) = Len(calls[t]) /\ Len(calls[t]) \in Nat
        /\ calls'[t][Len(calls[t])] = c
        /\ \A i \in 1 .. Len(calls[t]) - 1 : calls'[t][i] = calls[t][i]
        /\ \A u \in Threads \ {t} : calls'[u] = calls[u]
    BY <1>3, WithTopType
  <2>2. \A i \in 1 .. Len(calls[t]) : i = Len(calls[t]) \/ i \in 1 .. Len(calls[t]) - 1
    BY <2>1
  <2>3. ASSUME NEW i \in 1 .. Len(calls[t]) - 1
        PROVE  Found(calls[t][i])
    BY <1>c, <2>1
  <2>4. ASSUME NEW i \in 1 .. Len(calls'[t])
        PROVE  Found(calls'[t][i])
    BY <1>3, <2>1, <2>2, <2>3
  <2>5. ASSUME NEW u \in Threads, NEW i \in 1 .. Len(calls'[u])
        PROVE  Found(calls'[u][i])
    BY <1>c, <2>1, <2>4
  <2>6. \A d : Found(d) = Found(d)'
    BY <1>3 DEF Found
  <2>. QED
    BY <2>5, <2>6 DEF LookupInv, Found
<1>4. ASSUME NEW t \in Threads, calls[t] # <<>>, calls' = [calls EXCEPT ![t] = Front(@)],
             UNCHANGED moduleSockets
      PROVE  LookupInv'
  <2>1. /\ Len(calls'[t]) = Len(calls[t]) - 1 /\ Len(calls[t]) \in Nat
        /\ \A i \in 1 .. Len(calls[t]) - 1 : calls'[t][i] = calls[t][i]
        /\ \A u \in Threads \ {t} : calls'[u] = calls[u]
    BY <1>4, PopType
  <2>2. ASSUME NEW i \in 1 .. Len(calls[t]) - 1
        PROVE  Found(calls[t][i])
    BY <1>c, <2>1
  <2>. QED
    BY <1>4, <1>c, <2>1, <2>2 DEF LookupInv, Found
<1>5. ASSUME NEW t \in Threads, DispatchStep(t) \/ Return(t)
      PROVE  LookupInv'
  <2>1. calls[t] # <<>>
    BY <1>5 DEF DispatchStep, Return, LookupSocket, FindExport, NotFound, FindsNothing, SetContext,
                EnterArtifact, WrapperFails, EnterRoundtrip, EntersRoundtrip, ReturnArtifact,
                ReturnRoundtrip, ReturnsRoundtrip, At
  <2>2. Top(t) \in Call /\ Found(Top(t)) /\ UNCHANGED moduleSockets
    BY <1>5, <1>c, <2>1, TopType, CallStepFrame
  <2>3. CASE LookupSocket(t)
    <3>. DEFINE c == [Top(t) EXCEPT !.pc = "find", !.sock = moduleSockets[Top(t).module]]
    <3>1. c \in Call /\ calls' = WithTop(t, c)
      BY <2>1, <2>3, NewTopType DEF LookupSocket
    <3>2. Found(c)
      BY <2>2 DEF Found, Call
    <3>. QED
      BY <1>3, <2>1, <2>2, <3>1, <3>2
  <2>4. CASE FindExport(t)
    <3>. DEFINE m == modules[moduleIndex[Top(t).module]]
                c == [Top(t) EXCEPT !.pc = IF Top(t).sock # 0 THEN "base" ELSE "wrapper",
                          !.entry = EntryIndex(m.entries, Top(t).function), !.kind = m.kind]
    <3>1. c \in Call /\ calls' = WithTop(t, c) /\ moduleIndex[Top(t).module] # 0
      BY <2>4, FindExportType DEF FindExport
    <3>2. moduleSockets[Top(t).module] # 0 => m.kind = "process"
      BY <2>2, <3>1, WrapperKind DEF Call
    <3>. HIDE DEF m
    <3>3. Found(c)
      BY <2>2, <3>2 DEF Found, Call
    <3>. QED
      BY <1>3, <2>1, <2>2, <3>1, <3>3
  <2>5. CASE SetContext(t)
    <3>. DEFINE c == [Top(t) EXCEPT !.pc = "wrapper"]
    <3>1. c \in Call /\ calls' = WithTop(t, c) /\ Top(t).pc = "base"
      BY <2>1, <2>5, NewTopType DEF SetContext, At
    <3>2. Found(c)
      BY <2>2, <3>1 DEF Found, Call
    <3>. QED
      BY <1>3, <2>1, <2>2, <3>1, <3>2
  <2>6. CASE EnterArtifact(t)
    <3>. DEFINE c == [Top(t) EXCEPT !.pc = "artifact"]
    <3>1. c \in Call /\ calls' = WithTop(t, c) /\ Top(t).pc = "wrapper" /\ Top(t).kind = "artifact"
      BY <2>1, <2>6, NewTopType DEF EnterArtifact, At
    <3>2. Found(c)
      BY <2>2, <3>1 DEF Found, Call
    <3>. QED
      BY <1>3, <2>1, <2>2, <3>1, <3>2
  <2>7. CASE EnterRoundtrip(t)
    <3>. DEFINE c == [Top(t) EXCEPT !.pc = "roundtrip", !.sent = ctx[t]]
    <3>1. /\ At(t, "wrapper") /\ Top(t).kind = "process" /\ ctx[t] # NoCtx
          /\ calls' = WithTop(t, c)
      BY <2>7 DEF EnterRoundtrip, EntersRoundtrip
    <3>2. c \in Call
      BY <2>1, <3>1, NewTopType
    <3>3. Top(t).sock # 0
      BY <3>1, WrapperContext
    <3>4. Found(c)
      BY <2>2, <3>3 DEF Found, Call
    <3>. QED
      BY <1>3, <2>1, <2>2, <3>1, <3>2, <3>4
  <2>8. CASE NotFound(t) \/ WrapperFails(t) \/ Return(t)
    BY <1>4, <2>1, <2>2, <2>8 DEF NotFound, FindsNothing, WrapperFails, Return, ReturnArtifact,
                                  ReturnRoundtrip, ReturnsRoundtrip, Pop
  <2>. QED
    BY <1>5, <2>3, <2>4, <2>5, <2>6, <2>7, <2>8 DEF DispatchStep
<1>. QED
  BY <1>1, <1>2, <1>5, RegistrationKeepsCalls

\* What a thread knows of its context stays true.
LEMMA ContextStep ==
    ASSUME TypeInv, LockDiscipline, RegistryInv, CallsInv, [Next]_vars
    PROVE  ContextInv'
<1>. USE DEF TypeInv, CallsInv
<1>a. /\ \A t \in Threads : calls[t] \in Seq(Call) /\ ContextOK(t) /\ readers[t] \in Nat
      /\ readers \in [Threads -> Nat] /\ ctx \in [Threads -> Ctx \cup {NoCtx}]
  BY DEF TypeOK, ContextInv
<1>1. CASE UNCHANGED <<calls, ctx, readers>>
  <2>1. CASE UNCHANGED moduleSockets
    BY <1>1, <1>a, <2>1 DEF ContextInv, ContextOK, At, Top
  <2>2. ASSUME NEW u \in Threads, PublishSocket(u)
        PROVE  ContextInv'
    <3>1. reg[u].pc = "publish"
      BY <2>2 DEF PublishSocket, Publishes
    <3>2. \A t \in Threads : readers[t] = 0
      BY <3>1, IpcDispatchAssumption DEF LockDiscipline
    <3>. QED
      BY <1>1, <1>a, <3>2 DEF ContextInv, ContextOK, At, Top
  <2>3. UNCHANGED moduleSockets \/ \E u \in Threads : PublishSocket(u)
    BY DEF Next, RegistrationStep, DispatchStep, Return, RegisterArtifact, StartProcess, PushExports,
           RegisterProcess, BeginCall, LookupSocket, FindExport, NotFound, FindsNothing, SetContext,
           EnterArtifact, WrapperFails, EnterRoundtrip, EntersRoundtrip, ReturnArtifact,
           ReturnRoundtrip, ReturnsRoundtrip, ipcTables, vars
  <2>. QED
    BY <2>1, <2>2, <2>3
<1>2. ASSUME NEW t \in Threads, UNCHANGED moduleSockets, ContextOK(t)',
             \A u \in Threads \ {t} :
                 calls'[u] = calls[u] /\ readers'[u] = readers[u] /\ ctx'[u] = ctx[u]
      PROVE  ContextInv'
  BY <1>2, <1>a DEF ContextInv, ContextOK, At, Top
<1>3. ASSUME NEW t \in Threads, NEW m \in Modules, NEW f \in Functions, BeginCall(t, m, f)
      PROVE  ContextInv'
  <2>. DEFINE c == [pc |-> "socket", module |-> m, function |-> f, sock |-> 0, entry |-> 0,
                    kind |-> "artifact", sent |-> [idx |-> 0, sock |-> 0]]
  <2>1. /\ c \in Call /\ c.pc = "socket"
        /\ calls' = [calls EXCEPT ![t] = Append(@, c)]
        /\ UNCHANGED <<moduleSockets, readers, ctx>>
    BY <1>3, BeginCallType DEF BeginCall, ipcTables, lock
  <2>. HIDE DEF c
  <2>2. /\ \A u \in Threads \ {t} : calls'[u] = calls[u]
        /\ calls'[t] # <<>> /\ Last(calls'[t]) = c
    BY <2>1, PushType
  <2>3. ctx[t] # NoCtx => readers[t] # 0
    BY <1>3, <1>a DEF BeginCall, ContextOK, At
  <2>4. ContextOK(t)'
    BY <2>1, <2>2, <2>3 DEF ContextOK, At, Top
  <2>. QED
    BY <1>2, <2>1, <2>2, <2>4
<1>4. ASSUME NEW t \in Threads, DispatchStep(t) \/ Return(t)
      PROVE  ContextInv'
  <2>1. calls[t] # <<>>
    BY <1>4 DEF DispatchStep, Return, LookupSocket, FindExport, NotFound, FindsNothing, SetContext,
                EnterArtifact, WrapperFails, EnterRoundtrip, EntersRoundtrip, ReturnArtifact,
                ReturnRoundtrip, ReturnsRoundtrip, At
  <2>2. /\ UNCHANGED moduleSockets
        /\ \A u \in Threads \ {t} :
               calls'[u] = calls[u] /\ readers'[u] = readers[u] /\ ctx'[u] = ctx[u]
    BY <1>4, CallStepFrame
  <2>3. Top(t) \in Call /\ Found(Top(t)) /\ Top(t).module \in Modules /\ Top(t).kind \in Kinds
    <3>1. Top(t) \in Call /\ Top(t) = calls[t][Len(calls[t])] /\ Len(calls[t]) \in 1 .. Len(calls[t])
      BY <2>1, TopType
    <3>. QED
      BY <3>1 DEF LookupInv, Call
  <2>4. ASSUME NEW c \in Call, calls' = WithTop(t, c)
        PROVE  calls'[t] # <<>> /\ Top(t)' = c
    BY <2>1, <2>4, WithTopType DEF Top
  <2>5. CASE LookupSocket(t)
    <3>. DEFINE c == [Top(t) EXCEPT !.pc = "find", !.sock = moduleSockets[Top(t).module]]
    <3>1. /\ c \in Call /\ calls' = WithTop(t, c) /\ Top(t).pc = "socket"
          /\ UNCHANGED <<readers, ctx>>
      BY <2>1, <2>5, NewTopType DEF LookupSocket, lock, At
    <3>2. c.pc = "find" /\ c.module = Top(t).module /\ c.sock = moduleSockets[Top(t).module]
      BY <2>3 DEF Call
    <3>. HIDE DEF c
    <3>3. ContextOK(t)'
      BY <1>a, <2>2, <2>4, <3>1, <3>2 DEF ContextOK, At
    <3>. QED
      BY <1>2, <2>2, <3>3
  <2>6. CASE FindExport(t)
    <3>. DEFINE m == modules[moduleIndex[Top(t).module]]
                c == [Top(t) EXCEPT !.pc = IF Top(t).sock # 0 THEN "base" ELSE "wrapper",
                          !.entry = EntryIndex(m.entries, Top(t).function), !.kind = m.kind]
    <3>1. /\ c \in Call /\ calls' = WithTop(t, c) /\ At(t, "find") /\ Top(t).pc = "find"
          /\ moduleIndex[Top(t).module] # 0
          /\ UNCHANGED <<readers, ctx>>
      BY <2>6, FindExportType DEF FindExport, lock, At
    <3>2. moduleSockets[Top(t).module] = 0 /\ m.kind = "process" => writer # NoThread
      BY <2>3, <3>1, WrapperKind
    <3>3. writer # NoThread => readers[t] = 0
      BY DEF LockDiscipline
    <3>. HIDE DEF m
    <3>4. /\ c.pc = IF Top(t).sock # 0 THEN "base" ELSE "wrapper"
          /\ c.sock = Top(t).sock /\ c.kind = m.kind
      BY <2>3 DEF Call
    <3>. HIDE DEF c
    <3>5. ContextOK(t)'
      BY <1>a, <2>2, <2>4, <3>1, <3>2, <3>3, <3>4 DEF ContextOK, At
    <3>. QED
      BY <1>2, <2>2, <3>5
  <2>7. CASE SetContext(t)
    <3>. DEFINE c == [Top(t) EXCEPT !.pc = "wrapper"]
    <3>1. /\ c \in Call /\ calls' = WithTop(t, c) /\ Top(t).pc = "base"
          /\ ctx'[t].sock = Top(t).sock /\ UNCHANGED readers
      BY <1>a, <2>1, <2>7, NewTopType DEF SetContext, At, lock
    <3>2. c.pc = "wrapper" /\ c.sock = Top(t).sock /\ Top(t).sock # 0
      BY <2>3, <3>1 DEF Call, Found
    <3>. HIDE DEF c
    <3>3. ContextOK(t)'
      BY <1>a, <2>2, <2>4, <3>1, <3>2 DEF ContextOK, At
    <3>. QED
      BY <1>2, <2>2, <3>3
  <2>8. CASE EnterArtifact(t)
    <3>. DEFINE c == [Top(t) EXCEPT !.pc = "artifact"]
    <3>1. /\ c \in Call /\ calls' = WithTop(t, c) /\ Top(t).pc = "wrapper" /\ Top(t).kind = "artifact"
          /\ UNCHANGED <<readers, ctx>>
      BY <2>1, <2>8, NewTopType DEF EnterArtifact, At, lock
    <3>2. c.pc = "artifact" /\ Top(t).sock = 0
      BY <2>3, <3>1 DEF Call, Found
    <3>. HIDE DEF c
    <3>3. ContextOK(t)'
      BY <1>a, <2>2, <2>4, <3>1, <3>2 DEF ContextOK, At
    <3>. QED
      BY <1>2, <2>2, <3>3
  <2>9. CASE EnterRoundtrip(t)
    <3>. DEFINE c == [Top(t) EXCEPT !.pc = "roundtrip", !.sent = ctx[t]]
    <3>1. /\ ctx[t] # NoCtx /\ calls' = WithTop(t, c)
          /\ readers' = [readers EXCEPT ![t] = @ + 1]
      BY <2>9 DEF EnterRoundtrip, EntersRoundtrip
    <3>2. c \in Call /\ c.pc = "roundtrip"
      BY <2>1, <2>3, <3>1, NewTopType DEF Call
    <3>3. readers'[t] # 0
      BY <1>a, <3>1
    <3>. HIDE DEF c
    <3>4. ContextOK(t)'
      BY <2>4, <3>1, <3>2, <3>3 DEF ContextOK, At
    <3>. QED
      BY <1>2, <2>2, <3>4
  <2>10. ASSUME calls' = [calls EXCEPT ![t] = Front(@)],
                ctx'[t] # NoCtx => readers'[t] # 0
         PROVE  ContextInv'
    <3>1. /\ Len(calls'[t]) = Len(calls[t]) - 1 /\ Len(calls[t]) \in Nat \ {0}
          /\ calls'[t] \in Seq(Call)
          /\ calls'[t] # <<>> => Last(calls'[t]) = calls[t][Len(calls[t]) - 1]
      BY <2>1, <2>10, PopType
    <3>2. calls'[t] # <<>> => Last(calls'[t]).pc \in {"artifact", "roundtrip"}
      <4>1. calls'[t] # <<>> => Len(calls[t]) - 1 \in 1 .. Len(calls[t]) - 1
        BY <3>1
      <4>. QED
        BY <3>1, <4>1 DEF OuterCallsWait
    <3>3. ContextOK(t)'
      BY <2>10, <3>2 DEF ContextOK, At, Top
    <3>. QED
      BY <1>2, <2>2, <3>3
  <2>11. CASE NotFound(t)
    <3>1. /\ calls' = [calls EXCEPT ![t] = Front(@)] /\ Top(t).pc = "find"
          /\ UNCHANGED <<readers, ctx>>
      BY <2>11 DEF NotFound, FindsNothing, At, lock
    <3>2. ctx[t] # NoCtx => readers[t] # 0
      BY <1>a, <3>1 DEF ContextOK, At
    <3>. QED
      BY <2>10, <3>1, <3>2
  <2>12. CASE WrapperFails(t)
    <3>1. /\ At(t, "wrapper") /\ Top(t).kind = "process" /\ UNCHANGED readers
          /\ calls' = [calls EXCEPT ![t] = Front(@)]
          /\ ctx' = IF Top(t).sock # 0 THEN [ctx EXCEPT ![t] = NoCtx] ELSE ctx
      BY <2>12 DEF WrapperFails, Pop, lock
    <3>2. ctx'[t] = NoCtx
      BY <1>a, <3>1 DEF ContextOK
    <3>. QED
      BY <2>10, <3>1, <3>2
  <2>13. CASE ReturnArtifact(t)
    <3>1. /\ Top(t).pc = "artifact" /\ UNCHANGED readers
          /\ calls' = [calls EXCEPT ![t] = Front(@)]
          /\ ctx' = IF Top(t).sock # 0 THEN [ctx EXCEPT ![t] = NoCtx] ELSE ctx
      BY <2>13 DEF ReturnArtifact, Pop, lock, At
    <3>2. ctx'[t] # NoCtx => readers'[t] # 0
      BY <1>a, <2>3, <3>1 DEF ContextOK, At, Found
    <3>. QED
      BY <2>10, <3>1, <3>2
  <2>14. CASE ReturnRoundtrip(t)
    <3>1. /\ Top(t).pc = "roundtrip"
          /\ calls' = [calls EXCEPT ![t] = Front(@)]
          /\ ctx' = IF Top(t).sock # 0 THEN [ctx EXCEPT ![t] = NoCtx] ELSE ctx
      BY <2>14 DEF ReturnRoundtrip, ReturnsRoundtrip, Pop, At
    <3>2. ctx'[t] = NoCtx
      BY <1>a, <2>3, <3>1 DEF Found
    <3>. QED
      BY <2>10, <3>1, <3>2
  <2>. QED
    BY <1>4, <2>5, <2>6, <2>7, <2>8, <2>9, <2>11, <2>12, <2>13, <2>14 DEF DispatchStep, Return
<1>. QED
  BY <1>1, <1>3, <1>4, RegistrationKeepsCalls

\* The invariants of the registry and of the calls hold initially.
LEMMA InitCalls == Init => RegistryInv /\ CallsInv
<1>. SUFFICES ASSUME Init PROVE RegistryInv /\ CallsInv
  OBVIOUS
<1>1. \A t \in Threads : calls[t] = <<>> /\ ctx[t] = NoCtx /\ reg[t].pc = "idle"
  BY DEF Init, IdleReg
<1>2. RegistryInv
  BY <1>1 DEF Init, RegistryInv
<1>3. OuterCallsWait /\ LookupInv /\ ContextInv
  BY <1>1 DEF OuterCallsWait, LookupInv, ContextInv, ContextOK, At
<1>. QED
  BY <1>2, <1>3 DEF CallsInv

\* They hold in every reachable state.
LEMMA CallsAreTracked == Spec => [](RegistryInv /\ CallsInv)
<1>1. TypeInv /\ LockDiscipline /\ RegistryInv /\ CallsInv /\ [Next]_vars
          => (RegistryInv /\ CallsInv)'
  BY RegistryStep, OuterStep, LookupStep, ContextStep DEF CallsInv
<1>. QED
  BY InitCalls, <1>1, TypedAndLocked, PTL DEF Spec

\* A dispatch never finds in IPC_CALL_CTX the context of another call
\* (runtime.rs 142-154): the wrapper gets its own or none, although an outer
\* round trip leaves its context in the thread-local while it serves callbacks.
THEOREM ContextsAreOwn == Spec => []ContextIsOwn
<1>1. CallsInv => ContextIsOwn
  BY WrapperContext DEF CallsInv, ContextIsOwn
<1>. QED
  BY <1>1, CallsAreTracked, PTL

(* ---------------------------- the export table ---------------------------- *)

\* The metas of m, with this table and this socket, start at base.
InTable(m, entries, base, sock) ==
    /\ base + Len(entries) <= Len(ipcExports)
    /\ \A i \in 1 .. Len(entries) :
           ipcExports[base + i] = [module |-> m, function |-> entries[i], sock |-> sock]

\* Some table of m is published ...
Published(m) == \E entries \in ExportLists[m] : InTable(m, entries, moduleBase[m], moduleSockets[m])

\* ... and it is the table of REGISTRY,
Current(m) == InTable(m, modules[moduleIndex[m]].entries, moduleBase[m], moduleSockets[m])

\* unless REGISTRY has that of a later process, which is about to be published.
Publishing(m) == \E t \in Threads : reg[t].pc = "publish" /\ reg[t].module = m

\* What is about to be published is in the table, and in REGISTRY before it is;
\* its socket has a larger number than those before.
Pushed(t) ==
    /\ InTable(reg[t].module, reg[t].entries, reg[t].base, reg[t].sock)
    /\ \A m \in Modules : moduleSockets[m] < reg[t].sock
    /\ reg[t].sock <= Len(modules) + 1
    /\ reg[t].pc = "publish" =>
           /\ reg[t].sock <= Len(modules)
           /\ modules[moduleIndex[reg[t].module]].entries = reg[t].entries

TablesInv ==
    /\ \A m \in Modules : moduleSockets[m] <= Len(modules)
    /\ \A m \in Modules : moduleSockets[m] # 0 => Published(m) /\ (Current(m) \/ Publishing(m))
    /\ \A t \in Threads : reg[t].pc \in {"register", "publish"} => Pushed(t)

\* The table only grows.
Extends == /\ Len(ipcExports) <= Len(ipcExports')
           /\ \A i \in 1 .. Len(ipcExports) : ipcExports'[i] = ipcExports[i]

\* A module keeps its socket and its base index until it is published again,
\* with a later socket.
Advances(m) ==
    \/ moduleSockets[m] < moduleSockets'[m]
    \/ /\ moduleSockets'[m] = moduleSockets[m]
       /\ moduleBase'[m] = moduleBase[m]
       /\ Publishing(m) => Publishing(m)'

\* Metas stay where they are.
LEMMA InTableStays ==
    ASSUME TypeInv, TypeInv', Extends, NEW m \in Modules, NEW entries \in Seq(Functions),
           NEW base \in Nat, NEW sock \in Nat, InTable(m, entries, base, sock)
    PROVE  InTable(m, entries, base, sock)'
<1>1. /\ Len(ipcExports) \in Nat /\ Len(ipcExports') \in Nat /\ Len(entries) \in Nat
      /\ base + Len(entries) <= Len(ipcExports)
  <2>1. ipcExports \in Seq(Meta) /\ ipcExports' \in Seq(Meta)
    BY DEF TypeInv, TypeOK
  <2>. QED
    BY <2>1 DEF InTable
<1>2. \A i \in 1 .. Len(entries) : base + i \in 1 .. Len(ipcExports)
  BY <1>1
<1>. QED
  BY <1>1, <1>2 DEF InTable, Extends

\* A step that changes neither table keeps what was pushed and published, if
\* REGISTRY keeps the entries of the modules that have a socket or is about to
\* publish them.
LEMMA TablesKept ==
    ASSUME TypeInv, TypeInv', TablesInv, UNCHANGED <<ipcExports, moduleSockets, moduleBase>>,
           Len(modules) <= Len(modules'),
           \A m \in Modules : Publishing(m) => Publishing(m)',
           \A m \in Modules : moduleSockets[m] # 0 =>
               \/ modules'[moduleIndex'[m]].entries = modules[moduleIndex[m]].entries
               \/ Publishing(m)',
           \A t \in Threads : reg'[t].pc \in {"register", "publish"} =>
               /\ reg[t].pc \in {"register", "publish"}
               /\ reg'[t].module = reg[t].module /\ reg'[t].entries = reg[t].entries
               /\ reg'[t].base = reg[t].base /\ reg'[t].sock = reg[t].sock
               /\ reg'[t].pc = "publish" =>
                      /\ reg[t].sock <= Len(modules')
                      /\ modules'[moduleIndex'[reg[t].module]].entries = reg[t].entries
    PROVE  TablesInv' /\ Extends /\ \A m \in Modules : Advances(m)
<1>1. /\ Len(modules) \in Nat /\ Len(modules') \in Nat /\ Len(ipcExports) \in Nat
      /\ \A m \in Modules : moduleSockets[m] \in Nat
      /\ \A t \in Threads : reg[t].sock \in Nat
  <2>1. \A t \in Threads : reg[t] \in Reg
    BY DEF TypeInv, TypeOK
  <2>2. \A t \in Threads : reg[t].sock \in Nat
    BY <2>1 DEF Reg
  <2>3. Len(modules) \in Nat /\ Len(modules') \in Nat /\ Len(ipcExports) \in Nat
    BY DEF TypeInv, TypeOK
  <2>4. \A m \in Modules : moduleSockets[m] \in Nat
    BY DEF TypeInv, TypeOK
  <2>. QED
    BY <2>2, <2>3, <2>4
<1>2. \A m \in Modules : moduleSockets'[m] <= Len(modules')
  BY <1>1 DEF TablesInv
<1>3. ASSUME NEW m \in Modules, moduleSockets'[m] # 0
      PROVE  Published(m)' /\ (Current(m)' \/ Publishing(m)')
  <2>1. Published(m) /\ (Current(m) \/ Publishing(m))
    BY <1>3 DEF TablesInv
  <2>2. Published(m)'
    BY <2>1 DEF Published, InTable
  <2>3. CASE Current(m) /\ modules'[moduleIndex'[m]].entries = modules[moduleIndex[m]].entries
    <3>1. PICK entries : entries = modules[moduleIndex[m]].entries
      OBVIOUS
    <3>2. InTable(m, entries, moduleBase[m], moduleSockets[m])
      BY <2>3, <3>1 DEF Current
    <3>3. modules'[moduleIndex'[m]].entries = entries
      BY <2>3, <3>1
    <3>. QED
      BY <2>2, <3>2, <3>3 DEF Current, InTable
  <2>. QED
    BY <1>3, <2>1, <2>2, <2>3
<1>4. ASSUME NEW t \in Threads, reg'[t].pc \in {"register", "publish"}
      PROVE  Pushed(t)'
  <2>1. Pushed(t)
    BY <1>4 DEF TablesInv
  <2>2. reg[t].sock <= Len(modules') + 1
    BY <1>1, <2>1 DEF Pushed
  <2>3. InTable(reg[t].module, reg[t].entries, reg[t].base, reg[t].sock)'
    BY <1>4, <2>1 DEF Pushed, InTable
  <2>4. \A m \in Modules : moduleSockets'[m] < reg'[t].sock
    BY <1>4, <2>1 DEF Pushed
  <2>. QED
    BY <1>4, <2>2, <2>3, <2>4 DEF Pushed
<1>5. Extends
  BY <1>1 DEF Extends
<1>6. \A m \in Modules : Advances(m)
  BY DEF Advances
<1>. QED
  BY <1>2, <1>3, <1>4, <1>5, <1>6 DEF TablesInv

\* The metas of a registration that begins to change the tables.
LEMMA PushKeepsTables ==
    ASSUME TypeInv, TypeInv', LockDiscipline, RegistryInv, TablesInv, NEW t \in Threads,
           PushExports(t)
    PROVE  TablesInv' /\ Extends /\ \A m \in Modules : Advances(m)
<1>. USE DEF TypeInv
<1>1. /\ Len(ipcExports) \in Nat /\ Len(modules) \in Nat
      /\ \A m \in Modules : /\ moduleSockets[m] \in Nat /\ moduleBase[m] \in Nat
                            /\ ExportLists[m] \subseteq Seq(Functions)
  <2>1. Len(ipcExports) \in Nat /\ Len(modules) \in Nat
    BY DEF TypeOK
  <2>2. \A m \in Modules : moduleSockets[m] \in Nat /\ moduleBase[m] \in Nat
    BY DEF TypeOK
  <2>. QED
    BY <2>1, <2>2, IpcDispatchAssumption
<1>2. /\ Len(reg[t].entries) \in Nat
      /\ Len(ipcExports') = Len(ipcExports) + Len(reg[t].entries)
      /\ \A i \in 1 .. Len(ipcExports) : ipcExports'[i] = ipcExports[i]
      /\ \A i \in 1 .. Len(reg[t].entries) : ipcExports'[Len(ipcExports) + i] =
             [module |-> reg[t].module, function |-> reg[t].entries[i], sock |-> NextSocket]
      /\ reg'[t].pc = "register" /\ reg'[t].module = reg[t].module /\ reg'[t].entries = reg[t].entries
      /\ reg'[t].base = Len(ipcExports) /\ reg'[t].sock = NextSocket
      /\ \A u \in Threads \ {t} : reg'[u] = reg[u]
  BY PushExportsType
<1>3. UNCHANGED <<modules, moduleIndex, moduleSockets, moduleBase>> /\ writer = NoThread
  BY DEF PushExports, CanWrite, registry
<1>4. \A u \in Threads : reg[u].pc \notin {"register", "publish"}
  BY <1>3, IpcDispatchAssumption DEF LockDiscipline
<1>5. Extends
  BY <1>1, <1>2 DEF Extends
<1>6. \A m \in Modules : ~Publishing(m)
  BY <1>4 DEF Publishing
<1>7. \A m \in Modules : Advances(m)
  BY <1>3, <1>6 DEF Advances
<1>8. ASSUME NEW m \in Modules, NEW entries \in Seq(Functions),
             InTable(m, entries, moduleBase[m], moduleSockets[m])
      PROVE  InTable(m, entries, moduleBase[m], moduleSockets[m])'
  <2>1. PICK b \in Nat, x \in Nat : b = moduleBase[m] /\ x = moduleSockets[m]
    BY <1>1
  <2>2. InTable(m, entries, b, x)
    BY <1>8, <2>1
  <2>3. InTable(m, entries, b, x)'
    BY <1>5, <2>2, InTableStays
  <2>. QED
    BY <1>3, <2>1, <2>3 DEF InTable
<1>9. ASSUME NEW m \in Modules, moduleSockets'[m] # 0
      PROVE  Published(m)' /\ (Current(m)' \/ Publishing(m)')
  <2>1. Published(m) /\ Current(m)
    BY <1>3, <1>6, <1>9 DEF TablesInv
  <2>2. Published(m)'
    <3>1. PICK entries \in ExportLists[m] : InTable(m, entries, moduleBase[m], moduleSockets[m])
      BY <2>1 DEF Published
    <3>2. InTable(m, entries, moduleBase[m], moduleSockets[m])'
      BY <1>1, <1>8, <3>1
    <3>. QED
      BY <3>2 DEF Published
  <2>3. Current(m)'
    <3>1. moduleIndex[m] # 0
      BY <1>3, <1>9 DEF RegistryInv
    <3>2. PICK entries \in Seq(Functions) : entries = modules[moduleIndex[m]].entries
      BY <1>1, <3>1, WrapperKind
    <3>3. InTable(m, entries, moduleBase[m], moduleSockets[m])
      BY <2>1, <3>2 DEF Current
    <3>4. InTable(m, entries, moduleBase[m], moduleSockets[m])'
      BY <1>8, <3>3
    <3>. QED
      BY <1>3, <3>2, <3>4 DEF Current
  <2>. QED
    BY <2>2, <2>3
<1>10. Pushed(t)'
  <2>1. InTable(reg[t].module, reg[t].entries, reg[t].base, reg[t].sock)'
    BY <1>1, <1>2 DEF InTable
  <2>2. \A m \in Modules : moduleSockets'[m] < reg'[t].sock
    BY <1>1, <1>2, <1>3 DEF TablesInv, NextSocket
  <2>3. reg'[t].sock <= Len(modules') + 1
    BY <1>1, <1>2, <1>3 DEF NextSocket
  <2>. QED
    BY <1>2, <2>1, <2>2, <2>3 DEF Pushed
<1>11. \A m \in Modules : moduleSockets'[m] <= Len(modules')
  BY <1>3 DEF TablesInv
<1>12. \A u \in Threads : reg'[u].pc \in {"register", "publish"} => Pushed(u)'
  BY <1>2, <1>4, <1>10
<1>. QED
  BY <1>5, <1>7, <1>9, <1>11, <1>12 DEF TablesInv

\* What is published has been pushed.
LEMMA PublishKeepsTables ==
    ASSUME TypeInv, LockDiscipline, RegistryInv, TablesInv, NEW t \in Threads, PublishSocket(t)
    PROVE  TablesInv' /\ Extends /\ \A m \in Modules : Advances(m)
<1>. USE DEF TypeInv
<1>. DEFINE l == reg[t].module
<1>1. /\ Len(ipcExports) \in Nat /\ Len(modules) \in Nat
      /\ \A m \in Modules : moduleSockets[m] \in Nat
      /\ \A u \in Threads : reg[u] \in Reg
  BY DEF TypeOK
<1>2. /\ reg[t].pc = "publish" /\ l \in Modules /\ reg[t].entries \in ExportLists[l]
      /\ reg[t].sock \in Nat
  BY <1>1 DEF PublishSocket, Publishes, Reg, RegistryInv
<1>3. /\ moduleSockets' = [moduleSockets EXCEPT ![l] = reg[t].sock]
      /\ moduleBase' = [moduleBase EXCEPT ![l] = reg[t].base]
      /\ UNCHANGED <<ipcExports, modules, moduleIndex>>
      /\ reg'[t].pc = "idle" /\ \A u \in Threads \ {t} : reg'[u] = reg[u]
  BY DEF PublishSocket, Publishes, IdleReg, TypeOK, registry
<1>4. Pushed(t)
  BY <1>2 DEF TablesInv
<1>5. Extends
  BY <1>1, <1>3 DEF Extends
<1>6. \A u \in Threads \ {t} : reg[u].pc \notin {"register", "publish"}
  BY <1>2 DEF LockDiscipline
<1>7. /\ moduleSockets'[l] = reg[t].sock /\ moduleBase'[l] = reg[t].base
      /\ \A m \in Modules \ {l} : /\ moduleSockets'[m] = moduleSockets[m]
                                  /\ moduleBase'[m] = moduleBase[m]
                                  /\ ~Publishing(m)
  <2>1. \A m \in Modules \ {l} : ~Publishing(m)
    BY <1>6 DEF Publishing
  <2>. QED
    BY <1>2, <1>3, <2>1 DEF TypeOK
<1>. HIDE DEF l
<1>8. \A m \in Modules : Advances(m)
  <2>1. moduleSockets[l] < moduleSockets'[l]
    BY <1>2, <1>4, <1>7 DEF Pushed
  <2>. QED
    BY <1>7, <2>1 DEF Advances
<1>9. \A m \in Modules : moduleSockets'[m] <= Len(modules')
  <2>1. reg[t].sock <= Len(modules)
    BY <1>2, <1>4 DEF Pushed
  <2>. QED
    BY <1>3, <1>7, <2>1 DEF TablesInv
<1>10. ASSUME NEW m \in Modules, moduleSockets'[m] # 0
       PROVE  Published(m)' /\ (Current(m)' \/ Publishing(m)')
  <2>1. CASE m = l
    <3>1. PICK entries \in ExportLists[m] : entries = reg[t].entries
      BY <1>2, <2>1
    <3>2. modules'[moduleIndex'[m]].entries = entries
      BY <1>2, <1>3, <1>4, <2>1, <3>1 DEF Pushed, l
    <3>3. InTable(m, entries, reg[t].base, reg[t].sock)
      BY <1>4, <2>1, <3>1 DEF Pushed, l
    <3>4. InTable(m, entries, moduleBase[m], moduleSockets[m])'
      BY <1>3, <1>7, <2>1, <3>3 DEF InTable
    <3>. QED
      BY <3>2, <3>4 DEF Published, Current
  <2>2. CASE m # l
    <3>1. Published(m) /\ Current(m)
      BY <1>7, <1>10, <2>2 DEF TablesInv
    <3>2. /\ moduleSockets'[m] = moduleSockets[m]
          /\ moduleBase'[m] = moduleBase[m]
          /\ moduleIndex'[m] = moduleIndex[m]
      BY <1>3, <1>7, <2>2
    <3>3. Published(m)'
      <4>1. PICK entries \in ExportLists[m] : InTable(m, entries, moduleBase[m], moduleSockets[m])
        BY <3>1 DEF Published
      <4>2. InTable(m, entries, moduleBase[m], moduleSockets[m])'
        BY <1>3, <3>2, <4>1 DEF InTable
      <4>. QED
        BY <4>2 DEF Published
    <3>4. Current(m)'
      BY <1>3, <3>1, <3>2 DEF Current, InTable
    <3>. QED
      BY <3>3, <3>4
  <2>. QED
    BY <2>1, <2>2
<1>11. \A u \in Threads : reg'[u].pc \notin {"register", "publish"}
  BY <1>3, <1>6
<1>. QED
  BY <1>5, <1>8, <1>9, <1>10, <1>11 DEF TablesInv

\* What REGISTRY is added to keeps the entries of the other modules.
LEMMA OtherEntriesStay ==
    ASSUME TypeOK, NEW m \in Modules, NEW kind \in Kinds, NEW entries \in Seq(Functions),
           AddToRegistry(m, kind, entries)
    PROVE  /\ Len(modules) \in Nat /\ Len(modules') = Len(modules) + 1
           /\ modules'[moduleIndex'[m]].entries = entries
           /\ \A l \in Modules \ {m} : moduleIndex[l] # 0 =>
                  modules'[moduleIndex'[l]].entries = modules[moduleIndex[l]].entries
<1>1. /\ Len(modules) \in Nat /\ Len(modules') = Len(modules) + 1
      /\ modules'[Len(modules) + 1] = [name |-> m, kind |-> kind, entries |-> entries]
      /\ \A i \in 1 .. Len(modules) : modules'[i] = modules[i]
      /\ moduleIndex' = [moduleIndex EXCEPT ![m] = Len(modules) + 1]
  BY AddToRegistryType
<1>2. moduleIndex \in [Modules -> 0 .. Len(modules)]
  BY DEF TypeOK
<1>3. moduleIndex'[m] = Len(modules) + 1 /\ \A l \in Modules \ {m} : moduleIndex'[l] = moduleIndex[l]
  BY <1>1, <1>2
<1>4. \A l \in Modules : moduleIndex[l] # 0 => moduleIndex[l] \in 1 .. Len(modules)
  BY <1>1, <1>2
<1>. QED
  BY <1>1, <1>3, <1>4

\* The tables agree after every step, and only grow.
LEMMA TablesStep ==
    ASSUME TypeInv, TypeInv', LockDiscipline, RegistryInv, TablesInv, [Next]_vars
    PROVE  TablesInv' /\ Extends /\ \A m \in Modules : Advances(m)
<1>. USE DEF TypeInv
<1>a. /\ Len(modules) \in Nat
      /\ \A u \in Threads : reg[u].module \in Modules
  <2>1. Len(modules) \in Nat /\ \A u \in Threads : reg[u] \in Reg
    BY DEF TypeOK
  <2>. QED
    BY <2>1 DEF Reg
<1>b. ASSUME NEW t \in Threads, reg[t].pc \in {"register", "publish"}
      PROVE  /\ Pushed(t)
             /\ reg[t].pc = "publish" =>
                    /\ reg[t].sock <= Len(modules)
                    /\ modules[moduleIndex[reg[t].module]].entries = reg[t].entries
  BY <1>b DEF TablesInv, Pushed
<1>1. ASSUME NEW t \in Threads, NEW m \in Modules, NEW entries \in ExportLists[m],
             StartProcess(t, m, entries)
      PROVE  TablesInv' /\ Extends /\ \A l \in Modules : Advances(l)
  <2>1. /\ reg'[t].pc = "lock" /\ reg[t].pc = "idle"
        /\ \A u \in Threads \ {t} : reg'[u] = reg[u]
    BY <1>1, StartProcessType DEF StartProcess, MayRegister
  <2>2. UNCHANGED <<modules, moduleIndex, ipcExports, moduleSockets, moduleBase>>
    BY <1>1 DEF StartProcess, registry, ipcTables
  <2>3. \A l \in Modules : Publishing(l) => Publishing(l)'
    BY <2>1 DEF Publishing
  <2>. QED
    BY <1>a, <1>b, <2>1, <2>2, <2>3, TablesKept
<1>2. ASSUME NEW t \in Threads, RegisterProcess(t)
      PROVE  TablesInv' /\ Extends /\ \A l \in Modules : Advances(l)
  <2>. DEFINE m == reg[t].module
  <2>1. /\ m \in Modules /\ reg[t].entries \in Seq(Functions) /\ "process" \in Kinds
        /\ reg'[t].pc = "publish" /\ reg'[t].module = m
        /\ reg'[t].entries = reg[t].entries
        /\ reg'[t].base = reg[t].base /\ reg'[t].sock = reg[t].sock
        /\ \A u \in Threads \ {t} : reg'[u] = reg[u]
    BY <1>2, RegisterProcessType DEF Kinds
  <2>2. /\ UNCHANGED <<ipcExports, moduleSockets, moduleBase>> /\ reg[t].pc = "register"
        /\ AddToRegistry(m, "process", reg[t].entries)
    BY <1>2 DEF RegisterProcess, ipcTables
  <2>3. /\ Len(modules') = Len(modules) + 1
        /\ modules'[moduleIndex'[m]].entries = reg[t].entries
        /\ \A l \in Modules \ {m} : moduleIndex[l] # 0 =>
               modules'[moduleIndex'[l]].entries = modules[moduleIndex[l]].entries
    BY <2>1, <2>2, OtherEntriesStay
  <2>4. \A u \in Threads \ {t} : reg[u].pc \notin {"register", "publish"}
    BY <2>2 DEF LockDiscipline
  <2>5. Publishing(m)' /\ \A l \in Modules : Publishing(l) => Publishing(l)'
    <3>1. Publishing(m)'
      BY <2>1 DEF Publishing
    <3>2. \A l \in Modules : ~Publishing(l)
      BY <2>2, <2>4 DEF Publishing
    <3>. QED
      BY <3>1, <3>2
  <2>6. \A l \in Modules : moduleSockets[l] # 0 =>
            \/ modules'[moduleIndex'[l]].entries = modules[moduleIndex[l]].entries
            \/ Publishing(l)'
    <3>1. \A l \in Modules : moduleSockets[l] # 0 => moduleIndex[l] # 0
      BY DEF RegistryInv
    <3>2. ASSUME NEW l \in Modules, l = m
          PROVE  Publishing(l)'
      BY <2>1, <3>2 DEF Publishing
    <3>. HIDE DEF m
    <3>. QED
      BY <2>3, <3>1, <3>2
  <2>7. reg[t].sock <= Len(modules')
    <3>1. reg[t].sock <= Len(modules) + 1
      BY <1>b, <2>2 DEF Pushed
    <3>. QED
      BY <2>3, <3>1
  <2>8. Len(modules) <= Len(modules')
    BY <1>a, <2>3
  <2>9. ASSUME NEW u \in Threads, reg'[u].pc \in {"register", "publish"}
        PROVE  /\ reg[u].pc \in {"register", "publish"}
               /\ reg'[u].module = reg[u].module /\ reg'[u].entries = reg[u].entries
               /\ reg'[u].base = reg[u].base /\ reg'[u].sock = reg[u].sock
               /\ reg'[u].pc = "publish" =>
                      /\ reg[u].sock <= Len(modules')
                      /\ modules'[moduleIndex'[reg[u].module]].entries = reg[u].entries
    BY <2>1, <2>2, <2>3, <2>4, <2>7, <2>9
  <2>. HIDE DEF m
  <2>. QED
    BY <2>2, <2>5, <2>6, <2>8, <2>9, TablesKept
<1>3. ASSUME NEW t \in Threads, NEW m \in Modules, NEW entries \in ExportLists[m],
             RegisterArtifact(t, m, entries)
      PROVE  TablesInv' /\ Extends /\ \A l \in Modules : Advances(l)
  <2>1. /\ UNCHANGED <<ipcExports, moduleSockets, moduleBase, reg>>
        /\ AddToRegistry(m, "artifact", entries) /\ KindsOf(m) = {}
    BY <1>3 DEF RegisterArtifact, ipcTables
  <2>2. entries \in Seq(Functions) /\ "artifact" \in Kinds
    BY IpcDispatchAssumption DEF Kinds
  <2>3. /\ Len(modules') = Len(modules) + 1
        /\ \A l \in Modules \ {m} : moduleIndex[l] # 0 =>
               modules'[moduleIndex'[l]].entries = modules[moduleIndex[l]].entries
    BY <2>1, <2>2, OtherEntriesStay
  <2>4. moduleIndex[m] = 0 /\ \A u \in Threads : reg[u].pc # "idle" => reg[u].module # m
    <3>1. /\ \A i \in 1 .. Len(modules) : modules[i].name # m
          /\ \A u \in Threads : reg[u].pc # "idle" => reg[u].module # m
      BY <2>1, KindsOfNames
    <3>2. moduleIndex[m] # 0 => moduleIndex[m] \in 1 .. Len(modules)
      BY <1>a DEF TypeOK
    <3>. QED
      BY <3>1, <3>2 DEF RegistryInv
  <2>5. \A l \in Modules : moduleSockets[l] # 0 =>
            modules'[moduleIndex'[l]].entries = modules[moduleIndex[l]].entries
    BY <2>3, <2>4 DEF RegistryInv
  <2>6. Len(modules) <= Len(modules')
    BY <1>a, <2>3
  <2>7. \A l \in Modules : Publishing(l) => Publishing(l)'
    BY <2>1 DEF Publishing
  <2>8. ASSUME NEW u \in Threads, reg[u].pc = "publish"
        PROVE  /\ reg[u].sock <= Len(modules')
               /\ modules'[moduleIndex'[reg[u].module]].entries = reg[u].entries
    <3>1. /\ reg[u].sock <= Len(modules)
          /\ modules[moduleIndex[reg[u].module]].entries = reg[u].entries
      BY <1>b, <2>8
    <3>2. reg[u].module \in Modules \ {m} /\ moduleIndex[reg[u].module] # 0
      BY <1>a, <2>4, <2>8 DEF RegistryInv
    <3>3. reg[u].sock \in Nat
      BY DEF TypeOK, Reg
    <3>. QED
      BY <1>a, <2>3, <3>1, <3>2, <3>3
  <2>. QED
    BY <2>1, <2>5, <2>6, <2>7, <2>8, TablesKept
<1>4. CASE UNCHANGED <<modules, moduleIndex, ipcExports, moduleSockets, moduleBase, reg>>
  <2>1. Len(modules) <= Len(modules') /\ \A l \in Modules : Publishing(l) => Publishing(l)'
    BY <1>4, <1>a DEF Publishing
  <2>. QED
    BY <1>4, <1>b, <2>1, TablesKept
<1>5. ASSUME NEW t \in Threads, \/ DispatchStep(t) \/ Return(t)
                                \/ \E m \in Modules, f \in Functions : BeginCall(t, m, f)
      PROVE  UNCHANGED <<modules, moduleIndex, ipcExports, moduleSockets, moduleBase, reg>>
  BY <1>5, CallStepFrame
<1>6. CASE UNCHANGED vars
  BY <1>4, <1>6 DEF vars, ipcTables, registry
<1>. QED
  BY <1>1, <1>2, <1>3, <1>4, <1>5, <1>6, PushKeepsTables, PublishKeepsTables
     DEF Next, RegistrationStep

(* ------------------------------ what is sent ------------------------------ *)

\* Some meta of m has the socket s.
MetaWith(m, s) ==
    \E i \in 1 .. Len(ipcExports) : ipcExports[i].module = m /\ ipcExports[i].sock = s

\* The entry idx of the table is the one that c calls, of the process it calls.
Exact(c, idx) ==
    /\ idx < Len(ipcExports)
    /\ ipcExports[idx + 1] = [module |-> c.module, function |-> c.function, sock |-> c.sock]

\* The CALL for c may be sent with the context x.
Matches(c, x) ==
    /\ x \in Ctx
    /\ x.sock = c.sock
    /\ c.sock = moduleSockets[c.module] => Exact(c, x.idx)
    /\ OneProgram(c.module) =>
           /\ x.idx < Len(ipcExports)
           /\ ipcExports[x.idx + 1].module = c.module
           /\ ipcExports[x.idx + 1].function = c.function
           /\ x.sock <= ipcExports[x.idx + 1].sock

\* The answers the dispatch c has collected so far, with x for its context, fit
\* together: the socket is one of the module's, not a later one than the one
\* published, the entry is one of its table, and what they amount to is the
\* export that was called, if the process is still the one that serves the module.
\* While the entry waits for its base index it may be that of a later process,
\* but then that one is about to be published.
Wire(c, x) ==
    /\ c.sock # 0 => /\ <<>> \in ExportLists[c.module] \/ MetaWith(c.module, c.sock)
                     /\ c.sock <= moduleSockets[c.module]
    /\ c.pc = "base" => /\ c.sock # 0
                        /\ \E entries \in ExportLists[c.module] :
                               c.entry < Len(entries) /\ entries[c.entry + 1] = c.function
                        /\ c.sock = moduleSockets[c.module] =>
                               \/ Exact(c, moduleBase[c.module] + c.entry)
                               \/ Publishing(c.module)
    /\ c.pc = "wrapper" /\ c.sock # 0 => Matches(c, x)
    /\ c.pc = "roundtrip" => Matches(c, c.sent) /\ c.sock # 0

WireInv == \A t \in Threads : \A i \in 1 .. Len(calls[t]) : Wire(calls[t][i], ctx[t])

\* What fits together stays so while the tables grow.
LEMMA WireStays ==
    ASSUME TypeInv, TypeInv', Extends, \A m \in Modules : Advances(m),
           NEW c \in Call, NEW x, Wire(c, x)
    PROVE  Wire(c, x)'
<1>1. /\ Len(ipcExports) \in Nat /\ Len(ipcExports') \in Nat
      /\ Len(ipcExports) <= Len(ipcExports')
      /\ \A i \in 1 .. Len(ipcExports) : ipcExports'[i] = ipcExports[i]
  BY DEF TypeInv, TypeOK, Extends
<1>2. /\ c.module \in Modules /\ c.sock \in Nat /\ c.entry \in Nat
      /\ moduleSockets[c.module] \in Nat /\ moduleSockets'[c.module] \in Nat
      /\ moduleBase[c.module] \in Nat
  <2>1. c.module \in Modules /\ c.sock \in Nat /\ c.entry \in Nat
    BY DEF Call
  <2>2. /\ moduleSockets[c.module] \in Nat /\ moduleSockets'[c.module] \in Nat
        /\ moduleBase[c.module] \in Nat
    BY <2>1 DEF TypeInv, TypeOK
  <2>. QED
    BY <2>1, <2>2
<1>3. Advances(c.module)
  BY <1>2
<1>4. ASSUME NEW s, MetaWith(c.module, s)
      PROVE  MetaWith(c.module, s)'
  BY <1>1, <1>4 DEF MetaWith
<1>5. ASSUME NEW i \in Nat, Exact(c, i)
      PROVE  Exact(c, i)'
  <2>1. i + 1 \in 1 .. Len(ipcExports) /\ i < Len(ipcExports')
    BY <1>1, <1>5 DEF Exact
  <2>. QED
    BY <1>1, <1>5, <2>1 DEF Exact
<1>6. c.sock # 0 => /\ <<>> \in ExportLists[c.module] \/ MetaWith(c.module, c.sock)'
                    /\ c.sock <= moduleSockets'[c.module]
  BY <1>2, <1>3, <1>4 DEF Wire, Advances
\* Until it is published again, c is where it was.
<1>7. ASSUME c.sock # 0, c.sock = moduleSockets'[c.module]
      PROVE  /\ c.sock = moduleSockets[c.module] /\ moduleBase'[c.module] = moduleBase[c.module]
             /\ Publishing(c.module) => Publishing(c.module)'
  <2>1. c.sock <= moduleSockets[c.module]
    BY <1>7 DEF Wire
  <2>. QED
    BY <1>2, <1>3, <1>7, <2>1 DEF Advances
<1>8. ASSUME NEW y, Matches(c, y), c.sock # 0
      PROVE  Matches(c, y)'
  <2>1. y.idx \in Nat
    BY <1>8 DEF Matches, Ctx
  <2>2. c.sock = moduleSockets'[c.module] => Exact(c, y.idx)'
    BY <1>5, <1>7, <1>8, <2>1 DEF Matches
  <2>3. ASSUME OneProgram(c.module)
        PROVE  /\ y.idx < Len(ipcExports')
               /\ ipcExports'[y.idx + 1].module = c.module
               /\ ipcExports'[y.idx + 1].function = c.function
               /\ y.sock <= ipcExports'[y.idx + 1].sock
    <3>1. /\ y.idx < Len(ipcExports)
          /\ ipcExports[y.idx + 1].module = c.module
          /\ ipcExports[y.idx + 1].function = c.function
          /\ y.sock <= ipcExports[y.idx + 1].sock
      BY <1>8, <2>3 DEF Matches
    <3>2. y.idx + 1 \in 1 .. Len(ipcExports) /\ y.idx < Len(ipcExports')
      BY <1>1, <2>1, <3>1
    <3>. QED
      BY <1>1, <3>1, <3>2
  <2>4. y \in Ctx /\ y.sock = c.sock
    BY <1>8 DEF Matches
  <2>. QED
    BY <2>2, <2>3, <2>4 DEF Matches, OneProgram
<1>9. ASSUME c.pc = "base"
      PROVE  c.sock = moduleSockets'[c.module] =>
                 \/ Exact(c, moduleBase[c.module] + c.entry)'
                 \/ Publishing(c.module)'
  <2>. SUFFICES ASSUME c.sock = moduleSockets'[c.module]
                PROVE  Exact(c, moduleBase[c.module] + c.entry)' \/ Publishing(c.module)'
    OBVIOUS
  <2>1. PICK i \in Nat : i = moduleBase[c.module] + c.entry
    BY <1>2
  <2>2. c.sock # 0 /\ (Exact(c, i) \/ Publishing(c.module))
    BY <1>7, <1>9, <2>1 DEF Wire
  <2>3. CASE Exact(c, i)
    <3>1. Exact(c, i)'
      BY <1>5, <2>3
    <3>2. moduleBase'[c.module] + c.entry = i
      BY <1>7, <2>1, <2>2
    <3>. QED
      BY <3>1, <3>2 DEF Exact
  <2>. QED
    BY <1>7, <2>2, <2>3
<1>10. /\ c.pc = "base" => /\ c.sock # 0
                           /\ \E entries \in ExportLists[c.module] :
                                  c.entry < Len(entries) /\ entries[c.entry + 1] = c.function
       /\ c.pc = "wrapper" /\ c.sock # 0 => Matches(c, x)
       /\ c.pc = "roundtrip" => Matches(c, c.sent) /\ c.sock # 0
  BY DEF Wire
<1>. QED
  BY <1>6, <1>8, <1>9, <1>10 DEF Wire

\* The lookup of the socket adds one of the module's ...
LEMMA LookupWire ==
    ASSUME TypeInv, TablesInv, NEW c \in Call, NEW x
    PROVE  Wire([c EXCEPT !.pc = "find", !.sock = moduleSockets[c.module]], x)
<1>. DEFINE m == c.module
            d == [c EXCEPT !.pc = "find", !.sock = moduleSockets[m]]
<1>1. /\ m \in Modules /\ moduleSockets[m] \in Nat /\ moduleBase[m] \in Nat
      /\ Len(ipcExports) \in Nat
  BY DEF Call, TypeInv, TypeOK
<1>2. d.pc = "find" /\ d.sock = moduleSockets[m] /\ d.module = m
  BY DEF Call
<1>3. ASSUME moduleSockets[m] # 0
      PROVE  <<>> \in ExportLists[m] \/ MetaWith(m, moduleSockets[m])
  <2>1. PICK entries \in ExportLists[m] : InTable(m, entries, moduleBase[m], moduleSockets[m])
    BY <1>1, <1>3 DEF TablesInv, Published
  <2>2. entries \in Seq(Functions)
    BY <1>1, IpcDispatchAssumption
  <2>3. CASE entries # <<>>
    <3>1. 1 \in 1 .. Len(entries) /\ moduleBase[m] + 1 \in 1 .. Len(ipcExports)
      BY <1>1, <2>1, <2>2, <2>3 DEF InTable
    <3>2. ipcExports[moduleBase[m] + 1] =
              [module |-> m, function |-> entries[1], sock |-> moduleSockets[m]]
      BY <2>1, <3>1 DEF InTable
    <3>. QED
      BY <3>1, <3>2 DEF MetaWith
  <2>. QED
    BY <2>3
<1>. HIDE DEF d
<1>4. Wire(d, x)
  BY <1>1, <1>2, <1>3 DEF Wire
<1>. QED
  BY <1>4 DEF d

\* The entry of a published table.
LEMMA EntryInTable ==
    ASSUME TypeInv, NEW c \in Call, NEW entries \in Seq(Functions), NEW sock \in Nat,
           InTable(c.module, entries, moduleBase[c.module], sock),
           c.entry < Len(entries), entries[c.entry + 1] = c.function
    PROVE  LET idx == moduleBase[c.module] + c.entry
           IN  /\ idx < Len(ipcExports)
               /\ ipcExports[idx + 1] = [module |-> c.module, function |-> c.function, sock |-> sock]
<1>. DEFINE b == moduleBase[c.module]
<1>1. b \in Nat /\ c.entry \in Nat /\ Len(entries) \in Nat /\ Len(ipcExports) \in Nat
  BY DEF Call, TypeInv, TypeOK
<1>2. /\ b + Len(entries) <= Len(ipcExports)
      /\ \A i \in 1 .. Len(entries) :
             ipcExports[b + i] = [module |-> c.module, function |-> entries[i], sock |-> sock]
  BY DEF InTable
<1>. HIDE DEF b
<1>3. c.entry + 1 \in 1 .. Len(entries) /\ (b + c.entry) + 1 = b + (c.entry + 1)
      /\ b + c.entry < Len(ipcExports)
  BY <1>1, <1>2
<1>. QED
  BY <1>2, <1>3 DEF b

\* ... find_export an entry of its table, or of one that is about to be published ...
LEMMA FindWire ==
    ASSUME TypeInv, LockDiscipline, RegistryInv, TablesInv, NEW t \in Threads, FindExport(t),
           NEW x, Wire(Top(t), x)
    PROVE  \E d \in Call : calls' = WithTop(t, d) /\ Wire(d, x)
<1>. DEFINE c == Top(t)
            m == modules[moduleIndex[c.module]]
            d == [c EXCEPT !.pc = IF c.sock # 0 THEN "base" ELSE "wrapper",
                           !.entry = EntryIndex(m.entries, c.function), !.kind = m.kind]
<1>1. /\ calls[t] # <<>> /\ d \in Call /\ calls' = WithTop(t, d) /\ moduleIndex[c.module] # 0
      /\ d.entry < Len(m.entries) /\ m.entries[d.entry + 1] = c.function
  BY FindExportType DEF FindExport, TypeInv
<1>2. c \in Call /\ c.module \in Modules
  BY <1>1, TopType DEF Call, TypeInv
<1>3. m.entries \in ExportLists[c.module] /\ m.entries \in Seq(Functions)
  BY <1>1, <1>2, WrapperKind, IpcDispatchAssumption DEF TypeInv
<1>4. Wire(c, x)
  OBVIOUS
<1>. HIDE DEF c
<1>5. /\ d.pc = (IF c.sock # 0 THEN "base" ELSE "wrapper") /\ d.sock = c.sock
      /\ d.module = c.module /\ d.function = c.function
  BY <1>2 DEF Call
<1>. HIDE DEF d
<1>6. ASSUME d.sock # 0, d.sock = moduleSockets[d.module]
      PROVE  Exact(d, moduleBase[d.module] + d.entry) \/ Publishing(d.module)
  <2>1. Current(d.module) \/ Publishing(d.module)
    BY <1>2, <1>5, <1>6 DEF TablesInv
  <2>2. CASE Current(d.module)
    <3>1. InTable(d.module, m.entries, moduleBase[d.module], d.sock)
      BY <1>5, <1>6, <2>2 DEF Current
    <3>2. d.sock \in Nat
      BY <1>1 DEF Call
    <3>. HIDE DEF m
    <3>. QED
      BY <1>1, <1>3, <1>5, <3>1, <3>2, EntryInTable DEF Exact
  <2>. QED
    BY <2>1, <2>2
<1>. HIDE DEF m
<1>7. Wire(d, x)
  <2>1. d.pc = "base" => \E entries \in ExportLists[d.module] :
                             d.entry < Len(entries) /\ entries[d.entry + 1] = d.function
    BY <1>1, <1>3, <1>5
  <2>2. d.sock # 0 => /\ <<>> \in ExportLists[d.module] \/ MetaWith(d.module, d.sock)
                      /\ d.sock <= moduleSockets[d.module]
    BY <1>4, <1>5 DEF Wire
  <2>. QED
    BY <1>5, <1>6, <2>1, <2>2 DEF Wire
<1>. QED
  BY <1>1, <1>7

\* ... and the base index, which cannot be read while one is published, makes the
\* two one meta of the module: that of the process called, if it still serves the
\* module, and of a later one of the same program otherwise.
LEMMA ContextWire ==
    ASSUME TypeInv, LockDiscipline, TablesInv, NEW c \in Call, c.pc = "base",
           moduleSockets[c.module] # 0, writer = NoThread, NEW y, Wire(c, y)
    PROVE  LET x == [idx |-> moduleBase[c.module] + c.entry, sock |-> c.sock]
           IN  Wire([c EXCEPT !.pc = "wrapper"], x)
<1>. DEFINE m == c.module
            x == [idx |-> moduleBase[m] + c.entry, sock |-> c.sock]
            d == [c EXCEPT !.pc = "wrapper"]
<1>1. /\ m \in Modules /\ c.sock \in Nat /\ c.entry \in Nat
      /\ moduleSockets[m] \in Nat /\ moduleBase[m] \in Nat /\ Len(ipcExports) \in Nat
  BY DEF Call, TypeInv, TypeOK
<1>2. PICK entries \in ExportLists[m] : c.entry < Len(entries) /\ entries[c.entry + 1] = c.function
  BY DEF Wire
<1>3. entries \in Seq(Functions)
  BY <1>1, <1>2, IpcDispatchAssumption
<1>4. ~Publishing(m)
  BY IpcDispatchAssumption DEF Publishing, LockDiscipline
<1>5. x \in Ctx /\ x.idx = moduleBase[m] + c.entry /\ x.sock = c.sock
  BY <1>1 DEF Ctx
<1>6. /\ c.sock # 0 /\ c.sock <= moduleSockets[m]
      /\ <<>> \in ExportLists[m] \/ MetaWith(m, c.sock)
      /\ c.sock = moduleSockets[m] => Exact(c, x.idx)
  BY <1>4, <1>5 DEF Wire
<1>. HIDE DEF x
<1>7. ASSUME OneProgram(m)
      PROVE  /\ x.idx < Len(ipcExports)
             /\ ipcExports[x.idx + 1].module = m
             /\ ipcExports[x.idx + 1].function = c.function
             /\ x.sock <= ipcExports[x.idx + 1].sock
  <2>1. PICK e \in ExportLists[m] : InTable(m, e, moduleBase[m], moduleSockets[m])
    BY <1>1 DEF TablesInv, Published
  <2>2. InTable(m, entries, moduleBase[m], moduleSockets[m])
    BY <1>2, <1>7, <2>1 DEF OneProgram
  <2>3. /\ x.idx < Len(ipcExports)
        /\ ipcExports[x.idx + 1] =
               [module |-> m, function |-> c.function, sock |-> moduleSockets[m]]
    BY <1>1, <1>2, <1>3, <1>5, <2>2, EntryInTable
  <2>. QED
    BY <1>5, <1>6, <2>3
<1>8. Matches(c, x)
  BY <1>5, <1>6, <1>7 DEF Matches
<1>9. d.pc = "wrapper" /\ d.module = m /\ d.function = c.function /\ d.sock = c.sock
  BY DEF Call
<1>. HIDE DEF d
<1>10. Wire(d, x)
  BY <1>6, <1>8, <1>9 DEF Wire, Matches, Exact
<1>. QED
  BY <1>10 DEF d, x

\* Every step keeps what dispatches have collected fitting together.
LEMMA WireStep ==
    ASSUME TypeInv, TypeInv', LockDiscipline, RegistryInv, CallsInv, TablesInv,
           WireInv, [Next]_vars
    PROVE  WireInv'
<1>. USE DEF TypeInv, CallsInv
<1>a. /\ \A t \in Threads : calls[t] \in Seq(Call)
      /\ ctx \in [Threads -> Ctx \cup {NoCtx}]
      /\ Extends /\ \A m \in Modules : Advances(m)
  BY TablesStep DEF TypeOK
<1>b. ASSUME NEW c \in Call, NEW x, Wire(c, x)
      PROVE  Wire(c, x)'
  BY <1>a, <1>b, WireStays
<1>c. ASSUME NEW t \in Threads, NEW i \in 1 .. Len(calls[t])
      PROVE  calls[t][i] \in Call /\ Wire(calls[t][i], ctx[t])
  BY <1>a DEF WireInv
<1>d. ASSUME NEW t \in Threads, NEW i \in 1 .. Len(calls[t])
      PROVE  /\ \E c, x : c \in Call /\ c = calls[t][i] /\ x = ctx[t] /\ Wire(c, x)'
             /\ \E c \in Call : c = calls[t][i] /\ (c.pc # "wrapper" => \A x : Wire(c, x)')
  <2>1. PICK c, x : c \in Call /\ c = calls[t][i] /\ x = ctx[t] /\ Wire(c, x)
    BY <1>c
  <2>2. Wire(c, x)'
    BY <1>b, <2>1
  <2>3. c.pc # "wrapper" => \A y : Wire(c, y)'
    BY <2>2 DEF Wire
  <2>. QED
    BY <2>1, <2>2, <2>3
<1>1. CASE UNCHANGED <<calls, ctx>>
  <2>1. ASSUME NEW t \in Threads, NEW i \in 1 .. Len(calls'[t])
        PROVE  Wire(calls[t][i], ctx[t])'
    <3>1. PICK c, x : c \in Call /\ c = calls[t][i] /\ x = ctx[t] /\ Wire(c, x)'
      BY <1>1, <1>d
    <3>. QED
      BY <1>1, <3>1 DEF Wire, Matches, MetaWith, Exact, Publishing
  <2>. QED
    BY <2>1 DEF WireInv
<1>2. ASSUME NEW t \in Threads, NEW u \in Threads \ {t}, NEW i \in 1 .. Len(calls'[u]),
             calls'[u] = calls[u], ctx'[u] = ctx[u]
      PROVE  Wire(calls[u][i], ctx[u])'
  <2>1. PICK c, x : c \in Call /\ c = calls[u][i] /\ x = ctx[u] /\ Wire(c, x)'
    BY <1>2, <1>d
  <2>2. c = calls'[u][i] /\ x = ctx'[u]
    BY <1>2, <2>1
  <2>. QED
    BY <2>1, <2>2 DEF Wire, Matches, MetaWith, Exact, Publishing
<1>3. ASSUME NEW t \in Threads, NEW i \in 1 .. Len(calls[t]), calls'[t][i] = calls[t][i],
             calls[t][i].pc # "wrapper"
      PROVE  Wire(calls[t][i], ctx[t])'
  <2>1. PICK c \in Call : c = calls[t][i] /\ (c.pc # "wrapper" => \A x : Wire(c, x)')
    BY <1>d
  <2>2. PICK x : x = ctx'[t]
    OBVIOUS
  <2>3. Wire(c, x)'
    BY <1>3, <2>1
  <2>4. c = calls'[t][i]
    BY <1>3, <2>1
  <2>. QED
    BY <2>2, <2>3, <2>4 DEF Wire, Matches, MetaWith, Exact, Publishing
<1>4. ASSUME NEW t \in Threads, calls[t] # <<>>, NEW d \in Call, calls' = WithTop(t, d),
             NEW y, Wire(d, y), d.pc = "wrapper" => ctx'[t] = y,
             \A u \in Threads \ {t} : ctx'[u] = ctx[u]
      PROVE  WireInv'
  <2>1. /\ Len(calls'[t]) = Len(calls[t]) /\ Len(calls[t]) \in Nat
        /\ calls'[t][Len(calls[t])] = d
        /\ \A i \in 1 .. Len(calls[t]) - 1 : calls'[t][i] = calls[t][i]
        /\ \A u \in Threads \ {t} : calls'[u] = calls[u]
    BY <1>4, WithTopType
  <2>2. ASSUME NEW i \in 1 .. Len(calls[t]) - 1
        PROVE  Wire(calls[t][i], ctx[t])'
    <3>1. calls[t][i].pc \in {"artifact", "roundtrip"}
      BY DEF OuterCallsWait
    <3>2. i \in 1 .. Len(calls[t])
      BY <2>1
    <3>. QED
      BY <1>3, <2>1, <3>1, <3>2
  <2>3. Wire(d, y)'
    BY <1>4, <1>b
  <2>4. ASSUME NEW i \in 1 .. Len(calls'[t]), i = Len(calls[t])
        PROVE  Wire(calls[t][i], ctx[t])'
    <3>1. calls'[t][i] = d
      BY <2>1, <2>4
    <3>. QED
      BY <1>4, <2>3, <3>1 DEF Wire, Matches, MetaWith, Exact, Publishing
  <2>5. \A i \in 1 .. Len(calls[t]) : i = Len(calls[t]) \/ i \in 1 .. Len(calls[t]) - 1
    BY <2>1
  <2>6. ASSUME NEW i \in 1 .. Len(calls'[t])
        PROVE  Wire(calls[t][i], ctx[t])'
    BY <2>1, <2>2, <2>4, <2>5
  <2>7. ASSUME NEW u \in Threads \ {t}, NEW i \in 1 .. Len(calls'[u])
        PROVE  Wire(calls[u][i], ctx[u])'
    BY <1>2, <1>4, <2>1
  <2>. QED
    BY <2>6, <2>7 DEF WireInv
<1>5. ASSUME NEW t \in Threads, calls[t] # <<>>, calls' = [calls EXCEPT ![t] = Front(@)],
             \A u \in Threads \ {t} : ctx'[u] = ctx[u]
      PROVE  WireInv'
  <2>1. /\ Len(calls'[t]) = Len(calls[t]) - 1 /\ Len(calls[t]) \in Nat
        /\ \A i \in 1 .. Len(calls[t]) - 1 : calls'[t][i] = calls[t][i]
        /\ \A u \in Threads \ {t} : calls'[u] = calls[u]
    BY <1>5, PopType
  <2>2. ASSUME NEW i \in 1 .. Len(calls'[t])
        PROVE  Wire(calls[t][i], ctx[t])'
    <3>1. i \in 1 .. Len(calls[t]) - 1 /\ i \in 1 .. Len(calls[t])
      BY <2>1
    <3>2. calls[t][i].pc \in {"artifact", "roundtrip"}
      BY <3>1 DEF OuterCallsWait
    <3>. QED
      BY <1>3, <2>1, <3>1, <3>2
  <2>3. ASSUME NEW u \in Threads \ {t}, NEW i \in 1 .. Len(calls'[u])
        PROVE  Wire(calls[u][i], ctx[u])'
    BY <1>2, <1>5, <2>1
  <2>. QED
    BY <2>2, <2>3 DEF WireInv
<1>6. ASSUME NEW t \in Threads, NEW m \in Modules, NEW f \in Functions, BeginCall(t, m, f)
      PROVE  WireInv'
  <2>. DEFINE c == [pc |-> "socket", module |-> m, function |-> f, sock |-> 0, entry |-> 0,
                    kind |-> "artifact", sent |-> [idx |-> 0, sock |-> 0]]
  <2>1. c \in Call /\ c.pc = "socket" /\ c.sock = 0
    BY BeginCallType
  <2>2. /\ calls' = [calls EXCEPT ![t] = Append(@, c)] /\ UNCHANGED ctx
        /\ calls[t] # <<>> => Top(t).pc \in {"artifact", "roundtrip"}
    BY <1>6 DEF BeginCall
  <2>. HIDE DEF c
  <2>3. /\ \A u \in Threads \ {t} : calls'[u] = calls[u]
        /\ Len(calls'[t]) = Len(calls[t]) + 1 /\ Len(calls[t]) \in Nat
        /\ calls'[t][Len(calls[t]) + 1] = c
        /\ \A i \in 1 .. Len(calls[t]) : calls'[t][i] = calls[t][i]
    BY <2>1, <2>2, PushType
  <2>4. ASSUME NEW i \in 1 .. Len(calls[t])
        PROVE  calls[t][i].pc # "wrapper"
    <3>1. CASE i = Len(calls[t])
      <4>1. calls[t] # <<>>
        BY <2>3, <2>4
      <4>. QED
        BY <2>2, <3>1, <4>1, TopType
    <3>2. CASE i \in 1 .. Len(calls[t]) - 1
      BY <3>2 DEF OuterCallsWait
    <3>3. i = Len(calls[t]) \/ i \in 1 .. Len(calls[t]) - 1
      BY <2>3
    <3>. QED
      BY <3>1, <3>2, <3>3
  <2>5. ASSUME NEW i \in 1 .. Len(calls'[t])
        PROVE  Wire(calls[t][i], ctx[t])'
    <3>1. CASE i \in 1 .. Len(calls[t])
      BY <1>3, <2>3, <2>4, <3>1
    <3>2. CASE i = Len(calls[t]) + 1
      BY <2>1, <2>3, <3>2 DEF Wire
    <3>3. i \in 1 .. Len(calls[t]) \/ i = Len(calls[t]) + 1
      BY <2>3
    <3>. QED
      BY <3>1, <3>2, <3>3
  <2>6. ASSUME NEW u \in Threads \ {t}, NEW i \in 1 .. Len(calls'[u])
        PROVE  Wire(calls[u][i], ctx[u])'
    BY <1>2, <2>2, <2>3
  <2>. QED
    BY <2>5, <2>6 DEF WireInv
<1>7. ASSUME NEW t \in Threads, DispatchStep(t) \/ Return(t)
      PROVE  WireInv'
  <2>1. calls[t] # <<>>
    BY <1>7 DEF DispatchStep, Return, LookupSocket, FindExport, NotFound, FindsNothing, SetContext,
                EnterArtifact, WrapperFails, EnterRoundtrip, EntersRoundtrip, ReturnArtifact,
                ReturnRoundtrip, ReturnsRoundtrip, At
  <2>2. \A u \in Threads \ {t} : ctx'[u] = ctx[u]
    BY <1>7, CallStepFrame
  <2>3. Top(t) \in Call /\ Found(Top(t)) /\ Wire(Top(t), ctx[t])
    <3>1. Top(t) = calls[t][Len(calls[t])] /\ Len(calls[t]) \in 1 .. Len(calls[t])
      BY <2>1, TopType
    <3>. QED
      BY <1>c, <3>1 DEF LookupInv
  <2>4. CASE LookupSocket(t)
    <3>. DEFINE d == [Top(t) EXCEPT !.pc = "find", !.sock = moduleSockets[Top(t).module]]
    <3>1. d \in Call /\ calls' = WithTop(t, d)
      BY <2>1, <2>4, NewTopType DEF LookupSocket
    <3>2. d.pc = "find"
      BY <2>3 DEF Call
    <3>3. Wire(d, ctx[t])
      BY <2>3, LookupWire
    <3>. HIDE DEF d
    <3>. QED
      BY <1>4, <2>1, <2>2, <3>1, <3>2, <3>3
  <2>5. CASE FindExport(t)
    <3>1. PICK d \in Call : calls' = WithTop(t, d) /\ Wire(d, ctx[t])
      BY <2>3, <2>5, FindWire
    <3>2. ctx'[t] = ctx[t]
      BY <2>5 DEF FindExport
    <3>. QED
      BY <1>4, <2>1, <2>2, <3>1, <3>2
  <2>6. CASE SetContext(t)
    <3>. DEFINE d == [Top(t) EXCEPT !.pc = "wrapper"]
                x == [idx |-> moduleBase[Top(t).module] + Top(t).entry, sock |-> Top(t).sock]
    <3>1. d \in Call /\ calls' = WithTop(t, d) /\ ctx'[t] = x /\ Top(t).pc = "base"
      BY <1>a, <2>1, <2>6, NewTopType DEF SetContext, At
    <3>2. moduleSockets[Top(t).module] # 0 /\ writer = NoThread
      BY <2>3, <2>6, <3>1 DEF Found, SetContext, CanRead
    <3>3. Wire(d, x)
      BY <2>3, <3>1, <3>2, ContextWire
    <3>. HIDE DEF d, x
    <3>. QED
      BY <1>4, <2>1, <2>2, <3>1, <3>3
  <2>7. CASE EnterArtifact(t)
    <3>. DEFINE d == [Top(t) EXCEPT !.pc = "artifact"]
    <3>1. /\ d \in Call /\ calls' = WithTop(t, d) /\ Top(t).pc = "wrapper"
      BY <2>1, <2>7, NewTopType DEF EnterArtifact, At
    <3>2. d.pc = "artifact" /\ d.sock = Top(t).sock /\ d.module = Top(t).module
      BY <2>3 DEF Call
    <3>. HIDE DEF d
    <3>3. Wire(d, ctx[t])
      BY <2>3, <3>2 DEF Wire
    <3>. QED
      BY <1>4, <2>1, <2>2, <3>1, <3>2, <3>3
  <2>8. CASE EnterRoundtrip(t)
    <3>. DEFINE d == [Top(t) EXCEPT !.pc = "roundtrip", !.sent = ctx[t]]
    <3>1. /\ At(t, "wrapper") /\ Top(t).kind = "process" /\ ctx[t] # NoCtx
          /\ calls' = WithTop(t, d)
      BY <2>8 DEF EnterRoundtrip, EntersRoundtrip
    <3>2. d \in Call
      BY <2>1, <3>1, NewTopType
    <3>3. Matches(Top(t), ctx[t]) /\ Top(t).sock # 0
      BY <2>3, <3>1, WrapperContext DEF Wire, At
    <3>4. /\ d.pc = "roundtrip" /\ d.sock = Top(t).sock /\ d.module = Top(t).module
          /\ d.function = Top(t).function /\ d.sent = ctx[t]
      BY <2>3 DEF Call
    <3>. HIDE DEF d
    <3>5. Wire(d, ctx[t])
      BY <2>3, <3>3, <3>4 DEF Wire, Matches, Exact
    <3>. QED
      BY <1>4, <2>1, <2>2, <3>1, <3>2, <3>4, <3>5
  <2>9. CASE NotFound(t) \/ WrapperFails(t) \/ Return(t)
    BY <1>5, <2>1, <2>2, <2>9 DEF NotFound, FindsNothing, WrapperFails, Return, ReturnArtifact,
                                  ReturnRoundtrip, ReturnsRoundtrip, Pop
  <2>. QED
    BY <1>7, <2>4, <2>5, <2>6, <2>7, <2>8, <2>9 DEF DispatchStep
<1>. QED
  BY <1>1, <1>6, <1>7, RegistrationKeepsCalls

\* The export table agrees with what is published, in every reachable state.
LEMMA TablesAgree == Spec => []TablesInv
<1>1. Init => TablesInv
  <2>. SUFFICES ASSUME Init PROVE TablesInv
    OBVIOUS
  <2>1. /\ Len(modules) = 0
        /\ \A m \in Modules : moduleSockets[m] = 0
        /\ \A t \in Threads : reg[t].pc = "idle"
    BY DEF Init, IdleReg
  <2>. QED
    BY <2>1 DEF TablesInv
<1>2. /\ TypeInv /\ TypeInv' /\ LockDiscipline /\ RegistryInv /\ TablesInv /\ [Next]_vars
      => TablesInv'
  BY TablesStep
<1>. QED
  BY <1>1, <1>2, TypedAndLocked, CallsAreTracked, PTL DEF Spec

\* The export table only grows, and a module keeps its socket and its base index
\* until it is published again with a later socket, whatever registrations and
\* dispatches overlap (runtime.rs 318-395): an index that was computed stays
\* valid, and a socket that was replaced does not come back.
THEOREM TablesOnlyGrow == Spec => [][Extends /\ \A m \in Modules : Advances(m)]_vars
<1>1. /\ TypeInv /\ TypeInv' /\ LockDiscipline /\ RegistryInv /\ TablesInv /\ [Next]_vars
      => Extends /\ \A m \in Modules : Advances(m)
  BY TablesStep
<1>. QED
  BY <1>1, TypedAndLocked, CallsAreTracked, TablesAgree, PTL DEF Spec

\* The CALL a dispatch puts on the wire goes to a process of the module that was
\* called; if that process serves the module, it is for the function that was
\* called, by its index in that process (router.rs 160-200, runtime.rs 142-175,
\* 318-395), also when the module is started again from changed programs while
\* it is called.  On the socket of an earlier process the function is right if
\* the module is always started from the same program.
THEOREM CallsGoWhereTheyShould == Spec => []WireMatchesCall
<1>1. Init => WireInv
  BY DEF Init, WireInv
<1>2. /\ TypeInv /\ TypeInv' /\ LockDiscipline /\ RegistryInv /\ CallsInv /\ TablesInv
      /\ WireInv /\ [Next]_vars
      => WireInv'
  BY WireStep
<1>3. TypeInv /\ WireInv => WireMatchesCall
  <2>. SUFFICES ASSUME TypeInv, WireInv, NEW t \in Threads, NEW c \in ToSet(calls[t]),
                       c.pc = "roundtrip"
                PROVE  LET meta == ipcExports[c.sent.idx + 1]
                           metas == {e \in ToSet(ipcExports) : e.module = c.module}
                       IN  /\ c.sent.sock = moduleSockets[c.module] =>
                                  meta = [module |-> c.module, function |-> c.function,
                                          sock |-> c.sent.sock]
                           /\ <<>> \notin ExportLists[c.module] =>
                                  c.sent.sock \in {e.sock : e \in metas}
                           /\ OneProgram(c.module) => /\ meta.module = c.module
                                                      /\ meta.function = c.function
                                                      /\ c.sent.sock <= meta.sock
    BY DEF WireMatchesCall
  <2>1. PICK i \in 1 .. Len(calls[t]) : calls[t][i] = c
    BY DEF TypeInv, TypeOK, ToSet
  <2>2. /\ Matches(c, c.sent)
        /\ <<>> \in ExportLists[c.module] \/ MetaWith(c.module, c.sent.sock)
    BY <2>1 DEF WireInv, Wire, Matches
  <2>3. ASSUME <<>> \notin ExportLists[c.module]
        PROVE  \E e \in ToSet(ipcExports) : e.module = c.module /\ e.sock = c.sent.sock
    <3>1. PICK j \in 1 .. Len(ipcExports) :
              ipcExports[j].module = c.module /\ ipcExports[j].sock = c.sent.sock
      BY <2>2, <2>3 DEF MetaWith
    <3>2. ipcExports[j] \in ToSet(ipcExports)
      BY DEF TypeInv, TypeOK, ToSet
    <3>. QED
      BY <3>1, <3>2
  <2>. QED
    BY <2>2, <2>3 DEF Matches, Exact
<1>. QED
  BY <1>1, <1>2, <1>3, TypedAndLocked, CallsAreTracked, TablesAgree, PTL DEF Spec

(* --------------------------- who waits for whom --------------------------- *)

\* A thread registers a module or dispatches a call, never both.
OneAtATime == \A t \in Threads : reg[t].pc = "idle" \/ calls[t] = <<>>

\* Registrations begin without a call, and calls without a registration.
LEMMA OneAtATimeStep ==
    ASSUME TypeInv, OneAtATime, [Next]_vars
    PROVE  OneAtATime'
<1>. USE DEF TypeInv
<1>1. ASSUME NEW t \in Threads, NEW m \in Modules, NEW entries \in ExportLists[m],
             StartProcess(t, m, entries)
      PROVE  OneAtATime'
  <2>1. calls[t] = <<>> /\ UNCHANGED calls /\ \A u \in Threads \ {t} : reg'[u] = reg[u]
    BY <1>1, StartProcessType DEF StartProcess, MayRegister
  <2>. QED
    BY <2>1 DEF OneAtATime
<1>2. ASSUME NEW t \in Threads, RegistrationStep(t)
      PROVE  OneAtATime'
  <2>1. UNCHANGED calls /\ reg[t].pc # "idle"
    BY <1>2 DEF RegistrationStep, PushExports, RegisterProcess, PublishSocket, Publishes
  <2>2. \A u \in Threads \ {t} : reg'[u] = reg[u]
    BY <1>2, PushExportsType, RegisterProcessType DEF RegistrationStep, PublishSocket, Publishes, TypeOK
  <2>. QED
    BY <2>1, <2>2 DEF OneAtATime
<1>3. ASSUME NEW t \in Threads, \/ DispatchStep(t) \/ Return(t)
                                \/ \E m \in Modules, f \in Functions : BeginCall(t, m, f)
      PROVE  OneAtATime'
  <2>1. UNCHANGED reg /\ \A u \in Threads \ {t} : calls'[u] = calls[u]
    BY <1>3, CallStepFrame
  <2>2. reg[t].pc = "idle" \/ calls[t] # <<>>
    BY <1>3 DEF DispatchStep, Return, BeginCall, LookupSocket, FindExport, NotFound, FindsNothing,
                SetContext, EnterArtifact, WrapperFails, EnterRoundtrip, EntersRoundtrip,
                ReturnArtifact, ReturnRoundtrip, ReturnsRoundtrip, At
  <2>. QED
    BY <2>1, <2>2 DEF OneAtATime
<1>4. CASE UNCHANGED <<calls, reg>>
  BY <1>4 DEF OneAtATime
<1>5. ASSUME NEW t \in Threads, NEW m \in Modules, NEW entries \in ExportLists[m],
             RegisterArtifact(t, m, entries)
      PROVE  UNCHANGED <<calls, reg>>
  BY <1>5 DEF RegisterArtifact
<1>. QED
  BY <1>1, <1>2, <1>3, <1>4, <1>5 DEF Next, vars

\* t is in read() or write() of IPC_STATE, and it does not return.
Waits(t) ==
    \/ reg[t].pc = "lock" /\ ~CanWrite
    \/ /\ \/ At(t, "socket") \/ At(t, "base")
          \/ At(t, "wrapper") /\ Top(t).kind = "process" /\ ctx[t] # NoCtx
       /\ ~CanRead

\* t dispatches a callback of a round trip, whose read guard it holds.
CallsBack(t) == readers[t] # 0 /\ ~At(t, "roundtrip")

\* Nobody waits for the lock in a circle: whoever waits for it waits for a thread
\* that has it, or is the next to get it, and does not wait for it.
NoCircle ==
    \A t \in Threads : Waits(t) =>
        \E u \in Threads : ~Waits(u) /\ (writer = u \/ readers[u] # 0 \/ u \in waiting)

\* A thread that changes the tables, or is free to, waits for nothing.
LEMMA WriterMoves ==
    ASSUME OneAtATime, LockDiscipline, NEW u \in Threads,
           writer = u \/ (u \in waiting /\ CanWrite)
    PROVE  ~Waits(u)
<1>1. \/ reg[u].pc \in {"register", "publish"}
      \/ reg[u].pc = "lock" /\ CanWrite
  BY DEF LockDiscipline
<1>2. calls[u] = <<>>
  BY <1>1 DEF OneAtATime
<1>. QED
  BY <1>1, <1>2 DEF Waits, At

\* A thread with a read guard is in no registration.
LEMMA ReaderHasCalls ==
    ASSUME OneAtATime, LockDiscipline, NEW u \in Threads, readers[u] # 0
    PROVE  reg[u].pc = "idle"
<1>1. calls[u] # <<>>
  <2>1. SUFFICES ASSUME calls[u] = <<>> PROVE FALSE
    OBVIOUS
  <2>2. {i \in DOMAIN calls[u] : calls[u][i].pc = "roundtrip"} = {}
    BY <2>1
  <2>3. readers[u] = Cardinality({})
    BY <2>2 DEF LockDiscipline
  <2>. QED
    BY <2>3, FS_EmptySet
<1>. QED
  BY <1>1 DEF OneAtATime

\* A thread that wants to write waits for readers that wait for nothing.
LEMMA ReaderMoves ==
    ASSUME TypeInv, OneAtATime, LockDiscipline, writer = NoThread, ~CanWrite,
           ~WriterPreference \/ \A u \in Threads : ~CallsBack(u)
    PROVE  \E u \in Threads : ~Waits(u) /\ readers[u] # 0
<1>1. PICK u \in Threads : readers[u] # 0
  BY DEF CanWrite
<1>2. reg[u].pc = "idle"
  BY <1>1, ReaderHasCalls
<1>3. CASE ~WriterPreference
  <2>1. CanRead
    BY <1>3 DEF CanRead
  <2>. QED
    BY <1>1, <1>2, <2>1 DEF Waits
<1>4. CASE ~CallsBack(u)
  <2>1. At(u, "roundtrip")
    BY <1>1, <1>4 DEF CallsBack
  <2>. QED
    BY <1>1, <1>2, <2>1 DEF Waits, At
<1>. QED
  BY <1>3, <1>4

\* Dispatches and registrations cannot block each other for ever at IPC_STATE
\* (runtime.rs 171, 324, 394, 400) unless two things come together: a
\* lock that stops readers for a writer that waits, and a thread that dispatches
\* a callback under the guard of its round trip.  dispatch_deadlock has both.
THEOREM DeadlockNeedsBoth ==
    Spec => [](~WriterPreference \/ (\A u \in Threads : ~CallsBack(u)) => NoCircle)
<1>1. Init => OneAtATime
  BY DEF Init, OneAtATime
<1>2. TypeInv /\ OneAtATime /\ [Next]_vars => OneAtATime'
  BY OneAtATimeStep
<1>3. TypeInv /\ LockDiscipline /\ OneAtATime =>
          (~WriterPreference \/ (\A u \in Threads : ~CallsBack(u)) => NoCircle)
  <2>. SUFFICES ASSUME TypeInv, LockDiscipline, OneAtATime,
                       ~WriterPreference \/ \A u \in Threads : ~CallsBack(u),
                       NEW t \in Threads, Waits(t)
                PROVE  \E u \in Threads : ~Waits(u) /\ (writer = u \/ readers[u] # 0 \/ u \in waiting)
    BY DEF NoCircle
  <2>1. CASE writer # NoThread
    <3>1. writer \in Threads
      BY <2>1 DEF TypeInv, TypeOK
    <3>. QED
      BY <3>1, WriterMoves
  <2>2. CASE writer = NoThread /\ ~CanWrite
    BY <2>2, ReaderMoves
  <2>3. CASE writer = NoThread /\ CanWrite
    <3>1. waiting # {}
      BY <2>3 DEF Waits, CanRead
    <3>2. PICK w \in Threads : w \in waiting
      BY <3>1 DEF TypeInv, TypeOK
    <3>. QED
      BY <2>3, <3>2, WriterMoves
  <2>. QED
    BY <2>1, <2>2, <2>3
<1>. QED
  BY <1>1, <1>2, <1>3, TypedAndLocked, PTL DEF Spec

===============================================================================
