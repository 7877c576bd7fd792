----------------------------- MODULE Router_proof -----------------------------
(***************************************************************************)
(* Theorems about Router, for every set of threads, modules and functions, *)
(* every topology and every depth of nesting.                              *)
(***************************************************************************)
EXTENDS Router, SequenceTheorems, TLAPS

(* -------------------------- lemmas on sequences -------------------------- *)

\* What Front and Last return on a sequence with an element.
LEMMA FrontLast ==
    ASSUME NEW S, NEW s \in Seq(S), s # <<>>
    PROVE  /\ Front(s) \in Seq(S)
           /\ Len(s) \in Nat \ {0}
           /\ Len(Front(s)) = Len(s) - 1
           /\ \A i \in 1 .. Len(s) - 1 : Front(s)[i] = s[i]
           /\ Last(s) \in S
           /\ Last(s) = s[Len(s)]
<1>1. Len(s) \in Nat /\ Len(s) # 0
  OBVIOUS
<1>2. Front(s) = SubSeq(s, 1, Len(s) - 1) /\ Last(s) = s[Len(s)]
  BY DEF Front, Last
<1>3. s[Len(s)] \in S /\ \A i \in 1 .. Len(s) - 1 : s[i] \in S
  BY <1>1, LenProperties
<1>4. /\ Front(s) \in Seq(S)
      /\ Len(Front(s)) = Len(s) - 1
      /\ \A i \in 1 .. Len(s) - 1 : Front(s)[i] = s[i]
  <2>. DEFINE n == Len(s) - 1
  <2>1. n \in Int /\ 1 \in Int /\ n >= 0 /\ \A i \in 1 .. n : s[i] \in S
    BY <1>1, <1>3
  <2>. HIDE DEF n
  <2>2. /\ SubSeq(s, 1, n) \in Seq(S)
        /\ Len(SubSeq(s, 1, n)) = IF 1 <= n THEN n - 1 + 1 ELSE 0
        /\ \A i \in 1 .. n - 1 + 1 : SubSeq(s, 1, n)[i] = s[1 + i - 1]
    BY <2>1, SubSeqProperties
  <2>3. ASSUME NEW i \in 1 .. n
        PROVE  SubSeq(s, 1, n)[i] = s[i]
    <3>1. i \in 1 .. n - 1 + 1 /\ 1 + i - 1 = i
      BY <2>1
    <3>. QED
      BY <2>2, <3>1
  <2>4. Len(SubSeq(s, 1, n)) = n
    BY <2>1, <2>2
  <2>. QED
    BY <1>2, <2>2, <2>3, <2>4 DEF n
<1>. QED
  BY <1>1, <1>2, <1>3, <1>4

\* Replacing the last element leaves the length and the other elements.
LEMMA ReplaceLast ==
    ASSUME NEW S, NEW s \in Seq(S), s # <<>>, NEW e \in S
    PROVE  /\ Append(Front(s), e) \in Seq(S)
           /\ Append(Front(s), e) # <<>>
           /\ Len(Append(Front(s), e)) = Len(s)
           /\ \A i \in 1 .. Len(s) - 1 : Append(Front(s), e)[i] = s[i]
           /\ Append(Front(s), e)[Len(s)] = e
<1>. DEFINE r == Append(Front(s), e)
<1>1. Len(r) = Len(s) /\ r \in Seq(S)
  BY FrontLast
<1>2. \A i \in 1 .. Len(s) - 1 : r[i] = s[i]
  BY FrontLast
<1>. QED
  BY <1>1, <1>2, FrontLast

(* ----------------------- lemmas on the identity stack --------------------- *)

\* What the identity export leaves on a stack is a sequence of names.
LEMMA SetStackType ==
    ASSUME NEW name \in Names \cup {NoName}
    PROVE  /\ SetStack(name) \in Seq(Names)
           /\ Len(SetStack(name)) <= 1
           /\ name # NoName => Len(SetStack(name)) = 1 /\ SetStack(name)[1] = name
  BY RouterAssumption DEF SetStack

\* A guard pushes the name of a module.
LEMMA GuardNameType ==
    ASSUME NEW m \in Modules
    PROVE  GuardName(m) \in Names
  BY RouterAssumption DEF GuardName, Names

\* Dropping a guard removes the top, and keeps the bottom of what is left.
LEMMA DropGuardType ==
    ASSUME NEW stack \in Seq(Names), NEW had \in BOOLEAN
    PROVE  /\ DropGuard(stack, had) \in Seq(Names)
           /\ stack = <<>> => DropGuard(stack, had) = <<>>
           /\ stack # <<>> => Len(DropGuard(stack, had)) <= Len(stack) - 1
           /\ DropGuard(stack, had) # <<>> => DropGuard(stack, had)[1] = stack[1]
<1>. DEFINE rest == IF stack = <<>> THEN <<>> ELSE Front(stack)
<1>1. rest \in Seq(Names) /\ (stack # <<>> => Len(rest) = Len(stack) - 1)
  BY FrontLast
<1>2. rest # <<>> => rest[1] = stack[1]
  <2>1. CASE stack = <<>>
    BY <2>1
  <2>2. CASE stack # <<>>
    BY <2>2, FrontLast
  <2>. QED
    BY <2>1, <2>2
<1>3. DropGuard(stack, had) = IF ~had /\ Len(rest) > 1 THEN <<Head(rest)>> ELSE rest
  BY DEF DropGuard
<1>4. CASE ~had /\ Len(rest) > 1
  <2>1. Head(rest) = rest[1] /\ Head(rest) \in Names /\ stack # <<>>
    BY <1>1, <1>4
  <2>2. DropGuard(stack, had) = <<rest[1]>>
    BY <1>3, <1>4, <2>1
  <2>. QED
    BY <1>1, <1>2, <1>4, <2>1, <2>2
<1>5. CASE ~(~had /\ Len(rest) > 1)
  BY <1>1, <1>2, <1>3, <1>5
<1>. QED
  BY <1>4, <1>5

\* The code around a call (router.rs 106-122, lib.rs 241-263) prepares a
\* well-typed stack for it ...
LEMMA BeforeCallType ==
    ASSUME NEW stack \in Seq(Names), NEW c \in Names
    PROVE  BeforeCall(stack, c) \in Seq(Names)
<1>1. CASE c = Host
  BY <1>1 DEF BeforeCall
<1>2. CASE c # Host /\ c \in Scoped
  <2>1. GuardName(c) \in Names
    BY <1>2, GuardNameType, RouterAssumption
  <2>. QED
    BY <1>2, <2>1 DEF BeforeCall, EnterGuard
<1>3. CASE c # Host /\ c \notin Scoped
  BY <1>3, SetStackType DEF BeforeCall
<1>. QED
  BY <1>1, <1>2, <1>3

\* ... and leaves one when the call has returned.
LEMMA AfterCallType ==
    ASSUME NEW stack \in Seq(Names), NEW c \in Names, NEW had \in BOOLEAN
    PROVE  AfterCall(stack, c, had) \in Seq(Names)
<1>1. Host \in Names \cup {NoName}
  BY DEF Names
<1>. QED
  BY <1>1, DropGuardType, SetStackType DEF AfterCall

\* current_caller_bytes answers one of the names on the stack, or none.
LEMMA CurrentCallerType ==
    ASSUME NEW stack \in Seq(Names)
    PROVE  /\ stack = <<>> => CurrentCaller(stack) = NoName
           /\ stack # <<>> => /\ CurrentCaller(stack) \in Names
                              /\ CurrentCaller(stack) = stack[Len(stack)]
  BY FrontLast DEF CurrentCaller

(* ---------------------------- type correctness ---------------------------- *)

\* The call on top of a thread that has calls is a well-typed frame.
LEMMA TopType ==
    ASSUME TypeOK, NEW t \in Threads, frames[t] # <<>>
    PROVE  /\ Top(t) \in Frame
           /\ Front(frames[t]) \in Seq(Frame)
           /\ Top(t) = frames[t][Len(frames[t])]
  BY FrontLast DEF TypeOK, Top

\* A step of dispatch that only moves the call on top keeps the types.
LEMMA AdvanceType ==
    ASSUME TypeOK, NEW t \in Threads, frames[t] # <<>>,
           NEW p \in Phases, NEW s \in Statuses, Advance(t, p, s)
    PROVE  TypeOK'
<1>. DEFINE top == [Last(frames[t]) EXCEPT !.phase = p, !.status = s]
<1>1. top \in Frame
  BY TopType DEF Frame, Top
<1>2. Append(Front(frames[t]), top) \in Seq(Frame)
  BY <1>1, TopType
<1>3. frames' = [frames EXCEPT ![t] = Append(Front(frames[t]), top)]
  BY DEF Advance, TypeOK
<1>. QED
  BY <1>2, <1>3 DEF Advance, TypeOK

\* A new call keeps the types: its frame is made of names and flags.
LEMMA BeginCallType ==
    ASSUME TypeOK, NEW t \in Threads, NEW callee \in Modules, NEW f \in Functions,
           BeginCall(t, callee, f)
    PROVE  TypeOK'
<1>. DEFINE c == Code(t)
            stack == BeforeCall(callerStack[t], c)
            who == CurrentCaller(stack)
            call == [caller |-> c, callee |-> callee, function |-> f, identity |-> who,
                     hadPrevious |-> Len(stack) > 1,
                     phase |-> IF who = NoName THEN "done" ELSE "check",
                     status |-> IF who = NoName THEN "LinkDenied" ELSE "Ok"]
<1>1. c \in Names
  BY TopType DEF Code, Names, Frame
<1>2. stack \in Seq(Names)
  BY <1>1, BeforeCallType DEF TypeOK
<1>3. who \in Names \cup {NoName}
  BY <1>2, CurrentCallerType
<1>4. call \in Frame
  BY <1>1, <1>3 DEF Frame, Phases, Statuses
<1>5. /\ callerStack' = [callerStack EXCEPT ![t] = stack]
      /\ frames' = [frames EXCEPT ![t] = Append(frames[t], call)]
      /\ UNCHANGED <<links, exports, hostIdentity>>
  BY DEF BeginCall, TypeOK
<1>6. Append(frames[t], call) \in Seq(Frame)
  BY <1>4 DEF TypeOK
<1>. QED
  BY <1>2, <1>5, <1>6 DEF TypeOK

\* The end of a call keeps the types.
LEMMA EndCallType ==
    ASSUME TypeOK, NEW t \in Threads, EndCall(t)
    PROVE  TypeOK'
<1>1. frames[t] # <<>> /\ Top(t) \in Frame /\ Front(frames[t]) \in Seq(Frame)
  BY TopType DEF EndCall
<1>2. AfterCall(callerStack[t], Top(t).caller, Top(t).hadPrevious) \in Seq(Names)
  BY <1>1, AfterCallType DEF Frame, TypeOK
<1>. QED
  BY <1>1, <1>2 DEF EndCall, TypeOK

\* Type correctness: every reachable state has the shape of the Rust state.
THEOREM TypeCorrect == Spec => []TypeOK
<1>1. Init => TypeOK
  BY DEF Init, TypeOK
<1>2. TypeOK /\ [Next]_vars => TypeOK'
  <2>. SUFFICES ASSUME TypeOK, [Next]_vars PROVE TypeOK'
    OBVIOUS
  <2>1. ASSUME NEW t \in Threads, NEW name \in {Host, NoName}, SetIdentity(t, name)
        PROVE  TypeOK'
    <3>1. SetStack(name) \in Seq(Names)
      BY SetStackType DEF Names
    <3>. QED
      BY <2>1, <3>1 DEF SetIdentity, TypeOK
  <2>2. ASSUME NEW link \in Topology, AddLink(link)
        PROVE  TypeOK'
    BY <2>2 DEF AddLink, TypeOK
  <2>3. ASSUME NEW m \in Modules, NEW fns \in SUBSET Functions, RegisterModule(m, fns)
        PROVE  TypeOK'
    BY <2>3 DEF RegisterModule, TypeOK
  <2>4. ASSUME NEW t \in Threads, NEW callee \in Modules, NEW f \in Functions,
               BeginCall(t, callee, f)
        PROVE  TypeOK'
    BY <2>4, BeginCallType
  <2>5. ASSUME NEW t \in Threads, CheckLink(t)
        PROVE  TypeOK'
    BY <2>5, AdvanceType DEF CheckLink, Phases, Statuses
  <2>6. ASSUME NEW t \in Threads, FindExport(t)
        PROVE  TypeOK'
    BY <2>6, AdvanceType DEF FindExport, Phases, Statuses
  <2>7. ASSUME NEW t \in Threads, NEW s \in {"Ok", "Runtime"}, Finish(t, s)
        PROVE  TypeOK'
    BY <2>7, AdvanceType DEF Finish, Phases, Statuses
  <2>8. ASSUME NEW t \in Threads, EndCall(t)
        PROVE  TypeOK'
    BY <2>8, EndCallType
  <2>9. CASE UNCHANGED vars
    BY <2>9 DEF vars, TypeOK
  <2>. QED
    BY <2>1, <2>2, <2>3, <2>4, <2>5, <2>6, <2>7, <2>8, <2>9 DEF Next
<1>. QED
  BY <1>1, <1>2, PTL DEF Spec

(* ------------------------- the inductive invariant ------------------------ *)

\* A step that only rewrites phase and status of the call on top.
LEMMA AdvanceInv ==
    ASSUME Inv, NEW t \in Threads, frames[t] # <<>>,
           NEW p \in Phases, NEW s \in Statuses, Advance(t, p, s),
           p # "done" => Top(t).identity # NoName,
           p \in {"find", "run"} => <<Top(t).caller, Top(t).callee>> \in links
    PROVE  Inv'
<1>. DEFINE top == [Last(frames[t]) EXCEPT !.phase = p, !.status = s]
            n == Len(frames[t])
<1>1. TypeOK /\ TypeOK'
  BY AdvanceType DEF Inv
<1>2. /\ frames' = [frames EXCEPT ![t] = Append(Front(frames[t]), top)]
      /\ callerStack' = callerStack /\ links' = links
  BY DEF Advance, Inv, TypeOK
<1>3. /\ top \in Frame
      /\ top.caller = Top(t).caller /\ top.callee = Top(t).callee
      /\ top.identity = Top(t).identity /\ top.phase = p
      /\ Top(t) = frames[t][n] /\ n \in Nat \ {0} /\ n = Len(frames[t])
  BY <1>1, TopType, FrontLast DEF Frame, Top, Inv, TypeOK
<1>4. /\ Len(frames'[t]) = n /\ frames'[t] # <<>>
      /\ \A i \in 1 .. n - 1 : frames'[t][i] = frames[t][i]
      /\ frames'[t][n] = top
  <2>1. frames'[t] = Append(Front(frames[t]), top) /\ frames[t] \in Seq(Frame)
    BY <1>1, <1>2 DEF TypeOK
  <2>. QED
    BY <1>3, <2>1, ReplaceLast
<1>. HIDE DEF top, n
<1>5. \A i \in 1 .. n : /\ frames'[t][i].caller = frames[t][i].caller
                        /\ frames'[t][i].callee = frames[t][i].callee
                        /\ frames'[t][i].identity = frames[t][i].identity
  BY <1>3, <1>4
<1>6. ASSUME NEW u \in Threads
      PROVE  CallsOK(u)'
  <2>1. CASE u # t
    BY <1>1, <1>2, <2>1 DEF CallsOK, Inv, TypeOK
  <2>2. CASE u = t
    <3>. SUFFICES ASSUME NEW i \in 1 .. n
                  PROVE  /\ frames'[t][i].caller = IF i = 1 THEN Host ELSE frames'[t][i - 1].callee
                         /\ i < n => frames'[t][i].phase = "run"
                         /\ frames'[t][i].identity \in {frames'[t][i].caller, NoName}
                         /\ frames'[t][i].phase # "done" => frames'[t][i].identity # NoName
                         /\ frames'[t][i].phase \in {"find", "run"} =>
                                <<frames'[t][i].caller, frames'[t][i].callee>> \in links
      BY <1>2, <1>4, <2>2 DEF CallsOK
    <3>1. /\ frames[t][i].caller = IF i = 1 THEN Host ELSE frames[t][i - 1].callee
          /\ i < n => frames[t][i].phase = "run"
          /\ frames[t][i].identity \in {frames[t][i].caller, NoName}
          /\ frames[t][i].phase # "done" => frames[t][i].identity # NoName
          /\ frames[t][i].phase \in {"find", "run"} =>
                 <<frames[t][i].caller, frames[t][i].callee>> \in links
      BY <1>3 DEF Inv, CallsOK
    <3>2. frames'[t][i].caller = IF i = 1 THEN Host ELSE frames'[t][i - 1].callee
      <4>1. CASE i = 1
        BY <1>5, <3>1, <4>1
      <4>2. CASE i # 1
        <5>1. i - 1 \in 1 .. n
          BY <1>3, <4>2
        <5>. QED
          BY <1>5, <3>1, <4>2, <5>1
      <4>. QED
        BY <4>1, <4>2
    <3>3. frames'[t][i].identity \in {frames'[t][i].caller, NoName}
      BY <1>5, <3>1
    <3>4. CASE i < n
      <4>1. frames'[t][i] = frames[t][i]
        BY <1>3, <1>4, <3>4
      <4>. QED
        BY <1>2, <3>1, <3>2, <3>3, <4>1
    <3>5. CASE i = n
      <4>1. frames'[t][i] = top /\ ~(i < n) /\ links' = links
        BY <1>2, <1>3, <1>4, <3>5
      <4>2. top.phase # "done" => top.identity # NoName
        BY <1>3
      <4>3. top.phase \in {"find", "run"} => <<top.caller, top.callee>> \in links
        BY <1>3
      <4>. QED
        BY <3>2, <3>3, <4>1, <4>2, <4>3
    <3>. QED
      BY <1>3, <3>4, <3>5
  <2>. QED
    BY <2>1, <2>2
<1>7. ASSUME NEW u \in Threads
      PROVE  StackOK(u)'
  <2>1. CASE u # t
    BY <1>1, <1>2, <2>1 DEF StackOK, Inv, TypeOK
  <2>2. CASE u = t
    BY <1>2, <1>3, <1>4, <1>5, <2>2 DEF StackOK, Inv
  <2>. QED
    BY <2>1, <2>2
<1>. QED
  BY <1>1, <1>6, <1>7 DEF Inv

\* The identity dispatch reads is that of the code that calls: the point
\* where the three call disciplines have to agree.
LEMMA IdentityOfCode ==
    ASSUME Processes \subseteq {JavaRenderer}, Inv, NEW t \in Threads
    PROVE  CurrentCaller(BeforeCall(callerStack[t], Code(t))) \in {Code(t), NoName}
<1>. DEFINE cs == callerStack[t]
<1>1. cs \in Seq(Names) /\ StackOK(t)
  BY DEF Inv, TypeOK
<1>2. CASE frames[t] = <<>>
  <2>1. Code(t) = Host /\ BeforeCall(cs, Host) = cs
    BY <1>2 DEF Code, BeforeCall
  <2>2. cs # <<>> => Len(cs) = 1 /\ cs[1] = Host
    <3>1. Len(cs) <= 1 /\ (Len(cs) = 1 => cs[1] = Host)
      BY <1>1, <1>2 DEF StackOK
    <3>2. Len(cs) \in Nat /\ (cs # <<>> => Len(cs) # 0)
      BY <1>1, EmptySeq
    <3>3. \A k \in Nat : k <= 1 /\ k # 0 => k = 1
      OBVIOUS
    <3>. QED
      BY <3>1, <3>2, <3>3, Zenon
  <2>. QED
    BY <1>1, <2>1, <2>2, CurrentCallerType
<1>3. CASE frames[t] # <<>>
  <2>1. Code(t) \in Modules /\ Code(t) # Host
    BY <1>3, TopType, RouterAssumption DEF Code, Frame, Inv
  <2>2. CASE Code(t) \in Scoped
    <3>1. BeforeCall(cs, Code(t)) = Append(cs, GuardName(Code(t)))
      BY <2>1, <2>2 DEF BeforeCall, EnterGuard
    <3>2. GuardName(Code(t)) = Code(t) /\ Code(t) \in Names
      BY <2>1 DEF GuardName, Names
    <3>3. /\ Append(cs, Code(t)) \in Seq(Names)
          /\ Append(cs, Code(t)) # <<>>
          /\ Append(cs, Code(t))[Len(Append(cs, Code(t)))] = Code(t)
      BY <1>1, <3>2, AppendProperties
    <3>. QED
      BY <3>1, <3>2, <3>3, CurrentCallerType
  <2>3. CASE Code(t) \notin Scoped
    <3>1. BeforeCall(cs, Code(t)) = <<Code(t)>>
      BY <2>1, <2>3, RouterAssumption DEF BeforeCall, SetStack, Names
    <3>. QED
      BY <2>1, <3>1, CurrentCallerType DEF Names
  <2>. QED
    BY <2>2, <2>3
<1>. QED
  BY <1>2, <1>3

\* A new call keeps the chain of calls and the shape of the stack: the code
\* that makes it is in its wrapper, and the identity read is its own.
LEMMA BeginCallInv ==
    ASSUME Processes \subseteq {JavaRenderer}, Inv, NEW t \in Threads,
           NEW callee \in Modules, NEW f \in Functions, BeginCall(t, callee, f)
    PROVE  Inv'
<1>. DEFINE c == Code(t)
            cs == callerStack[t]
            stack == BeforeCall(cs, c)
            who == CurrentCaller(stack)
            call == [caller |-> c, callee |-> callee, function |-> f, identity |-> who,
                     hadPrevious |-> Len(stack) > 1,
                     phase |-> IF who = NoName THEN "done" ELSE "check",
                     status |-> IF who = NoName THEN "LinkDenied" ELSE "Ok"]
            n == Len(frames[t])
<1>1. TypeOK /\ TypeOK' /\ CallsOK(t) /\ StackOK(t)
  BY BeginCallType DEF Inv
<1>2. /\ callerStack' = [callerStack EXCEPT ![t] = stack]
      /\ frames' = [frames EXCEPT ![t] = Append(frames[t], call)]
      /\ links' = links /\ InCode(t)
  BY <1>1 DEF BeginCall, TypeOK
<1>3. /\ frames[t] \in Seq(Frame) /\ n \in Nat /\ n = Len(frames[t])
      /\ frames[t] = <<>> <=> n = 0
  BY <1>1, EmptySeq, LenProperties DEF TypeOK
<1>4. who \in {c, NoName}
  BY IdentityOfCode
<1>5. c = IF n = 0 THEN Host ELSE frames[t][n].callee
  BY <1>1, <1>3, TopType DEF Code
<1>6. /\ call.caller = c /\ call.identity = who
      /\ call.phase = IF who = NoName THEN "done" ELSE "check"
  OBVIOUS
<1>. HIDE DEF call
<1>7. /\ frames'[t] # <<>> /\ Len(frames'[t]) = n + 1
      /\ \A i \in 1 .. n : frames'[t][i] = frames[t][i]
      /\ frames'[t][n + 1] = call
  <2>1. frames'[t] = Append(frames[t], call)
    BY <1>1, <1>2 DEF TypeOK
  <2>. QED
    BY <1>3, <2>1
<1>. HIDE DEF n
<1>8. ASSUME NEW u \in Threads, u # t
      PROVE  CallsOK(u)' /\ StackOK(u)'
  BY <1>1, <1>2, <1>8 DEF CallsOK, StackOK, Inv, TypeOK
<1>9. CallsOK(t)'
  <2>. SUFFICES ASSUME NEW i \in 1 .. n + 1
                PROVE  /\ frames'[t][i].caller = IF i = 1 THEN Host ELSE frames'[t][i - 1].callee
                       /\ i < n + 1 => frames'[t][i].phase = "run"
                       /\ frames'[t][i].identity \in {frames'[t][i].caller, NoName}
                       /\ frames'[t][i].phase # "done" => frames'[t][i].identity # NoName
                       /\ frames'[t][i].phase \in {"find", "run"} =>
                              <<frames'[t][i].caller, frames'[t][i].callee>> \in links
    BY <1>2, <1>7 DEF CallsOK
  <2>1. CASE i <= n
    <3>2. i \in 1 .. n
      BY <1>3, <2>1
    <3>0. i # 1 => i - 1 \in 1 .. n
      BY <1>3, <3>2
    <3>1. frames'[t][i] = frames[t][i] /\ (i # 1 => frames'[t][i - 1] = frames[t][i - 1])
      BY <1>7, <3>0, <3>2
    <3>3. frames[t][i].phase = "run"
      <4>1. CASE i < n
        BY <1>1, <1>3, <3>2, <4>1 DEF CallsOK
      <4>2. CASE i = n
        BY <1>1, <1>2, <1>3, <3>2, <4>2, TopType DEF InCode
      <4>. QED
        BY <1>3, <2>1, <4>1, <4>2
    <3>. QED
      BY <1>1, <1>3, <3>1, <3>2, <3>3 DEF CallsOK
  <2>2. CASE i = n + 1
    <3>1. frames'[t][i] = call /\ ~(i < n + 1)
      BY <1>3, <1>7, <2>2
    <3>2. call.caller = IF i = 1 THEN Host ELSE frames'[t][i - 1].callee
      BY <1>3, <1>5, <1>6, <1>7, <2>2
    <3>. QED
      BY <1>4, <1>6, <3>1, <3>2
  <2>. QED
    BY <1>3, <2>1, <2>2
<1>10. StackOK(t)'
  <2>. SUFFICES /\ Len(stack) <= n + 1
                /\ (\A i \in 2 .. n + 1 : frames'[t][i].caller \in Scoped) =>
                      (Len(stack) = n + 1 => stack[1] = Host)
    BY <1>1, <1>2, <1>7 DEF StackOK, TypeOK
  <2>1. cs \in Seq(Names) /\ Len(cs) \in Nat
    BY <1>1, LenProperties DEF TypeOK
  <2>2. CASE n = 0
    <3>1. stack = cs /\ Len(cs) <= 1 /\ (Len(cs) = 1 => cs[1] = Host)
      BY <1>1, <1>3, <1>5, <2>2 DEF BeforeCall, StackOK
    <3>. QED
      BY <2>2, <3>1
  <2>3. CASE n # 0 /\ c \in Scoped
    <3>1. c # Host
      BY <2>3, RouterAssumption
    <3>2. stack = Append(cs, GuardName(c)) /\ GuardName(c) \in Names
      BY <2>3, <3>1, GuardNameType, RouterAssumption DEF BeforeCall, EnterGuard
    <3>3. Len(stack) = Len(cs) + 1 /\ (cs # <<>> => stack[1] = cs[1])
      BY <2>1, <3>2
    <3>4. Len(cs) <= n
      BY <1>1, <1>3, <2>3 DEF StackOK
    <3>5. ASSUME \A i \in 2 .. n + 1 : frames'[t][i].caller \in Scoped, Len(stack) = n + 1
          PROVE  stack[1] = Host
      <4>1. \A i \in 2 .. n : frames[t][i].caller \in Scoped
        BY <1>3, <1>7, <3>5
      <4>2. Len(cs) = n /\ cs # <<>>
        BY <1>3, <2>1, <2>3, <3>3, <3>5
      <4>. QED
        BY <1>1, <1>3, <2>3, <3>3, <4>1, <4>2 DEF StackOK
    <3>. QED
      BY <1>3, <2>1, <3>3, <3>4, <3>5
  <2>4. CASE n # 0 /\ c \notin Scoped
    <3>1. c \in Modules
      BY <1>1, <1>3, <2>4, TopType DEF Code, Frame
    <3>2. stack = <<c>> /\ Len(stack) = 1
      BY <2>4, <3>1, RouterAssumption DEF BeforeCall, SetStack, Names
    <3>3. frames'[t][n + 1].caller \notin Scoped /\ n + 1 \in 2 .. n + 1
      BY <1>3, <1>6, <1>7, <2>4
    <3>. QED
      BY <1>3, <3>2, <3>3
  <2>. QED
    BY <2>2, <2>3, <2>4
<1>. QED
  BY <1>1, <1>8, <1>9, <1>10 DEF Inv

\* The end of a call keeps them too: the guard or the C ABI call leaves the
\* stack one name shorter, or the host's name alone.
LEMMA EndCallInv ==
    ASSUME Inv, NEW t \in Threads, EndCall(t)
    PROVE  Inv'
<1>. DEFINE c == Top(t).caller
            cs == callerStack[t]
            stack == AfterCall(cs, c, Top(t).hadPrevious)
            n == Len(frames[t])
<1>1. TypeOK /\ TypeOK' /\ CallsOK(t) /\ StackOK(t) /\ frames[t] # <<>>
  BY EndCallType DEF Inv, EndCall
<1>2. /\ callerStack' = [callerStack EXCEPT ![t] = stack]
      /\ frames' = [frames EXCEPT ![t] = Front(frames[t])]
      /\ links' = links
  BY <1>1 DEF EndCall, TypeOK
<1>3. /\ frames[t] \in Seq(Frame) /\ n \in Nat \ {0} /\ n = Len(frames[t])
      /\ Top(t) = frames[t][n] /\ Top(t) \in Frame
  BY <1>1, FrontLast, TopType DEF TypeOK
<1>4. /\ Len(frames'[t]) = n - 1
      /\ frames'[t] = <<>> <=> n = 1
      /\ \A i \in 1 .. n - 1 : frames'[t][i] = frames[t][i]
  <2>1. frames'[t] = Front(frames[t]) /\ Front(frames[t]) \in Seq(Frame)
    BY <1>1, <1>2, TopType DEF TypeOK
  <2>2. Len(Front(frames[t])) = n - 1
    BY <1>1, <1>3, FrontLast
  <2>3. Front(frames[t]) = <<>> <=> n - 1 = 0
    BY <2>1, <2>2, EmptySeq
  <2>. QED
    BY <1>1, <1>3, <2>1, <2>2, <2>3, FrontLast
<1>. HIDE DEF n
<1>5. ASSUME NEW u \in Threads, u # t
      PROVE  CallsOK(u)' /\ StackOK(u)'
  BY <1>1, <1>2, <1>5 DEF CallsOK, StackOK, Inv, TypeOK
<1>6. CallsOK(t)'
  <2>. SUFFICES ASSUME NEW i \in 1 .. n - 1
                PROVE  /\ frames'[t][i].caller = IF i = 1 THEN Host ELSE frames'[t][i - 1].callee
                       /\ i < n - 1 => frames'[t][i].phase = "run"
                       /\ frames'[t][i].identity \in {frames'[t][i].caller, NoName}
                       /\ frames'[t][i].phase # "done" => frames'[t][i].identity # NoName
                       /\ frames'[t][i].phase \in {"find", "run"} =>
                              <<frames'[t][i].caller, frames'[t][i].callee>> \in links
    BY <1>2, <1>4 DEF CallsOK
  <2>1. i \in 1 .. n /\ i < n
    BY <1>3
  <2>2. frames'[t][i] = frames[t][i] /\ (i # 1 => frames'[t][i - 1] = frames[t][i - 1])
    BY <1>3, <1>4
  <2>. QED
    BY <1>1, <1>3, <2>1, <2>2 DEF CallsOK
<1>7. StackOK(t)'
  <2>. DEFINE depth == IF n = 1 THEN 1 ELSE n - 1
  <2>. SUFFICES /\ Len(stack) <= depth
                /\ (\A i \in 2 .. n - 1 : frames'[t][i].caller \in Scoped) =>
                      (Len(stack) = depth => stack[1] = Host)
    BY <1>1, <1>2, <1>4 DEF StackOK, TypeOK
  <2>1. cs \in Seq(Names) /\ Len(cs) \in Nat /\ Len(cs) <= n
    BY <1>1, <1>3, LenProperties DEF TypeOK, StackOK
  <2>2. CASE n = 1
    <3>1. c = Host
      BY <1>1, <1>3, <2>2 DEF CallsOK
    <3>2. stack = cs /\ (Len(cs) = 1 => cs[1] = Host)
      BY <1>1, <1>3, <2>2, <3>1 DEF AfterCall, StackOK
    <3>. QED
      BY <2>1, <2>2, <3>2
  <2>3. CASE n # 1
    <3>1. c = frames[t][n - 1].callee /\ n \in 1 .. n /\ n - 1 \in 1 .. n
      <4>1. n \in 1 .. n /\ n - 1 \in 1 .. n
        <5>1. \A k \in Nat \ {0} : k \in 1 .. k /\ (k # 1 => k - 1 \in 1 .. k)
          OBVIOUS
        <5>. QED
          BY <1>3, <2>3, <5>1, Zenon
      <4>2. frames[t][n].caller = frames[t][n - 1].callee
        BY <1>1, <1>3, <2>3, <4>1 DEF CallsOK
      <4>. QED
        BY <1>3, <4>1, <4>2
    <3>2. c \in Modules /\ c # Host
      <4>1. frames[t][n - 1] \in Frame
        BY <1>3, <3>1, LenProperties
      <4>. QED
        BY <3>1, <4>1, RouterAssumption DEF Frame
    <3>3. CASE c \in Scoped
      <4>1. stack = DropGuard(cs, Top(t).hadPrevious) /\ Top(t).hadPrevious \in BOOLEAN
        BY <1>3, <3>2, <3>3 DEF AfterCall, Frame
      <4>2. stack \in Seq(Names) /\ Len(stack) \in Nat
        BY <2>1, <4>1, DropGuardType, LenProperties
      <4>3. CASE cs = <<>>
        <5>1. stack = <<>> /\ Len(stack) = 0
          <6>1. DropGuard(cs, Top(t).hadPrevious) = <<>>
            BY <2>1, <4>1, <4>3, DropGuardType
          <6>. QED
            BY <4>1, <6>1
        <5>. QED
          BY <1>3, <2>3, <5>1
      <4>4. CASE cs # <<>>
        <5>1. Len(stack) <= Len(cs) - 1
          BY <2>1, <4>1, <4>4, DropGuardType
        <5>2. ASSUME \A i \in 2 .. n - 1 : frames'[t][i].caller \in Scoped, Len(stack) = n - 1
              PROVE  stack[1] = Host
          <6>1. \A i \in 2 .. n : frames[t][i].caller \in Scoped
            <7>. TAKE i \in 2 .. n
            <7>1. CASE i = n
              BY <1>3, <3>3, <7>1
            <7>2. CASE i # n
              BY <1>3, <1>4, <5>2, <7>2
            <7>. QED
              BY <7>1, <7>2
          <6>2. Len(cs) = n
            BY <1>3, <2>1, <4>2, <5>1, <5>2
          <6>3. cs[1] = Host
            BY <1>1, <1>3, <6>1, <6>2 DEF StackOK
          <6>4. stack # <<>>
            <7>1. Len(stack) # 0
              BY <1>3, <2>3, <5>2
            <7>2. Len(<<>>) = 0
              OBVIOUS
            <7>. QED
              BY <7>1, <7>2, Zenon
          <6>. QED
            BY <2>1, <4>1, <6>3, <6>4, DropGuardType
        <5>. QED
          BY <1>3, <2>1, <2>3, <4>2, <5>1, <5>2
      <4>. QED
        BY <4>3, <4>4
    <3>4. CASE c \notin Scoped
      <4>1. stack = <<Host>>
        BY <3>2, <3>4, RouterAssumption DEF AfterCall, SetStack, Names
      <4>. QED
        BY <1>3, <2>3, <4>1
    <3>. QED
      BY <3>3, <3>4
  <2>. QED
    BY <2>2, <2>3
<1>. QED
  BY <1>1, <1>5, <1>6, <1>7 DEF Inv

\* Inv is inductive.  The hypothesis is the one the code makes: the identity
\* ipc_roundtrip hard-codes is the name of the only PROCESS module.
THEOREM InvInvariant ==
    ASSUME Processes \subseteq {JavaRenderer}
    PROVE  Spec => []Inv
<1>1. Init => Inv
  <2>. SUFFICES ASSUME Init PROVE Inv
    OBVIOUS
  <2>1. TypeOK
    BY DEF Init, TypeOK
  <2>2. ASSUME NEW t \in Threads
        PROVE  CallsOK(t) /\ StackOK(t)
    <3>1. frames[t] = <<>> /\ callerStack[t] = <<>> /\ Len(<<>>) = 0
      BY DEF Init
    <3>. QED
      BY <3>1 DEF CallsOK, StackOK
  <2>. QED
    BY <2>1, <2>2 DEF Inv
<1>2. Inv /\ [Next]_vars => Inv'
  <2>. SUFFICES ASSUME Inv, [Next]_vars PROVE Inv'
    OBVIOUS
  <2>1. ASSUME NEW t \in Threads, NEW name \in {Host, NoName}, SetIdentity(t, name)
        PROVE  Inv'
    <3>1. TypeOK' /\ frames' = frames /\ links' = links
      BY <2>1, SetStackType DEF SetIdentity, Inv, TypeOK, Names
    <3>2. callerStack' = [callerStack EXCEPT ![t] = SetStack(name)] /\ frames[t] = <<>>
      BY <2>1 DEF SetIdentity
    <3>3. ASSUME NEW u \in Threads
          PROVE  CallsOK(u)' /\ StackOK(u)'
      <4>1. CallsOK(u)'
        BY <3>1 DEF Inv, CallsOK
      <4>2. CASE u # t
        BY <3>1, <3>2, <4>1, <4>2 DEF Inv, StackOK, TypeOK
      <4>3. CASE u = t
        <5>1. callerStack'[t] = SetStack(name) /\ frames'[t] = <<>>
          BY <3>1, <3>2 DEF Inv, TypeOK
        <5>2. Len(SetStack(name)) <= 1 /\ (Len(SetStack(name)) = 1 => SetStack(name)[1] = Host)
          BY RouterAssumption DEF SetStack
        <5>. QED
          BY <4>1, <4>3, <5>1, <5>2 DEF StackOK
      <4>. QED
        BY <4>2, <4>3
    <3>. QED
      BY <3>1, <3>3 DEF Inv
  <2>2. ASSUME NEW link \in Topology, AddLink(link)
        PROVE  Inv'
    BY <2>2 DEF AddLink, Inv, TypeOK, CallsOK, StackOK
  <2>3. ASSUME NEW m \in Modules, NEW fns \in SUBSET Functions, RegisterModule(m, fns)
        PROVE  Inv'
    BY <2>3 DEF RegisterModule, Inv, TypeOK, CallsOK, StackOK
  <2>4. ASSUME NEW t \in Threads, NEW callee \in Modules, NEW f \in Functions,
               BeginCall(t, callee, f)
        PROVE  Inv'
    BY <2>4, BeginCallInv
  <2>5. ASSUME NEW t \in Threads, frames[t] # <<>>, Top(t).phase # "done"
        PROVE  /\ Top(t).identity = Top(t).caller /\ Top(t).identity # NoName
               /\ Top(t).phase \in {"find", "run"} => <<Top(t).caller, Top(t).callee>> \in links
    <3>1. Len(frames[t]) \in 1 .. Len(frames[t]) /\ Top(t) = frames[t][Len(frames[t])]
      BY <2>5, FrontLast, TopType DEF Inv, TypeOK
    <3>2. CallsOK(t)
      BY <2>5 DEF Inv
    <3>3. /\ Top(t).identity \in {Top(t).caller, NoName}
          /\ Top(t).phase # "done" => Top(t).identity # NoName
          /\ Top(t).phase \in {"find", "run"} => <<Top(t).caller, Top(t).callee>> \in links
      BY <3>1, <3>2 DEF CallsOK
    <3>. QED
      BY <2>5, <3>3
  <2>6. ASSUME NEW t \in Threads, CheckLink(t)
        PROVE  Inv'
    <3>1. frames[t] # <<>> /\ Top(t).phase = "check"
      BY <2>6 DEF CheckLink
    <3>2. CASE LinkAllowed(Top(t).identity, Top(t).callee) /\ Advance(t, "find", "Ok")
      BY <2>5, <3>1, <3>2, AdvanceInv DEF LinkAllowed, Phases, Statuses
    <3>3. CASE Advance(t, "done", "LinkDenied")
      BY <3>1, <3>3, AdvanceInv DEF Phases, Statuses
    <3>. QED
      BY <2>6, <3>2, <3>3 DEF CheckLink
  <2>7. ASSUME NEW t \in Threads, FindExport(t)
        PROVE  Inv'
    <3>1. frames[t] # <<>> /\ Top(t).phase = "find"
      BY <2>7 DEF FindExport
    <3>2. CASE Advance(t, "run", "Ok")
      BY <2>5, <3>1, <3>2, AdvanceInv DEF Phases, Statuses
    <3>3. CASE Advance(t, "done", "NotFound")
      BY <3>1, <3>3, AdvanceInv DEF Phases, Statuses
    <3>. QED
      BY <2>7, <3>2, <3>3 DEF FindExport
  <2>8. ASSUME NEW t \in Threads, NEW s \in {"Ok", "Runtime"}, Finish(t, s)
        PROVE  Inv'
    BY <2>8, AdvanceInv DEF Finish, Phases, Statuses
  <2>9. ASSUME NEW t \in Threads, EndCall(t)
        PROVE  Inv'
    BY <2>9, EndCallInv
  <2>10. CASE UNCHANGED vars
    BY <2>10 DEF vars, Inv, TypeOK, CallsOK, StackOK
  <2>. QED
    BY <2>1, <2>2, <2>3, <2>4, <2>6, <2>7, <2>8, <2>9, <2>10 DEF Next
<1>. QED
  BY <1>1, <1>2, PTL DEF Spec

\* Every call is checked under the name of the module whose code makes it.
THEOREM CallsAttributedToCaller ==
    ASSUME Processes \subseteq {JavaRenderer}
    PROVE  Spec => []AttributedToCaller
<1>1. Inv => AttributedToCaller
  <2>1. SUFFICES ASSUME Inv, NEW t \in Threads, NEW i \in DOMAIN frames[t]
                 PROVE  frames[t][i].identity \in {frames[t][i].caller, NoName}
    BY DEF AttributedToCaller
  <2>2. frames[t] \in Seq(Frame) /\ CallsOK(t)
    BY <2>1 DEF Inv, TypeOK
  <2>3. i \in 1 .. Len(frames[t])
    BY <2>2
  <2>. QED
    BY <2>2, <2>3 DEF CallsOK
<1>. QED
  BY <1>1, InvInvariant, PTL

\* A wrapper runs only over a declared link from the code that called it.
THEOREM WrappersRunOverDeclaredLinks ==
    ASSUME Processes \subseteq {JavaRenderer}
    PROVE  Spec => []RunsOverDeclaredLink
<1>1. Inv => RunsOverDeclaredLink
  BY LenProperties DEF Inv, TypeOK, CallsOK, RunsOverDeclaredLink
<1>. QED
  BY <1>1, InvInvariant, PTL

\* No sequence of calls leaves more identities on the stack than calls.
THEOREM StackStaysBounded ==
    ASSUME Processes \subseteq {JavaRenderer}
    PROVE  Spec => []StackBounded
<1>1. Inv => StackBounded
  BY DEF Inv, StackOK, StackBounded
<1>. QED
  BY <1>1, InvInvariant, PTL

(* ---------------- the host's identity, when all calls are guarded ---------- *)

\* A step that only rewrites phase and status of a call that is not over.
LEMMA AdvanceGuarded ==
    ASSUME TypeOK, \A u \in Threads : Guarded(u), NEW t \in Threads, frames[t] # <<>>,
           Top(t).phase # "done",
           NEW p \in Phases, NEW s \in Statuses, Advance(t, p, s)
    PROVE  \A u \in Threads : Guarded(u)'
<1>. DEFINE top == [Last(frames[t]) EXCEPT !.phase = p, !.status = s]
            n == Len(frames[t])
<1>1. /\ frames' = [frames EXCEPT ![t] = Append(Front(frames[t]), top)]
      /\ callerStack' = callerStack /\ hostIdentity' = hostIdentity
  BY DEF Advance, TypeOK
<1>2. /\ top \in Frame
      /\ top.caller = Top(t).caller /\ top.hadPrevious = Top(t).hadPrevious
      /\ Top(t) = frames[t][n] /\ n \in Nat \ {0} /\ n = Len(frames[t])
  BY TopType, FrontLast DEF Frame, Top, TypeOK
<1>3. /\ Len(frames'[t]) = n /\ frames'[t] # <<>>
      /\ \A i \in 1 .. n - 1 : frames'[t][i] = frames[t][i]
      /\ frames'[t][n] = top
  <2>1. frames'[t] = Append(Front(frames[t]), top) /\ frames[t] \in Seq(Frame)
    BY <1>1 DEF TypeOK
  <2>. QED
    BY <1>2, <2>1, ReplaceLast
<1>. HIDE DEF top, n
<1>4. \A i \in 1 .. n : /\ frames'[t][i].caller = frames[t][i].caller
                        /\ frames'[t][i].hadPrevious = frames[t][i].hadPrevious
  BY <1>2, <1>3
<1>5. /\ hostIdentity[t] # NoName
      /\ Len(callerStack[t]) = n /\ callerStack[t][1] = Host
      /\ \A i \in 1 .. n : /\ i = 1 => frames[t][i].caller = Host
                           /\ i # 1 => frames[t][i].caller # Host /\ frames[t][i].hadPrevious = TRUE
  BY <1>2 DEF Guarded
<1>6. Guarded(t)'
  BY <1>1, <1>3, <1>4, <1>5 DEF Guarded
<1>. QED
  BY <1>1, <1>6 DEF Guarded, Top, TypeOK

\* A new call: the code of a module pushes its name over what is there.
LEMMA BeginCallGuarded ==
    ASSUME Scoped = Modules, TypeOK, \A u \in Threads : Guarded(u), NEW t \in Threads,
           NEW callee \in Modules, NEW f \in Functions, BeginCall(t, callee, f)
    PROVE  \A u \in Threads : Guarded(u)'
<1>. DEFINE c == Code(t)
            cs == callerStack[t]
            stack == BeforeCall(cs, c)
            who == CurrentCaller(stack)
            call == [caller |-> c, callee |-> callee, function |-> f, identity |-> who,
                     hadPrevious |-> Len(stack) > 1,
                     phase |-> IF who = NoName THEN "done" ELSE "check",
                     status |-> IF who = NoName THEN "LinkDenied" ELSE "Ok"]
            n == Len(frames[t])
<1>1. /\ callerStack' = [callerStack EXCEPT ![t] = stack]
      /\ frames' = [frames EXCEPT ![t] = Append(frames[t], call)]
      /\ hostIdentity' = hostIdentity /\ InCode(t)
  BY DEF BeginCall, TypeOK
<1>2. /\ frames[t] \in Seq(Frame) /\ n \in Nat /\ n = Len(frames[t])
      /\ frames[t] = <<>> <=> n = 0
      /\ cs \in Seq(Names) /\ Len(cs) \in Nat /\ (cs = <<>> <=> Len(cs) = 0)
  BY EmptySeq, LenProperties DEF TypeOK
<1>3. /\ call.caller = c /\ call.hadPrevious = (Len(stack) > 1)
      /\ call.phase = IF who = NoName THEN "done" ELSE "check"
  OBVIOUS
<1>. HIDE DEF call
<1>4. /\ frames'[t] = Append(frames[t], call) /\ frames'[t] # <<>> /\ Len(frames'[t]) = n + 1
      /\ \A i \in 1 .. n : frames'[t][i] = frames[t][i]
      /\ frames'[t][n + 1] = call
      /\ callerStack'[t] = stack
  <2>1. frames'[t] = Append(frames[t], call) /\ callerStack'[t] = stack
    BY <1>1 DEF TypeOK
  <2>. QED
    BY <1>2, <2>1
<1>5. Top(t)' = call
  <2>1. Top(t)' = frames'[t][n + 1]
    BY <1>4 DEF Top, Last
  <2>. QED
    BY <1>4, <2>1
<1>6. /\ hostIdentity[t] = NoName => cs = <<>> /\ n = 0
      /\ hostIdentity[t] # NoName => Len(cs) = (IF n = 0 THEN 1 ELSE n) /\ cs[1] = Host
      /\ \A i \in 1 .. n : /\ i = 1 => frames[t][i].caller = Host
                           /\ i # 1 => frames[t][i].caller # Host /\ frames[t][i].hadPrevious = TRUE
  BY <1>1, <1>2 DEF Guarded, InCode
<1>7. CASE n = 0
  <2>1. c = Host /\ stack = cs
    BY <1>2, <1>7 DEF Code, BeforeCall
  <2>2. cs = <<>> => call.phase = "done"
    <3>1. cs = <<>> => who = NoName
      BY <1>2, <2>1, CurrentCallerType
    <3>. QED
      BY <1>3, <3>1
  <2>3. Len(frames'[t]) = 1 /\ frames'[t][1].caller = Host
    BY <1>3, <1>4, <1>7, <2>1
  <2>4. Guarded(t)'
    BY <1>1, <1>4, <1>5, <1>6, <1>7, <2>1, <2>2, <2>3 DEF Guarded
  <2>. QED
    BY <1>1, <2>4 DEF Guarded, Top, TypeOK
<1>8. CASE n # 0
  <2>1. c \in Modules /\ c # Host
    BY <1>2, <1>8, TopType, RouterAssumption DEF Code, Frame
  <2>2. stack = Append(cs, GuardName(c)) /\ GuardName(c) \in Names
    BY <2>1, GuardNameType DEF BeforeCall, EnterGuard
  <2>3. hostIdentity[t] # NoName /\ Len(cs) = n /\ cs[1] = Host
    BY <1>6, <1>8
  <2>4. Len(stack) = n + 1 /\ stack[1] = Host /\ (Len(stack) > 1) = TRUE
    BY <1>2, <1>8, <2>2, <2>3
  <2>5. ASSUME NEW i \in 1 .. n + 1
        PROVE  /\ i = 1 => frames'[t][i].caller = Host
               /\ i # 1 => frames'[t][i].caller # Host /\ frames'[t][i].hadPrevious = TRUE
    <3>1. CASE i = n + 1
      <4>1. call.caller = c /\ call.hadPrevious = TRUE
        BY <1>3, <2>4
      <4>. QED
        BY <1>2, <1>4, <1>8, <2>1, <3>1, <4>1
    <3>2. CASE i # n + 1
      BY <1>2, <1>4, <1>6, <3>2
    <3>. QED
      BY <3>1, <3>2
  <2>6. Guarded(t)'
    BY <1>1, <1>4, <2>3, <2>4, <2>5 DEF Guarded
  <2>. QED
    BY <1>1, <2>6 DEF Guarded, Top, TypeOK
<1>. QED
  BY <1>7, <1>8

\* The end of a call: the guard of a module pops the name it pushed.
LEMMA EndCallGuarded ==
    ASSUME Scoped = Modules, TypeOK, \A u \in Threads : Guarded(u), NEW t \in Threads, EndCall(t)
    PROVE  \A u \in Threads : Guarded(u)'
<1>. DEFINE c == Top(t).caller
            cs == callerStack[t]
            stack == AfterCall(cs, c, Top(t).hadPrevious)
            n == Len(frames[t])
<1>1. /\ callerStack' = [callerStack EXCEPT ![t] = stack]
      /\ frames' = [frames EXCEPT ![t] = Front(frames[t])]
      /\ hostIdentity' = hostIdentity /\ frames[t] # <<>>
  BY DEF EndCall, TypeOK
<1>2. /\ frames[t] \in Seq(Frame) /\ n \in Nat \ {0} /\ n = Len(frames[t])
      /\ Top(t) = frames[t][n] /\ Top(t) \in Frame
      /\ cs \in Seq(Names) /\ Len(cs) \in Nat
  BY <1>1, FrontLast, TopType, LenProperties DEF TypeOK
<1>3. /\ Len(frames'[t]) = n - 1
      /\ frames'[t] = <<>> <=> n = 1
      /\ \A i \in 1 .. n - 1 : frames'[t][i] = frames[t][i]
  <2>1. frames'[t] = Front(frames[t]) /\ Front(frames[t]) \in Seq(Frame)
    BY <1>1, TopType DEF TypeOK
  <2>2. /\ Len(Front(frames[t])) = n - 1
        /\ \A i \in 1 .. n - 1 : Front(frames[t])[i] = frames[t][i]
    BY <1>1, <1>2, FrontLast DEF n
  <2>3. Front(frames[t]) = <<>> <=> n - 1 = 0
    BY <2>1, <2>2, EmptySeq
  <2>. QED
    BY <1>2, <2>1, <2>2, <2>3
<1>4. callerStack'[t] = stack
  BY <1>1 DEF TypeOK
<1>. HIDE DEF n
<1>5. /\ hostIdentity[t] = NoName => cs = <<>> /\ n = 1
      /\ hostIdentity[t] # NoName => Len(cs) = n /\ cs[1] = Host
      /\ \A i \in 1 .. n : /\ i = 1 => frames[t][i].caller = Host
                           /\ i # 1 => frames[t][i].caller # Host /\ frames[t][i].hadPrevious = TRUE
  BY <1>1, <1>2 DEF Guarded
<1>6. \A i \in 1 .. n - 1 : /\ i = 1 => frames'[t][i].caller = Host
                            /\ i # 1 => frames'[t][i].caller # Host /\ frames'[t][i].hadPrevious = TRUE
  BY <1>2, <1>3, <1>5
<1>7. CASE n = 1
  <2>1. c = Host
    BY <1>2, <1>5, <1>7
  <2>2. stack = cs
    BY <2>1 DEF AfterCall
  <2>3. Guarded(t)'
    BY <1>1, <1>3, <1>4, <1>5, <1>6, <1>7, <2>2 DEF Guarded
  <2>. QED
    BY <1>1, <2>3 DEF Guarded, Top, TypeOK
<1>8. CASE n # 1
  <2>1. n \in 1 .. n
    BY <1>2
  <2>2. c # Host /\ Top(t).hadPrevious = TRUE
    BY <1>2, <1>5, <1>8, <2>1
  <2>3. c \in Scoped
    BY <1>2, <2>2 DEF Frame, Names
  <2>4. hostIdentity[t] # NoName /\ Len(cs) = n /\ cs[1] = Host /\ cs # <<>>
    <3>1. Len(<<>>) = 0
      OBVIOUS
    <3>. QED
      BY <1>2, <1>5, <1>8, <3>1
  <2>5. stack = Front(cs)
    BY <2>2, <2>3, <2>4, Zenon DEF AfterCall, DropGuard
  <2>6. Len(stack) = n - 1 /\ stack[1] = Host
    <3>1. /\ Len(Front(cs)) = Len(cs) - 1
          /\ \A i \in 1 .. Len(cs) - 1 : Front(cs)[i] = cs[i]
      <4>. HIDE DEF cs
      <4>. QED
        BY <1>2, <2>4, FrontLast
    <3>2. 1 \in 1 .. n - 1
      <4>1. \A k \in Nat \ {0} : k # 1 => 1 \in 1 .. k - 1
        OBVIOUS
      <4>. QED
        BY <1>2, <1>8, <4>1, Zenon
    <3>. QED
      BY <2>4, <2>5, <3>1, <3>2
  <2>7. Guarded(t)'
    BY <1>1, <1>3, <1>4, <1>6, <1>8, <2>4, <2>6 DEF Guarded
  <2>. QED
    BY <1>1, <2>7 DEF Guarded, Top, TypeOK
<1>. QED
  BY <1>7, <1>8

\* When every module calls under a CallerGuard, as docs/05-link-enforcement.md
\* demands, the host has its identity back after every nest of calls, denied
\* ones and failed ones included.
THEOREM GuardedCallsKeepIdentity ==
    ASSUME Scoped = Modules
    PROVE  Spec => []HostKeepsIdentity
<1>. DEFINE G == \A u \in Threads : Guarded(u)
<1>1. Init => G
  BY DEF Init, Guarded
<1>2. TypeOK /\ G /\ [Next]_vars => G'
  <2>. SUFFICES ASSUME TypeOK, G, [Next]_vars PROVE G'
    OBVIOUS
  <2>1. ASSUME NEW t \in Threads, NEW name \in {Host, NoName}, SetIdentity(t, name)
        PROVE  G'
    <3>1. /\ callerStack' = [callerStack EXCEPT ![t] = SetStack(name)]
          /\ hostIdentity' = [hostIdentity EXCEPT ![t] = name]
          /\ frames' = frames /\ frames[t] = <<>>
      BY <2>1 DEF SetIdentity
    <3>2. /\ callerStack'[t] = SetStack(name) /\ hostIdentity'[t] = name
          /\ frames'[t] = <<>> /\ Len(<<>>) = 0
      BY <3>1 DEF TypeOK
    <3>3. Guarded(t)'
      BY <3>2, RouterAssumption DEF Guarded, SetStack, Names
    <3>. QED
      BY <3>1, <3>3 DEF Guarded, Top, TypeOK
  <2>2. ASSUME NEW link \in Topology, AddLink(link)
        PROVE  G'
    BY <2>2 DEF AddLink, Guarded, Top
  <2>3. ASSUME NEW m \in Modules, NEW fns \in SUBSET Functions, RegisterModule(m, fns)
        PROVE  G'
    BY <2>3 DEF RegisterModule, Guarded, Top
  <2>4. ASSUME NEW t \in Threads, NEW callee \in Modules, NEW f \in Functions,
               BeginCall(t, callee, f)
        PROVE  G'
    BY <2>4, BeginCallGuarded
  <2>5. ASSUME NEW t \in Threads, CheckLink(t)
        PROVE  G'
    BY <2>5, AdvanceGuarded DEF CheckLink, Phases, Statuses
  <2>6. ASSUME NEW t \in Threads, FindExport(t)
        PROVE  G'
    BY <2>6, AdvanceGuarded DEF FindExport, Phases, Statuses
  <2>7. ASSUME NEW t \in Threads, NEW s \in {"Ok", "Runtime"}, Finish(t, s)
        PROVE  G'
    BY <2>7, AdvanceGuarded DEF Finish, Phases, Statuses
  <2>8. ASSUME NEW t \in Threads, EndCall(t)
        PROVE  G'
    BY <2>8, EndCallGuarded
  <2>9. CASE UNCHANGED vars
    BY <2>9 DEF vars, Guarded, Top
  <2>. QED
    BY <2>1, <2>2, <2>3, <2>4, <2>5, <2>6, <2>7, <2>8, <2>9 DEF Next
<1>3. TypeOK /\ G => HostKeepsIdentity
  <2>. SUFFICES ASSUME TypeOK, G, NEW t \in Threads, frames[t] = <<>>
                PROVE  callerStack[t] = SetStack(hostIdentity[t])
    BY DEF HostKeepsIdentity
  <2>1. CASE hostIdentity[t] = NoName
    BY <2>1 DEF Guarded, SetStack
  <2>2. CASE hostIdentity[t] # NoName
    <3>1. callerStack[t] \in Seq(Names) /\ Len(callerStack[t]) = 1 /\ callerStack[t][1] = Host
      BY <2>2 DEF TypeOK, Guarded
    <3>2. callerStack[t] = <<Host>> /\ hostIdentity[t] = Host
      BY <2>2, <3>1 DEF TypeOK
    <3>. QED
      BY <2>2, <3>2 DEF SetStack
  <2>. QED
    BY <2>1, <2>2
<1>. HIDE DEF G
<1>. QED
  BY <1>1, <1>2, <1>3, TypeCorrect, PTL DEF Spec

(* --------------------- Router implements LinkPolicy ----------------------- *)

\* The callees of the first n calls, as a sequence of module names.
LEMMA CalleesSeq ==
    ASSUME NEW fs \in Seq(Frame), NEW n \in Nat, n <= Len(fs)
    PROVE  LET s == [i \in 1 .. n |-> fs[i].callee]
           IN  /\ s \in Seq(Modules)
               /\ Len(s) = n
               /\ \A i \in 1 .. n : s[i] = fs[i].callee
<1>1. \A i \in 1 .. n : fs[i] \in Frame
  BY LenProperties
<1>2. [i \in 1 .. n |-> fs[i].callee] \in [1 .. n -> Modules]
  BY <1>1 DEF Frame
<1>3. [i \in 1 .. n |-> fs[i].callee] \in Seq(Modules)
  BY <1>2, SeqDef
<1>4. Len([i \in 1 .. n |-> fs[i].callee]) = n
  BY <1>2, <1>3, LenProperties
<1>. QED
  BY <1>3, <1>4

\* The number of calls of t that are in their wrapper.
Depth(t) == IF InCode(t) THEN Len(frames[t]) ELSE Len(frames[t]) - 1

\* It is an index of the stack, or 0.
LEMMA RunningType ==
    ASSUME TypeOK, NEW t \in Threads
    PROVE  /\ Depth(t) \in Nat
           /\ Depth(t) <= Len(frames[t])
           /\ RunningModules(t) \in Seq(Modules)
           /\ Len(RunningModules(t)) = Depth(t)
           /\ \A i \in 1 .. Depth(t) : RunningModules(t)[i] = frames[t][i].callee
<1>1. frames[t] \in Seq(Frame) /\ Len(frames[t]) \in Nat
  BY LenProperties DEF TypeOK
<1>2. frames[t] # <<>> => Len(frames[t]) # 0
  BY <1>1, EmptySeq
<1>3. Depth(t) \in Nat /\ Depth(t) <= Len(frames[t])
  BY <1>1, <1>2 DEF Depth, InCode
<1>4. RunningModules(t) = [i \in 1 .. Depth(t) |-> frames[t][i].callee]
  BY DEF RunningModules, Depth
<1>. QED
  BY <1>1, <1>3, <1>4, CalleesSeq

\* Two sequences of running modules with the same callees are the same.
LEMMA SameRunning ==
    ASSUME TypeOK, TypeOK', NEW t \in Threads, Depth(t)' = Depth(t),
           \A i \in 1 .. Depth(t) : frames'[t][i].callee = frames[t][i].callee
    PROVE  RunningModules(t)' = RunningModules(t)
<1>1. /\ RunningModules(t)' = [i \in 1 .. Depth(t)' |-> frames'[t][i].callee]
      /\ RunningModules(t) = [i \in 1 .. Depth(t) |-> frames[t][i].callee]
  BY DEF RunningModules, Depth
<1>. QED
  BY <1>1

\* What Advance(t, p, s) makes of frames.
LEMMA AdvanceFrames ==
    ASSUME TypeOK, NEW t \in Threads, frames[t] # <<>>,
           NEW p \in Phases, NEW s \in Statuses, Advance(t, p, s)
    PROVE  LET n == Len(frames[t])
           IN  /\ n \in Nat \ {0} /\ Len(frames'[t]) = n /\ frames'[t] # <<>>
               /\ \A i \in 1 .. n : frames'[t][i].callee = frames[t][i].callee
               /\ Top(t)'.phase = p
               /\ \A u \in Threads \ {t} : frames'[u] = frames[u]
               /\ links' = links
<1>. DEFINE top == [Last(frames[t]) EXCEPT !.phase = p, !.status = s]
            n == Len(frames[t])
<1>1. /\ top \in Frame /\ top.phase = p /\ top.callee = frames[t][n].callee
      /\ frames[t] \in Seq(Frame) /\ n \in Nat \ {0}
  BY TopType, FrontLast DEF Frame, Top, TypeOK
<1>2. /\ frames' = [frames EXCEPT ![t] = Append(Front(frames[t]), top)]
      /\ links' = links
  BY DEF Advance, TypeOK
<1>3. /\ frames'[t] = Append(Front(frames[t]), top)
      /\ \A u \in Threads \ {t} : frames'[u] = frames[u]
  BY <1>2 DEF TypeOK
<1>. HIDE DEF top
<1>4. /\ Len(frames'[t]) = n /\ frames'[t] # <<>>
      /\ \A i \in 1 .. n - 1 : frames'[t][i] = frames[t][i]
      /\ frames'[t][n] = top
  BY <1>1, <1>3, ReplaceLast
<1>5. Top(t)' = frames'[t][Len(frames'[t])]
  BY DEF Top, Last
<1>. QED
  BY <1>1, <1>2, <1>3, <1>4, <1>5

\* A step that leaves a thread's calls alone leaves its running modules alone.
LEMMA OthersRunning ==
    ASSUME NEW t \in Threads, frames'[t] = frames[t]
    PROVE  RunningModules(t)' = RunningModules(t)
  BY DEF RunningModules, InCode, Top

\* Every step of Router is a step of LinkPolicy or changes nothing of it.
THEOREM ImplementsLinkPolicy ==
    ASSUME Processes \subseteq {JavaRenderer}
    PROVE  Spec => PolicySpec
<1>. DEFINE running == [t \in Threads |-> RunningModules(t)]
<1>1. Init => Policy!Init
  <2>. SUFFICES ASSUME Init PROVE Policy!Init
    OBVIOUS
  <2>1. ASSUME NEW t \in Threads
        PROVE  RunningModules(t) = <<>>
    <3>1. TypeOK /\ frames[t] = <<>> /\ Depth(t) = 0
      BY DEF Init, TypeOK, Depth, InCode
    <3>. QED
      BY <3>1, RunningType, EmptySeq
  <2>. QED
    BY <2>1 DEF Init, Policy!Init
<1>2. Inv /\ Inv' /\ [Next]_vars => [Policy!Next]_(Policy!vars)
  <2>. SUFFICES ASSUME Inv, Inv', [Next]_vars
                PROVE  Policy!Next \/ UNCHANGED Policy!vars
    BY DEF Policy!vars
  <2>0. TypeOK /\ TypeOK'
    BY DEF Inv
  <2>1. ASSUME links' = links, \A t \in Threads : RunningModules(t)' = RunningModules(t)
        PROVE  UNCHANGED Policy!vars
    BY <2>1 DEF Policy!vars
  <2>2. ASSUME frames' = frames, links' = links
        PROVE  UNCHANGED Policy!vars
    BY <2>1, <2>2, OthersRunning
  <2>3. ASSUME NEW link \in Topology, AddLink(link)
        PROVE  Policy!Next
    <3>1. frames' = frames /\ links' = links \cup {link}
      BY <2>3 DEF AddLink
    <3>2. running' = running
      BY <3>1, OthersRunning
    <3>3. Policy!Declare(link)
      BY <3>1, <3>2 DEF Policy!Declare
    <3>. QED
      BY <3>3 DEF Policy!Next
  <2>4. ASSUME NEW t \in Threads, NEW callee \in Modules, NEW f \in Functions,
               BeginCall(t, callee, f)
        PROVE  UNCHANGED Policy!vars
    <3>1. PICK call \in Frame : /\ frames' = [frames EXCEPT ![t] = Append(frames[t], call)]
                                /\ call.phase # "run" /\ links' = links /\ InCode(t)
      <4>. DEFINE who == CurrentCaller(BeforeCall(callerStack[t], Code(t)))
                  call == [caller |-> Code(t), callee |-> callee, function |-> f, identity |-> who,
                           hadPrevious |-> Len(BeforeCall(callerStack[t], Code(t))) > 1,
                           phase |-> IF who = NoName THEN "done" ELSE "check",
                           status |-> IF who = NoName THEN "LinkDenied" ELSE "Ok"]
      <4>1. Code(t) \in Names
        BY <2>0, TopType DEF Code, Names, Frame
      <4>2. who \in Names \cup {NoName}
        BY <2>0, <4>1, BeforeCallType, CurrentCallerType DEF TypeOK
      <4>3. call \in Frame /\ call.phase # "run"
        BY <4>1, <4>2 DEF Frame, Phases, Statuses
      <4>. HIDE DEF who
      <4>4. frames' = [frames EXCEPT ![t] = Append(frames[t], call)] /\ links' = links /\ InCode(t)
        BY <2>0, <2>4 DEF BeginCall, TypeOK, who
      <4>. QED
        BY <4>3, <4>4
    <3>2. frames'[t] = Append(frames[t], call) /\ frames[t] \in Seq(Frame) /\ Len(frames[t]) \in Nat
      BY <2>0, <3>1, LenProperties DEF TypeOK
    <3>3. /\ frames'[t] # <<>> /\ Len(frames'[t]) = Len(frames[t]) + 1
          /\ \A i \in 1 .. Len(frames[t]) : frames'[t][i] = frames[t][i]
          /\ frames'[t][Len(frames'[t])] = call
      BY <3>2, AppendProperties
    <3>4. Depth(t)' = Len(frames[t]) /\ Depth(t) = Len(frames[t])
      <4>1. ~InCode(t)'
        BY <3>1, <3>3 DEF InCode, Top, Last
      <4>. QED
        BY <3>1, <3>2, <3>3, <4>1 DEF Depth
    <3>5. RunningModules(t)' = RunningModules(t)
      BY <2>0, <3>3, <3>4, SameRunning
    <3>6. \A u \in Threads \ {t} : RunningModules(u)' = RunningModules(u)
      BY <2>0, <3>1, OthersRunning DEF TypeOK
    <3>. QED
      BY <2>1, <3>1, <3>5, <3>6
  <2>5. ASSUME NEW t \in Threads, NEW p \in Phases, NEW s \in Statuses, frames[t] # <<>>,
               Advance(t, p, s), Top(t).phase # "run", p # "run"
        PROVE  UNCHANGED Policy!vars
    <3>1. Depth(t) = Len(frames[t]) - 1 /\ Depth(t)' = Len(frames[t]) - 1
      BY <2>0, <2>5, AdvanceFrames DEF Depth, InCode
    <3>2. RunningModules(t)' = RunningModules(t)
      BY <2>0, <2>5, <3>1, AdvanceFrames, SameRunning
    <3>3. \A u \in Threads \ {t} : RunningModules(u)' = RunningModules(u)
      BY <2>0, <2>5, AdvanceFrames, OthersRunning
    <3>4. links' = links
      BY <2>0, <2>5, AdvanceFrames
    <3>. QED
      BY <2>1, <3>2, <3>3, <3>4
  <2>6. ASSUME NEW t \in Threads, CheckLink(t)
        PROVE  UNCHANGED Policy!vars
    BY <2>5, <2>6 DEF CheckLink, Phases, Statuses
  <2>7. ASSUME NEW t \in Threads, frames[t] # <<>>, Top(t).phase = "find", Advance(t, "run", "Ok")
        PROVE  Policy!Next
    <3>. DEFINE n == Len(frames[t])
                m == Top(t).callee
    <3>1. /\ n \in Nat \ {0} /\ Len(frames'[t]) = n /\ frames'[t] # <<>>
          /\ \A i \in 1 .. n : frames'[t][i].callee = frames[t][i].callee
          /\ Top(t)'.phase = "run" /\ links' = links
          /\ \A u \in Threads \ {t} : frames'[u] = frames[u]
      BY <2>0, <2>7, AdvanceFrames DEF Phases, Statuses
    <3>2. /\ Top(t) \in Frame /\ Top(t) = frames[t][n] /\ m \in Modules
      BY <2>0, <2>7, TopType DEF Frame
    <3>3. Depth(t) = n - 1 /\ Depth(t)' = n
      BY <2>7, <3>1 DEF Depth, InCode
    <3>4. /\ RunningModules(t) \in Seq(Modules) /\ Len(RunningModules(t)) = n - 1
          /\ \A i \in 1 .. n - 1 : RunningModules(t)[i] = frames[t][i].callee
      BY <2>0, <3>3, RunningType
    <3>5. /\ RunningModules(t)' \in Seq(Modules) /\ Len(RunningModules(t)') = n
          /\ \A i \in 1 .. n : RunningModules(t)'[i] = frames'[t][i].callee
      <4>1. /\ Depth(t)' \in Nat
            /\ RunningModules(t)' \in Seq(Modules)
            /\ Len(RunningModules(t)') = Depth(t)'
            /\ \A i \in 1 .. Depth(t)' : RunningModules(t)'[i] = frames'[t][i].callee
        <5>1. [i \in 1 .. Depth(t)' |-> frames'[t][i].callee] = RunningModules(t)'
          BY DEF RunningModules, Depth
        <5>2. frames'[t] \in Seq(Frame)
          BY <2>0 DEF TypeOK
        <5>. QED
          BY <3>1, <3>3, <5>1, <5>2, CalleesSeq
      <4>. QED
        BY <3>3, <4>1
    <3>. HIDE DEF n, m
    <3>6. RunningModules(t)' = Append(RunningModules(t), m)
      <4>1. /\ Append(RunningModules(t), m) \in Seq(Modules)
            /\ Len(Append(RunningModules(t), m)) = n
            /\ \A i \in 1 .. n - 1 : Append(RunningModules(t), m)[i] = frames[t][i].callee
            /\ Append(RunningModules(t), m)[n] = m
        BY <3>1, <3>2, <3>4, AppendProperties
      <4>2. ASSUME NEW i \in 1 .. n
            PROVE  RunningModules(t)'[i] = Append(RunningModules(t), m)[i]
        <5>1. CASE i = n
          BY <3>1, <3>2, <3>5, <4>1, <5>1 DEF m
        <5>2. CASE i # n
          <6>1. i \in 1 .. n - 1
            BY <3>1, <5>2
          <6>. QED
            BY <3>1, <3>5, <4>1, <6>1
        <5>. QED
          BY <5>1, <5>2
      <4>. QED
        BY <3>5, <4>1, <4>2, SeqEqual
    <3>7. <<Policy!RunningCode(t), m>> \in links
      <4>1. n \in 1 .. n /\ CallsOK(t) /\ n = Len(frames[t])
        BY <3>1 DEF Inv, n
      <4>2. <<Top(t).caller, m>> \in links
        BY <2>7, <3>2, <4>1 DEF CallsOK, m
      <4>3. Top(t).caller = IF n = 1 THEN Host ELSE frames[t][n - 1].callee
        BY <3>2, <4>1 DEF CallsOK
      <4>4. Policy!RunningCode(t) = IF RunningModules(t) = <<>> THEN Host
                                    ELSE RunningModules(t)[Len(RunningModules(t))]
        BY DEF Policy!RunningCode, Policy!Last, Last
      <4>5. CASE n = 1
        <5>1. RunningModules(t) = <<>>
          BY <3>4, <4>5, EmptySeq
        <5>. QED
          BY <4>2, <4>3, <4>4, <4>5, <5>1
      <4>6. CASE n # 1
        <5>1. n - 1 \in 1 .. n - 1 /\ n - 1 # 0
          BY <3>1, <4>6
        <5>2. RunningModules(t) # <<>>
          BY <3>4, <5>1, EmptySeq
        <5>. QED
          BY <3>4, <4>2, <4>3, <4>4, <4>6, <5>1, <5>2
      <4>. QED
        BY <4>5, <4>6
    <3>8. \A u \in Threads \ {t} : RunningModules(u)' = RunningModules(u)
      BY <3>1, OthersRunning
    <3>9. running' = [running EXCEPT ![t] = Append(running[t], m)]
      BY <3>6, <3>8
    <3>10. Policy!Start(t, m)
      BY <3>1, <3>7, <3>9 DEF Policy!Start
    <3>. QED
      BY <3>2, <3>10 DEF Policy!Next
  <2>8. ASSUME NEW t \in Threads, FindExport(t)
        PROVE  Policy!Next \/ UNCHANGED Policy!vars
    BY <2>5, <2>7, <2>8 DEF FindExport, Phases, Statuses
  <2>9. ASSUME NEW t \in Threads, NEW s \in {"Ok", "Runtime"}, Finish(t, s)
        PROVE  Policy!Next
    <3>. DEFINE n == Len(frames[t])
    <3>1. frames[t] # <<>> /\ Top(t).phase = "run" /\ Advance(t, "done", s)
      BY <2>9 DEF Finish
    <3>2. /\ n \in Nat \ {0} /\ Len(frames'[t]) = n /\ frames'[t] # <<>>
          /\ \A i \in 1 .. n : frames'[t][i].callee = frames[t][i].callee
          /\ Top(t)'.phase = "done" /\ links' = links
          /\ \A u \in Threads \ {t} : frames'[u] = frames[u]
      BY <2>0, <3>1, AdvanceFrames DEF Phases, Statuses
    <3>3. Depth(t) = n /\ Depth(t)' = n - 1
      BY <3>1, <3>2 DEF Depth, InCode
    <3>4. /\ RunningModules(t) \in Seq(Modules) /\ Len(RunningModules(t)) = n
          /\ \A i \in 1 .. n : RunningModules(t)[i] = frames[t][i].callee
          /\ RunningModules(t) # <<>>
      BY <2>0, <3>2, <3>3, RunningType, EmptySeq
    <3>5. /\ RunningModules(t)' \in Seq(Modules) /\ Len(RunningModules(t)') = n - 1
          /\ \A i \in 1 .. n - 1 : RunningModules(t)'[i] = frames'[t][i].callee
      <4>1. [i \in 1 .. n - 1 |-> frames'[t][i].callee] = RunningModules(t)'
        BY <3>3 DEF RunningModules, Depth
      <4>2. frames'[t] \in Seq(Frame) /\ n - 1 \in Nat /\ n - 1 <= Len(frames'[t])
        BY <2>0, <3>2 DEF TypeOK
      <4>3. PICK fs \in Seq(Frame), k \in Nat : fs = frames'[t] /\ k = n - 1 /\ k <= Len(fs)
        BY <4>2
      <4>. DEFINE cs == [i \in 1 .. k |-> fs[i].callee]
      <4>4. /\ cs \in Seq(Modules) /\ Len(cs) = k
            /\ \A i \in 1 .. k : cs[i] = fs[i].callee
        BY <4>3, CalleesSeq
      <4>. HIDE DEF cs
      <4>5. cs = RunningModules(t)'
        BY <4>1, <4>3 DEF cs
      <4>. QED
        BY <4>3, <4>4, <4>5
    <3>. HIDE DEF n
    <3>6. RunningModules(t)' = Front(RunningModules(t))
      <4>1. /\ Front(RunningModules(t)) \in Seq(Modules)
            /\ Len(Front(RunningModules(t))) = n - 1
            /\ \A i \in 1 .. n - 1 : Front(RunningModules(t))[i] = RunningModules(t)[i]
        BY <3>4, FrontLast
      <4>2. \A i \in 1 .. n - 1 : RunningModules(t)'[i] = Front(RunningModules(t))[i]
        BY <3>2, <3>4, <3>5, <4>1
      <4>. QED
        BY <3>5, <4>1, <4>2, SeqEqual
    <3>7. \A u \in Threads \ {t} : RunningModules(u)' = RunningModules(u)
      BY <3>2, OthersRunning
    <3>8. Policy!Return(t)
      BY <3>2, <3>4, <3>6, <3>7 DEF Policy!Return, Policy!Front, Front
    <3>. QED
      BY <3>8 DEF Policy!Next
  <2>10. ASSUME NEW t \in Threads, EndCall(t)
         PROVE  UNCHANGED Policy!vars
    <3>. DEFINE n == Len(frames[t])
    <3>1. /\ frames[t] # <<>> /\ Top(t).phase = "done" /\ links' = links
          /\ frames' = [frames EXCEPT ![t] = Front(frames[t])]
      BY <2>0, <2>10 DEF EndCall, TypeOK
    <3>2. frames'[t] = Front(frames[t]) /\ frames[t] \in Seq(Frame)
      BY <2>0, <3>1 DEF TypeOK
    <3>3. /\ n \in Nat \ {0} /\ Len(frames'[t]) = n - 1
          /\ \A i \in 1 .. n - 1 : frames'[t][i] = frames[t][i]
      BY <3>1, <3>2, FrontLast
    <3>4. InCode(t)'
      <4>1. frames'[t] # <<>> => n - 1 \in 1 .. n /\ n - 1 < n /\ n - 1 \in 1 .. n - 1
        <5>1. frames'[t] \in Seq(Frame)
          BY <2>0 DEF TypeOK
        <5>2. frames'[t] # <<>> => Len(frames'[t]) \in Nat \ {0}
          BY <5>1, EmptySeq
        <5>. QED
          BY <3>3, <5>2
      <4>2. frames'[t] # <<>> => frames[t][n - 1].phase = "run"
        <5>1. CallsOK(t)
          BY <2>0 DEF Inv
        <5>. QED
          BY <4>1, <5>1 DEF CallsOK
      <4>3. Top(t)' = frames'[t][n - 1]
        BY <3>3 DEF Top, Last
      <4>. QED
        BY <3>3, <4>1, <4>2, <4>3 DEF InCode
    <3>5. Depth(t) = n - 1 /\ Depth(t)' = n - 1
      BY <3>1, <3>3, <3>4 DEF Depth, InCode
    <3>6. RunningModules(t)' = RunningModules(t)
      BY <2>0, <3>3, <3>5, SameRunning
    <3>7. \A u \in Threads \ {t} : RunningModules(u)' = RunningModules(u)
      BY <2>0, <3>1, OthersRunning DEF TypeOK
    <3>. QED
      BY <2>1, <3>1, <3>6, <3>7
  <2>11. ASSUME NEW t \in Threads, NEW name \in {Host, NoName}, SetIdentity(t, name)
         PROVE  UNCHANGED Policy!vars
    BY <2>2, <2>11 DEF SetIdentity
  <2>12. ASSUME NEW m \in Modules, NEW fns \in SUBSET Functions, RegisterModule(m, fns)
         PROVE  UNCHANGED Policy!vars
    BY <2>2, <2>12 DEF RegisterModule
  <2>13. CASE UNCHANGED vars
    BY <2>2, <2>13 DEF vars
  <2>. QED
    BY <2>3, <2>4, <2>6, <2>8, <2>9, <2>10, <2>11, <2>12, <2>13 DEF Next
<1>3. Spec => []Inv
  BY InvInvariant
<1>. QED
  BY <1>1, <1>2, <1>3, PTL DEF Spec, PolicySpec, Policy!Spec
===============================================================================
