---------------------------- MODULE CallData_proof ----------------------------
(***************************************************************************)
(* Theorems about CallData, for every set of threads and functions, every  *)
(* list of parameters and every number of calls.                           *)
(***************************************************************************)
EXTENDS CallData, SequenceTheorems, SetInduction, TLAPS

(* ------------------------ the bytes of an encoding ------------------------ *)

\* An argument has a size.
LEMMA SizeType ==
    ASSUME NEW v \in Value
    PROVE  Size(v) \in Nat
BY DEF Size, Value

\* The sum that Bytes is defined by exists: it can be written for the first k
\* arguments, for every k.
LEMMA SumExists ==
    ASSUME NEW args \in Seq(Value)
    PROVE  \E f : f = [n \in 0 .. Len(args) |-> IF n = 0 THEN 0 ELSE f[n - 1] + Size(args[n])]
<1>. DEFINE N == Len(args)
            Sums(k, f) == \A n \in 0 .. k : f[n] = IF n = 0 THEN 0 ELSE f[n - 1] + Size(args[n])
            S == {k \in Nat : \E f : Sums(k, f)}
<1>1. 0 \in S
  <2>1. Sums(0, [n \in {0} |-> 0])
    OBVIOUS
  <2>. QED
    BY <2>1
<1>2. ASSUME NEW k \in Nat, k \in S
      PROVE  k + 1 \in S
  <2>1. PICK f : Sums(k, f)
    BY <1>2
  <2>. DEFINE g == [n \in 0 .. k + 1 |-> IF n = k + 1 THEN f[k] + Size(args[k + 1]) ELSE f[n]]
  <2>2. ASSUME NEW n \in 0 .. k + 1
        PROVE  g[n] = IF n = 0 THEN 0 ELSE g[n - 1] + Size(args[n])
    <3>1. CASE n = k + 1
      <4>1. n # 0 /\ n - 1 = k /\ n - 1 \in 0 .. k + 1 /\ n - 1 # k + 1
        BY <3>1
      <4>. QED
        BY <3>1, <4>1
    <3>2. CASE n # k + 1
      <4>1. n \in 0 .. k /\ (n # 0 => n - 1 \in 0 .. k + 1 /\ n - 1 # k + 1)
        BY <3>2
      <4>2. f[n] = IF n = 0 THEN 0 ELSE f[n - 1] + Size(args[n])
        BY <2>1, <4>1
      <4>. QED
        BY <3>2, <4>1, <4>2
    <3>. QED
      BY <3>1, <3>2
  <2>3. Sums(k + 1, g)
    BY <2>2
  <2>. HIDE DEF g
  <2>. QED
    BY <2>3
<1>3. N \in S
  <2>. HIDE DEF S
  <2>1. Nat \subseteq S
    BY <1>1, <1>2, Induction
  <2>. QED
    BY <2>1
<1>4. PICK f : Sums(N, f)
  BY <1>3
<1>. DEFINE h == [n \in 0 .. N |-> f[n]]
<1>5. h = [n \in 0 .. N |-> IF n = 0 THEN 0 ELSE h[n - 1] + Size(args[n])]
  <2>1. ASSUME NEW n \in 0 .. N
        PROVE  h[n] = IF n = 0 THEN 0 ELSE h[n - 1] + Size(args[n])
    <3>1. n # 0 => n - 1 \in 0 .. N
      OBVIOUS
    <3>2. f[n] = IF n = 0 THEN 0 ELSE f[n - 1] + Size(args[n])
      BY <1>4
    <3>. QED
      BY <3>1, <3>2
  <2>. QED
    BY <2>1
<1>. HIDE DEF h
<1>. QED
  BY <1>5

\* The bytes of an encoding are a number, nine times the number of arguments if each
\* takes nine bytes.
LEMMA BytesValue ==
    ASSUME NEW args \in Seq(Value)
    PROVE  /\ Bytes(args) \in Nat
           /\ (\A i \in DOMAIN args : Size(args[i]) = 9) => Bytes(args) = 9 * Len(args)
<1>. DEFINE N == Len(args)
            written[n \in 0 .. N] == IF n = 0 THEN 0 ELSE written[n - 1] + Size(args[n])
<1>1. Bytes(args) = written[N]
  BY DEF Bytes
<1>2. written = [n \in 0 .. N |-> IF n = 0 THEN 0 ELSE written[n - 1] + Size(args[n])]
  BY SumExists
<1>. HIDE DEF written
<1>. DEFINE S == {n \in Nat : n <= N =>
                    /\ written[n] \in Nat
                    /\ (\A i \in DOMAIN args : Size(args[i]) = 9) => written[n] = 9 * n}
<1>3. 0 \in S
  BY <1>2
<1>4. ASSUME NEW n \in Nat, n \in S
      PROVE  n + 1 \in S
  <2>. SUFFICES ASSUME n + 1 <= N
                PROVE  /\ written[n + 1] \in Nat
                       /\ (\A i \in DOMAIN args : Size(args[i]) = 9)
                              => written[n + 1] = 9 * (n + 1)
    OBVIOUS
  <2>1. /\ n + 1 \in 0 .. N /\ n + 1 # 0 /\ n + 1 - 1 = n
        /\ n + 1 \in DOMAIN args
        /\ n <= N
    OBVIOUS
  <2>2. written[n + 1] = written[n] + Size(args[n + 1])
    BY <1>2, <2>1
  <2>3. Size(args[n + 1]) \in Nat
    BY <2>1, SizeType
  <2>. QED
    BY <1>4, <2>1, <2>2, <2>3
<1>5. N \in Nat /\ N \in S
  <2>. HIDE DEF S
  <2>1. Nat \subseteq S
    BY <1>3, <1>4, Induction
  <2>. QED
    BY <2>1
<1>. QED
  BY <1>1, <1>5

\* The count of arguments of a callback is a byte.
LEMMA ArgcType ==
    ASSUME NEW args \in Seq(Value)
    PROVE  Argc(args) \in 0 .. 255
<1>. DEFINE n == Bytes(args)
<1>1. n \in Nat
  BY BytesValue
<1>. HIDE DEF n
<1>. DEFINE q == n \div 9
<1>2. q \in Nat
  BY <1>1
<1>. HIDE DEF q
<1>3. q % 256 \in 0 .. 255
  BY <1>2
<1>. QED
  BY <1>3 DEF Argc, n, q

\* It is the right one for up to 255 arguments of nine bytes.
LEMMA ArgcIsRight ==
    ASSUME NEW args \in Seq(Value), Len(args) < 256, \A i \in DOMAIN args : Size(args[i]) = 9
    PROVE  Argc(args) = Len(args)
<1>1. Bytes(args) = 9 * Len(args)
  BY BytesValue
<1>. DEFINE n == Len(args)
<1>2. n \in Nat /\ n < 256
  OBVIOUS
<1>. HIDE DEF n
<1>3. (9 * n) \div 9 = n /\ n % 256 = n
  BY <1>2
<1>. QED
  BY <1>1, <1>3 DEF Argc, n

(* ---------------------------- type correctness ---------------------------- *)

Busy(t) == ~At(t, "idle")

\* How far the call of a thread has got: every slot is written before glucore_call,
\* and the wrapper has read them all when the function executes.
Positioned(t) ==
    LET c == calls[t]
    IN  /\ c.next \in 1 .. Arity(c.function) + 1
        /\ Busy(t) <=> c.id # 0
        /\ c.id <= issued
        /\ c.pc \in {"idle", "pack"} => c.received = <<>>
        /\ c.pc \in {"read", "run", "unpack"} => c.next = Arity(c.function) + 1
        /\ c.pc = "read" => Len(c.received) <= Arity(c.function)
        /\ c.pc = "run" => Len(c.received) = Arity(c.function)

ArraysType ==
    /\ arrays = [f \in Functions |-> arrays[f]]
    /\ \A f \in Functions : arrays[f] \in [1 .. Arity(f) -> Ids \cup {0}]

\* Type correctness, part by part.
DataType ==
    /\ ArraysType
    /\ bytes \subseteq Ids \X Nat
    /\ buffers \subseteq Ids \X ({"result"} \cup Leaks)
CallsType ==
    /\ calls \in [Threads -> Call]
    /\ \A t \in Threads : Positioned(t)
    /\ overlaps \subseteq 1 .. issued
    /\ issued \in 0 .. MaxCalls
TypeInv == DataType /\ CallsType /\ callback \in [Threads -> Callback]

\* The number of parameters of a function.
LEMMA ArityType ==
    ASSUME NEW f \in Functions
    PROVE  /\ Arity(f) \in Nat
           /\ \A i \in 1 .. Arity(f) : Params[f][i] \in Tags
<1>1. Params[f] \in Seq(Tags)
  BY CallDataAssumption
<1>. QED
  BY <1>1, LenProperties, ElementOfSeq DEF Arity

\* A thread that makes no call.
LEMMA IdleType == Idle \in Call /\ Idle.next = 1 /\ Idle.id = 0 /\ Idle.received = <<>> /\ Idle.pc = "idle"
<1>1. (CHOOSE f \in Functions : TRUE) \in Functions
  BY CallDataAssumption
<1>2. <<>> \in Seq(Ids \cup {0})
  OBVIOUS
<1>. QED
  BY <1>1, <1>2 DEF Idle, Call

\* The steps of a thread, as the check of the proof takes them: the ones that end the
\* call are one.
Leaves(t) ==
    /\ Busy(t)
    /\ Leave(t)
    /\ UNCHANGED <<arrays, callback, overlaps, issued>>
Steps(t) ==
    \/ \E f \in Functions : BeginCall(t, f)
    \/ PackArg(t)
    \/ EnterWrapper(t)
    \/ ReadArg(t)
    \/ RunFunction(t)
    \/ \E len \in TextLengths : ReturnValue(t, len)
    \/ Leaves(t) /\ UNCHANGED buffers /\ ~At(t, "unpack")
    \/ Unpack(t)
    \/ \E args \in CallbackArgs, returned \in CallbackReturns \cup {"error"} :
           CallBack(t, args, returned)

\* Every step is one of these or changes nothing.
LEMMA NextSteps ==
    ASSUME [Next]_vars
    PROVE  (\E t \in Threads : Steps(t)) \/ UNCHANGED vars
<1>1. \A t \in Threads : Unpack(t) => Leaves(t)
  BY DEF Unpack, Unpacks, Leaves, Busy, At
<1>2. \A t \in Threads : RaiseTypeError(t) \/ CallFails(t) \/ ReturnError(t)
          => Leaves(t) /\ UNCHANGED buffers /\ ~At(t, "unpack")
  BY DEF RaiseTypeError, CallFails, ReturnError, Leaves, Busy, At
<1>. QED
  BY <1>2 DEF Next, PythonStep, Rest, Steps

\* Only the call of the thread that takes the step changes.
LEMMA OneCallChanges ==
    ASSUME NEW t \in Threads, Steps(t), CallsType
    PROVE  \A u \in Threads : u # t => calls'[u] = calls[u]
BY DEF Steps, CallsType, BeginCall, PackArg, PacksArg, EnterWrapper, ReadArg, RunFunction,
       ReturnValue, Leaves, Leave, Unpack, Unpacks, CallBack

\* A step keeps the type and the position of the call of its thread.
LEMMA CallStep ==
    ASSUME TypeInv, NEW t \in Threads, Steps(t)
    PROVE  /\ calls' = [calls EXCEPT ![t] = calls'[t]]
           /\ calls'[t] \in Call
           /\ Positioned(t)'
           /\ issued' \in 0 .. MaxCalls
           /\ issued' >= issued
           /\ overlaps' \subseteq 1 .. issued'
<1>. USE CallDataAssumption DEF TypeInv, CallsType
<1>. DEFINE c == calls[t]
            Kept == /\ calls' = [calls EXCEPT ![t] = calls'[t]]
                    /\ calls'[t] \in Call
                    /\ Positioned(t)'
                    /\ issued' \in 0 .. MaxCalls
                    /\ issued' >= issued
                    /\ overlaps' \subseteq 1 .. issued'
<1>1. /\ c \in Call
      /\ Positioned(t)
      /\ c.function \in Functions
      /\ Arity(c.function) \in Nat
  BY ArityType DEF Call
<1>2. ASSUME NEW f \in Functions, BeginCall(t, f)
      PROVE  Kept
  <2>. DEFINE d == [Idle EXCEPT !.pc = "pack", !.function = f, !.id = issued + 1]
  <2>1. /\ d \in Call
        /\ d.pc = "pack" /\ d.function = f /\ d.id = issued + 1 /\ d.next = 1 /\ d.received = <<>>
    <3>1. issued + 1 \in Ids
      BY <1>2 DEF BeginCall, Ids
    <3>. QED
      BY <3>1, IdleType DEF Call
  <2>2. /\ calls' = [calls EXCEPT ![t] = d]
        /\ issued' = issued + 1
        /\ issued < MaxCalls
    BY <1>2 DEF BeginCall
  <2>. HIDE DEF d
  <2>3. calls'[t] = d
    BY <2>2
  <2>4. Arity(f) \in Nat
    BY ArityType
  <2>5. Positioned(t)'
    BY <2>1, <2>2, <2>3, <2>4 DEF Positioned, Busy, At, Arity
  <2>6. overlaps' \subseteq 1 .. issued'
    <3>. DEFINE others == {calls[u].id : u \in {v \in Threads : ~At(v, "idle") /\ calls[v].function = f}}
    <3>1. others \subseteq 1 .. issued
      <4>. SUFFICES ASSUME NEW u \in Threads, ~At(u, "idle")
                    PROVE  calls[u].id \in 1 .. issued
        OBVIOUS
      <4>1. Positioned(u) /\ calls[u].id \in Ids \cup {0}
        BY DEF Call
      <4>. QED
        BY <4>1 DEF Positioned, Busy, Ids
    <3>2. overlaps' = overlaps \cup others \cup (IF others = {} THEN {} ELSE {issued + 1})
      BY <1>2 DEF BeginCall
    <3>. HIDE DEF others
    <3>. QED
      BY <2>2, <3>1, <3>2
  <2>. QED
    BY <2>1, <2>2, <2>3, <2>5, <2>6
<1>3. CASE PackArg(t)
  <2>1. /\ calls' = [calls EXCEPT ![t].next = @ + 1]
        /\ c.pc = "pack" /\ c.next <= Arity(c.function)
        /\ UNCHANGED <<overlaps, issued>>
    BY <1>3 DEF PackArg, PacksArg, LastArg, At
  <2>2. /\ calls'[t] \in Call
        /\ calls'[t].next = c.next + 1
    <3>1. c.next + 1 \in Nat
      BY <1>1 DEF Call
    <3>. QED
      BY <1>1, <2>1, <3>1 DEF Call
  <2>3. calls'[t].pc = c.pc /\ calls'[t].function = c.function /\ calls'[t].id = c.id
        /\ calls'[t].received = c.received
    BY <1>1, <2>1 DEF Call
  <2>4. Positioned(t)'
    BY <1>1, <2>1, <2>2, <2>3 DEF Positioned, Busy, At, Arity
  <2>. QED
    BY <2>1, <2>2, <2>4
<1>4. CASE EnterWrapper(t)
  <2>1. /\ calls' = [calls EXCEPT ![t].pc = "read"]
        /\ c.pc = "pack" /\ c.next > Arity(c.function)
        /\ UNCHANGED <<overlaps, issued>>
    BY <1>4 DEF EnterWrapper, At
  <2>2. /\ calls'[t] \in Call
        /\ calls'[t].pc = "read" /\ calls'[t].function = c.function /\ calls'[t].id = c.id
        /\ calls'[t].received = c.received /\ calls'[t].next = c.next
    BY <1>1, <2>1 DEF Call
  <2>3. Positioned(t)'
    BY <1>1, <2>1, <2>2 DEF Positioned, Busy, At, Arity
  <2>. QED
    BY <2>1, <2>2, <2>3
<1>5. CASE ReadArg(t)
  <2>. DEFINE i == Len(c.received) + 1
              s == Slot(c.function, i)
  <2>1. /\ calls' = [calls EXCEPT ![t].received = Append(@, s)]
        /\ c.pc = "read" /\ i <= Arity(c.function)
        /\ UNCHANGED <<overlaps, issued>>
    BY <1>5 DEF ReadArg, At
  <2>2. c.received \in Seq(Ids \cup {0}) /\ Len(c.received) \in Nat
    BY <1>1 DEF Call
  <2>3. s \in Ids \cup {0}
    <3>1. i \in 1 .. Arity(c.function)
      BY <1>1, <2>1, <2>2
    <3>2. arrays[c.function] \in [1 .. Arity(c.function) -> Ids \cup {0}]
      BY <1>1 DEF DataType, ArraysType
    <3>. HIDE DEF i
    <3>. QED
      BY <3>1, <3>2 DEF Slot
  <2>. HIDE DEF s
  <2>4. /\ Append(c.received, s) \in Seq(Ids \cup {0})
        /\ Len(Append(c.received, s)) = i
    BY <2>2, <2>3
  <2>5. /\ calls'[t] \in Call
        /\ calls'[t].pc = c.pc /\ calls'[t].function = c.function /\ calls'[t].id = c.id
        /\ calls'[t].received = Append(c.received, s) /\ calls'[t].next = c.next
    BY <1>1, <2>1, <2>4 DEF Call
  <2>6. Positioned(t)'
    BY <1>1, <2>1, <2>4, <2>5 DEF Positioned, Busy, At, Arity
  <2>. QED
    BY <2>1, <2>5, <2>6
<1>6. CASE RunFunction(t)
  <2>1. /\ calls' = [calls EXCEPT ![t].pc = "run"]
        /\ c.pc = "read" /\ Len(c.received) = Arity(c.function)
        /\ UNCHANGED <<overlaps, issued>>
    BY <1>6 DEF RunFunction, At
  <2>2. /\ calls'[t] \in Call
        /\ calls'[t].pc = "run" /\ calls'[t].function = c.function /\ calls'[t].id = c.id
        /\ calls'[t].received = c.received /\ calls'[t].next = c.next
    BY <1>1, <2>1 DEF Call
  <2>3. Positioned(t)'
    BY <1>1, <2>1, <2>2 DEF Positioned, Busy, At, Arity
  <2>. QED
    BY <2>1, <2>2, <2>3
<1>7. ASSUME NEW len \in TextLengths, ReturnValue(t, len)
      PROVE  Kept
  <2>. DEFINE d == [c EXCEPT !.pc = "unpack", !.len = len]
  <2>1. /\ calls' = [calls EXCEPT ![t] = d]
        /\ c.pc = "run"
        /\ UNCHANGED <<overlaps, issued>>
    BY <1>7 DEF ReturnValue, At
  <2>2. /\ calls'[t] \in Call
        /\ calls'[t].pc = "unpack" /\ calls'[t].function = c.function /\ calls'[t].id = c.id
        /\ calls'[t].received = c.received /\ calls'[t].next = c.next
    BY <1>1, <2>1 DEF Call
  <2>3. Positioned(t)'
    BY <1>1, <2>1, <2>2 DEF Positioned, Busy, At, Arity
  <2>. QED
    BY <2>1, <2>2, <2>3
<1>8. CASE Leaves(t)
  <2>1. calls' = [calls EXCEPT ![t] = Idle] /\ UNCHANGED <<overlaps, issued>>
    BY <1>8 DEF Leaves, Leave
  <2>2. calls'[t] = Idle /\ Idle \in Call /\ Arity(Idle.function) \in Nat
    BY <2>1, IdleType, ArityType DEF Call
  <2>3. Positioned(t)'
    BY <2>1, <2>2, IdleType DEF Positioned, Busy, At, Arity
  <2>. QED
    BY <2>1, <2>2, <2>3
<1>9. CASE Unpack(t)
  <2>1. Leaves(t)
    BY <1>9 DEF Unpack, Unpacks, Leaves, Busy, At
  <2>. QED
    BY <1>8, <2>1
<1>10. CASE UNCHANGED <<calls, overlaps, issued>>
  BY <1>1, <1>10 DEF Positioned, Busy, At, Arity
<1>11. ASSUME NEW args \in CallbackArgs, NEW r \in CallbackReturns \cup {"error"}, CallBack(t, args, r)
       PROVE  Kept
  BY <1>10, <1>11 DEF CallBack
<1>. QED
  BY <1>2, <1>3, <1>4, <1>5, <1>6, <1>7, <1>8, <1>9, <1>10, <1>11 DEF Steps

\* A step keeps the types of the data.
LEMMA DataStep ==
    ASSUME TypeInv, NEW t \in Threads, Steps(t)
    PROVE  DataType' /\ callback' \in [Threads -> Callback]
<1>. USE CallDataAssumption DEF TypeInv, CallsType
<1>. DEFINE c == calls[t]
<1>1. /\ c \in Call
      /\ Positioned(t)
      /\ c.function \in Functions
      /\ Arity(c.function) \in Nat
      /\ c.id \in Ids \cup {0}
      /\ Busy(t) => c.id \in Ids
  BY ArityType DEF Call, Positioned
<1>2. CASE PackArg(t)
  <2>. DEFINE f == c.function
              i == c.next
  <2>1. /\ i <= Arity(f) /\ Busy(t)
        /\ arrays' = [arrays EXCEPT ![f][i] = c.id]
        /\ bytes' \subseteq bytes \cup {<<c.id, i>>}
        /\ UNCHANGED <<buffers, callback>>
    BY <1>2 DEF PackArg, PacksArg, LastArg, Busy, At
  <2>2. i \in 1 .. Arity(f) /\ i \in Nat /\ f \in Functions /\ c.id \in Ids
    BY <1>1, <2>1 DEF Positioned, Call
  <2>3. ArraysType'
    <3>. DEFINE A == [arrays[f] EXCEPT ![i] = c.id]
    <3>1. arrays[f] \in [1 .. Arity(f) -> Ids \cup {0}]
      BY <2>2 DEF DataType, ArraysType
    <3>2. A \in [1 .. Arity(f) -> Ids \cup {0}]
      BY <2>2, <3>1
    <3>3. arrays' = [arrays EXCEPT ![f] = A]
      BY <2>1
    <3>. HIDE DEF A, f
    <3>4. arrays = [h \in Functions |-> arrays[h]]
      BY DEF DataType, ArraysType
    <3>5. \A h \in Functions : arrays'[h] = IF h = f THEN A ELSE arrays[h]
      BY <2>2, <3>3, <3>4
    <3>6. arrays' = [h \in Functions |-> arrays'[h]]
      BY <3>3, <3>4
    <3>. QED
      BY <3>2, <3>5, <3>6 DEF DataType, ArraysType, Arity
  <2>. QED
    BY <2>1, <2>2, <2>3 DEF DataType
<1>3. ASSUME NEW len \in TextLengths, ReturnValue(t, len)
      PROVE  DataType' /\ callback' \in [Threads -> Callback]
  <2>1. /\ Busy(t)
        /\ buffers' = buffers \cup {c.id} \X Allocation(c.function, len)
        /\ UNCHANGED <<arrays, bytes, callback>>
    BY <1>3 DEF ReturnValue, Busy, At
  <2>2. Allocation(c.function, len) \subseteq {"result"} \cup Leaks
    BY DEF Allocation, Leaks
  <2>. QED
    BY <1>1, <2>1, <2>2 DEF DataType, ArraysType, Arity
<1>4. CASE Leaves(t) /\ UNCHANGED buffers
  <2>1. bytes' \subseteq bytes /\ UNCHANGED <<arrays, callback, buffers>>
    BY <1>4 DEF Leaves, Leave
  <2>. QED
    BY <2>1 DEF DataType, ArraysType, Arity
<1>5. CASE Unpack(t)
  <2>1. Busy(t) /\ bytes' \subseteq bytes /\ UNCHANGED <<arrays, callback>>
    BY <1>5 DEF Unpack, Unpacks, Leave, Busy, At
  <2>2. buffers' \subseteq buffers \cup {<<c.id, "undecoded">>}
    BY <1>5 DEF Unpack, Unpacks
  <2>. QED
    BY <1>1, <2>1, <2>2 DEF DataType, ArraysType, Leaks, Arity
<1>6. ASSUME NEW args \in CallbackArgs, NEW r \in CallbackReturns \cup {"error"},
             CallBack(t, args, r)
      PROVE  DataType' /\ callback' \in [Threads -> Callback]
  <2>. DEFINE n == Argc(args)
              decoded == IF n < Len(args) THEN n ELSE Len(args)
              refused == n > Len(args)
              outcome == IF refused THEN "error" ELSE r
              got == IF refused THEN <<>> ELSE SubSeq(args, 1, n)
              k == [sent |-> args, got |-> got]
  <2>1. /\ Busy(t)
        /\ callback' = [callback EXCEPT ![t] = k]
        /\ buffers' = buffers \cup CallbackBuffers(c.id, args, decoded, outcome)
        /\ UNCHANGED <<arrays, bytes>>
    BY <1>6 DEF CallBack, Busy, At
  <2>2. args \in Seq(Value) /\ Len(args) \in Nat
    OBVIOUS
  <2>3. n \in Nat
    <3>1. Argc(args) \in 0 .. 255
      BY <2>2, ArgcType
    <3>2. 0 .. 255 \subseteq Nat
      OBVIOUS
    <3>. QED
      BY <3>1, <3>2, Zenon
  <2>4. got \in Seq(Value)
    <3>1. CASE refused
      BY <3>1
    <3>2. CASE ~refused
      <4>. HIDE DEF n
      <4>1. n \in 0 .. Len(args)
        BY <2>2, <2>3, <3>2
      <4>2. \A i \in 1 .. n : args[i] \in Value
        BY <2>2, <4>1, ElementOfSeq
      <4>3. SubSeq(args, 1, n) \in Seq(Value)
        BY <2>3, <4>2, SubSeqProperties
      <4>. QED
        BY <3>2, <4>3
    <3>. QED
      BY <3>1, <3>2
  <2>. HIDE DEF got, outcome
  <2>5. k \in Callback
    BY <2>2, <2>4 DEF Callback
  <2>6. CallbackBuffers(c.id, args, decoded, outcome) \subseteq {<<c.id, "callback">>}
    BY DEF CallbackBuffers
  <2>. HIDE DEF k
  <2>. QED
    BY <1>1, <2>1, <2>5, <2>6 DEF DataType, ArraysType, Leaks, Arity
<1>7. CASE UNCHANGED <<arrays, bytes, buffers, callback>>
  BY <1>7 DEF DataType, ArraysType, Arity
<1>8. (\E f \in Functions : BeginCall(t, f)) \/ EnterWrapper(t) \/ ReadArg(t) \/ RunFunction(t)
          => UNCHANGED <<arrays, bytes, buffers, callback>>
  BY DEF BeginCall, EnterWrapper, ReadArg, RunFunction
<1>. QED
  BY <1>2, <1>3, <1>4, <1>5, <1>6, <1>7, <1>8 DEF Steps

\* The types hold at the start and are kept by every step.
LEMMA Typed == Spec => []TypeInv
<1>1. Init => TypeInv
  <2>. SUFFICES ASSUME Init
                PROVE  TypeInv
    OBVIOUS
  <2>1. DataType
    BY DEF Init, DataType, ArraysType
  <2>2. calls \in [Threads -> Call] /\ \A t \in Threads : calls[t] = Idle
    BY IdleType DEF Init
  <2>3. \A t \in Threads : Arity(calls[t].function) \in Nat
    BY <2>2, ArityType DEF Call
  <2>4. CallsType
    BY <2>2, <2>3, IdleType, CallDataAssumption DEF Init, CallsType, Positioned, Busy, At
  <2>5. NoCallback \in Callback
    BY DEF NoCallback, Callback
  <2>6. callback \in [Threads -> Callback]
    BY <2>5 DEF Init
  <2>. QED
    BY <2>1, <2>4, <2>6 DEF TypeInv
<1>2. TypeInv /\ [Next]_vars => TypeInv'
  <2>. SUFFICES ASSUME TypeInv, [Next]_vars
                PROVE  TypeInv'
    OBVIOUS
  <2>1. ASSUME NEW t \in Threads, Steps(t)
        PROVE  TypeInv'
    <3>1. \A u \in Threads : u # t => calls'[u] = calls[u]
      BY <2>1, OneCallChanges DEF TypeInv
    <3>2. /\ calls' = [calls EXCEPT ![t] = calls'[t]]
          /\ calls'[t] \in Call
          /\ Positioned(t)'
          /\ issued' \in 0 .. MaxCalls
          /\ issued' >= issued
          /\ overlaps' \subseteq 1 .. issued'
      BY <2>1, CallStep
    <3>3. calls' \in [Threads -> Call]
      BY <3>2 DEF TypeInv, CallsType
    <3>4. ASSUME NEW u \in Threads, u # t
          PROVE  Positioned(u)'
      <4>1. Positioned(u) /\ calls'[u] = calls[u] /\ calls[u].id \in Nat /\ issued \in Nat
        BY <3>1, <3>4 DEF TypeInv, CallsType, Call, Ids
      <4>2. calls'[u].id <= issued'
        BY <3>2, <4>1, CallDataAssumption DEF Positioned
      <4>. QED
        BY <4>1, <4>2 DEF Positioned, Busy, At, Arity
    <3>5. CallsType'
      BY <3>2, <3>3, <3>4 DEF CallsType
    <3>. QED
      BY <2>1, <3>5, DataStep DEF TypeInv
  <2>2. CASE UNCHANGED vars
    BY <2>2 DEF vars, TypeInv, DataType, ArraysType, CallsType, Positioned, Busy, At, Arity
  <2>. QED
    BY <2>1, <2>2, NextSteps
<1>. QED
  BY <1>1, <1>2, PTL DEF Spec

\* Every variable keeps its type, and no caller writes past the end of its array.
THEOREM TypeCorrect == Spec => []TypeOK
<1>1. TypeInv => TypeOK
  <2>. SUFFICES ASSUME TypeInv
                PROVE  TypeOK
    OBVIOUS
  <2>1. ASSUME NEW t \in Threads
        PROVE  calls[t].next <= Arity(calls[t].function) + 1
    <3>1. /\ calls[t].next \in 1 .. Arity(calls[t].function) + 1
          /\ calls[t].function \in Functions
      BY DEF TypeInv, CallsType, Positioned, Call
    <3>2. Arity(calls[t].function) \in Nat
      BY <3>1, ArityType
    <3>. QED
      BY <3>1, <3>2
  <2>. QED
    BY <2>1 DEF TypeInv, DataType, ArraysType, CallsType, TypeOK
<1>. QED
  BY <1>1, Typed, PTL

(* ------------------------- the arguments of calls ------------------------- *)

\* The calls that are under way at once are different ones, and those of one function
\* have met.
Distinct ==
    \A t, u \in Threads : Busy(t) /\ Busy(u) /\ t # u =>
        /\ calls[t].id # calls[u].id
        /\ calls[t].function = calls[u].function => calls[t].id \in overlaps

\* What a call has stored and read: the slots before next hold the call itself, as
\* does what the wrapper received, unless it met another call of its function; the
\* texts before next are alive.
Stored(t) ==
    LET c == calls[t]
    IN  /\ c.id \notin overlaps =>
             /\ \A i \in 1 .. c.next - 1 : arrays[c.function][i] = c.id
             /\ \A i \in DOMAIN c.received : c.received[i] = c.id
        /\ \A i \in 1 .. c.next - 1 :
               Params[c.function][i] \in Texts => <<c.id, i>> \in bytes

ArgsInv == Distinct /\ \A t \in Threads : Busy(t) => Stored(t)

\* Two calls keep apart.
LEMMA DistinctStep ==
    ASSUME TypeInv, Distinct, [Next]_vars
    PROVE  Distinct'
<1>1. ASSUME NEW t \in Threads, Steps(t)
      PROVE  Distinct'
  <2>. SUFFICES ASSUME NEW u \in Threads, NEW v \in Threads, u # v, Busy(u)', Busy(v)'
                PROVE  (/\ calls[u].id # calls[v].id
                        /\ calls[u].function = calls[v].function => calls[u].id \in overlaps)'
    BY DEF Distinct
  <2>1. \A w \in Threads : w # t => calls'[w] = calls[w] /\ Busy(w)' = Busy(w)
    BY <1>1, OneCallChanges DEF TypeInv, Busy, At
  <2>2. CASE \E f \in Functions : BeginCall(t, f)
    <3>1. PICK f \in Functions : BeginCall(t, f)
      BY <2>2
    <3>. DEFINE others == {calls[w].id : w \in {x \in Threads : ~At(x, "idle") /\ calls[x].function = f}}
    <3>2. /\ calls'[t].id = issued + 1
          /\ calls'[t].function = f
          /\ overlaps' = overlaps \cup others \cup (IF others = {} THEN {} ELSE {issued + 1})
          /\ At(t, "idle")
      BY <3>1, IdleType DEF BeginCall, TypeInv, CallsType, Call
    <3>3. ASSUME NEW w \in Threads, w # t, Busy(w)
          PROVE  /\ calls[w].id # issued + 1
                 /\ calls[w].function = f => calls[w].id \in overlaps' /\ issued + 1 \in overlaps'
      <4>1. calls[w].id <= issued /\ calls[w].id \in Nat /\ issued \in Nat
        <5>1. Positioned(w) /\ calls[w].id \in Ids \cup {0} /\ issued \in 0 .. MaxCalls
          BY DEF TypeInv, CallsType, Call
        <5>. QED
          BY <5>1, CallDataAssumption DEF Positioned, Ids
      <4>2. calls[w].function = f => calls[w].id \in others
        BY <3>3 DEF Busy
      <4>. HIDE DEF others
      <4>. QED
        BY <3>2, <4>1, <4>2
    <3>. HIDE DEF others
    <3>4. overlaps \subseteq overlaps'
      BY <3>2
    <3>. QED
      BY <2>1, <3>2, <3>3, <3>4 DEF Distinct
  <2>3. CASE /\ Busy(t)' => Busy(t) /\ calls'[t].id = calls[t].id /\ calls'[t].function = calls[t].function
             /\ overlaps' = overlaps
    BY <2>1, <2>3 DEF Distinct
  <2>4. Steps(t) => \/ \E f \in Functions : BeginCall(t, f)
                    \/ /\ overlaps' = overlaps
                       /\ Busy(t)' =>
                            Busy(t) /\ calls'[t].id = calls[t].id /\ calls'[t].function = calls[t].function
    <3>. USE DEF TypeInv, CallsType, Busy, At, Call
    <3>1. PackArg(t) \/ EnterWrapper(t) \/ ReadArg(t) \/ RunFunction(t)
              => Busy(t) /\ calls'[t].id = calls[t].id /\ calls'[t].function = calls[t].function
                 /\ overlaps' = overlaps
      BY DEF PackArg, PacksArg, EnterWrapper, ReadArg, RunFunction
    <3>2. \A len \in TextLengths : ReturnValue(t, len)
              => Busy(t) /\ calls'[t].id = calls[t].id /\ calls'[t].function = calls[t].function
                 /\ overlaps' = overlaps
      BY DEF ReturnValue
    <3>3. Leaves(t) \/ Unpack(t) => ~Busy(t)' /\ overlaps' = overlaps
      BY IdleType DEF Leaves, Leave, Unpack, Unpacks
    <3>4. \A args \in CallbackArgs, r \in CallbackReturns \cup {"error"} :
              CallBack(t, args, r) => UNCHANGED <<calls, overlaps>>
      BY DEF CallBack
    <3>. QED
      BY <3>1, <3>2, <3>3, <3>4 DEF Steps
  <2>. QED
    BY <1>1, <2>2, <2>3, <2>4
<1>2. CASE UNCHANGED vars
  BY <1>2 DEF vars, Distinct, Busy, At
<1>. QED
  BY <1>1, <1>2, NextSteps

\* A step of one thread leaves what another one's call has stored.
LEMMA OthersStay ==
    ASSUME TypeInv, ArgsInv, NEW t \in Threads, Steps(t), NEW u \in Threads, u # t, Busy(u)
    PROVE  Stored(u)'
<1>. DEFINE c == calls[u]
<1>1. calls'[u] = c /\ Stored(u) /\ c.function \in Functions
  BY OneCallChanges DEF TypeInv, CallsType, Call, ArgsInv
<1>2. overlaps \subseteq overlaps'
  BY DEF Steps, BeginCall, PackArg, PacksArg, EnterWrapper, ReadArg, RunFunction,
         ReturnValue, Leaves, Unpack, Unpacks, CallBack
<1>3. c.id \notin overlaps => arrays'[c.function] = arrays[c.function]
  <2>1. CASE PackArg(t)
    <3>1. Busy(t)
      BY <2>1 DEF PackArg, PacksArg, Busy, At
    <3>2. c.id \notin overlaps => calls[t].function # c.function
      BY <3>1 DEF ArgsInv, Distinct
    <3>3. arrays' = [arrays EXCEPT ![calls[t].function][calls[t].next] = calls[t].id]
      BY <2>1 DEF PackArg, PacksArg
    <3>. QED
      BY <1>1, <3>2, <3>3 DEF TypeInv, DataType, ArraysType
  <2>2. CASE ~PackArg(t)
    <3>1. arrays' = arrays
      BY <2>2 DEF Steps, BeginCall, EnterWrapper, ReadArg, RunFunction,
             ReturnValue, Leaves, Unpack, Unpacks, CallBack
    <3>. QED
      BY <3>1
  <2>. QED
    BY <2>1, <2>2
<1>4. \A i \in 1 .. c.next - 1 : <<c.id, i>> \in bytes => <<c.id, i>> \in bytes'
  <2>1. CASE bytes \subseteq bytes'
    BY <2>1
  <2>2. CASE Leaves(t) \/ Unpack(t)
    <3>1. Busy(t) /\ bytes' = {b \in bytes : b[1] # calls[t].id}
      BY <2>2 DEF Leaves, Unpack, Unpacks, Leave, Busy, At
    <3>2. calls[t].id # c.id
      BY <3>1 DEF ArgsInv, Distinct
    <3>. QED
      BY <3>1, <3>2
  <2>3. Leaves(t) \/ Unpack(t) \/ bytes \subseteq bytes'
    BY DEF Steps, BeginCall, PackArg, PacksArg, EnterWrapper, ReadArg, RunFunction,
           ReturnValue, CallBack
  <2>. QED
    BY <2>1, <2>2, <2>3
<1>. QED
  BY <1>1, <1>2, <1>3, <1>4 DEF Stored

\* What the call of the thread that takes the step has stored stays, too, and what it
\* stores or reads is its own.
LEMMA OwnIsStored ==
    ASSUME TypeInv, ArgsInv, NEW t \in Threads, Steps(t), Busy(t)'
    PROVE  Stored(t)'
<1>. USE CallDataAssumption
<1>. DEFINE c == calls[t]
<1>1. /\ calls \in [Threads -> Call]
      /\ c \in Call
      /\ Positioned(t)
      /\ c.function \in Functions
      /\ Arity(c.function) \in Nat
      /\ c.next \in Nat
      /\ Busy(t) => Stored(t)
  BY ArityType DEF TypeInv, CallsType, Call, ArgsInv
<1>2. ASSUME NEW f \in Functions, BeginCall(t, f)
      PROVE  Stored(t)'
  <2>1. calls'[t].next = 1 /\ calls'[t].received = <<>>
    BY <1>1, <1>2, IdleType DEF BeginCall, Call
  <2>. QED
    BY <2>1 DEF Stored
<1>3. CASE PackArg(t)
  <2>. DEFINE f == c.function
              i == c.next
  <2>1. /\ Busy(t) /\ i <= Arity(f) /\ c.pc = "pack"
        /\ calls' = [calls EXCEPT ![t].next = i + 1]
        /\ arrays' = [arrays EXCEPT ![f][i] = c.id]
        /\ bytes' = IF Params[f][i] \in Texts THEN bytes \cup {<<c.id, i>>} ELSE bytes
        /\ overlaps' = overlaps
    BY <1>3 DEF PackArg, PacksArg, LastArg, Tag, Busy, At
  <2>2. /\ calls'[t].function = f /\ calls'[t].id = c.id /\ calls'[t].next = i + 1
        /\ calls'[t].received = <<>>
    BY <1>1, <2>1 DEF Call, Positioned
  <2>3. /\ arrays'[f][i] = c.id
        /\ \A j \in 1 .. i - 1 : arrays'[f][j] = arrays[f][j]
    <3>1. arrays[f] \in [1 .. Arity(f) -> Ids \cup {0}] /\ f \in DOMAIN arrays
      BY <1>1 DEF TypeInv, DataType, ArraysType
    <3>2. arrays'[f] = [arrays[f] EXCEPT ![i] = c.id]
      BY <2>1, <3>1
    <3>3. i \in 1 .. Arity(f)
      BY <1>1, <2>1 DEF Positioned
    <3>. QED
      BY <1>1, <3>1, <3>2, <3>3
  <2>4. Stored(t)
    BY <1>1, <2>1
  <2>5. ASSUME NEW j \in 1 .. i
        PROVE  /\ c.id \notin overlaps => arrays'[f][j] = c.id
               /\ Params[f][j] \in Texts => <<c.id, j>> \in bytes'
    <3>1. CASE j = i
      BY <2>1, <2>3, <3>1
    <3>2. CASE j # i
      <4>1. j \in 1 .. i - 1
        BY <1>1, <3>2
      <4>. QED
        BY <2>1, <2>3, <2>4, <4>1 DEF Stored
    <3>. QED
      BY <3>1, <3>2
  <2>6. calls'[t].next - 1 = i /\ DOMAIN calls'[t].received = {}
    BY <1>1, <2>2
  <2>. HIDE DEF f, i
  <2>7. ASSUME NEW j \in 1 .. calls'[t].next - 1
        PROVE  /\ calls'[t].id \notin overlaps'
                      => arrays'[calls'[t].function][j] = calls'[t].id
               /\ Params[calls'[t].function][j] \in Texts => <<calls'[t].id, j>> \in bytes'
    BY <2>1, <2>2, <2>5, <2>6
  <2>. QED
    BY <2>6, <2>7 DEF Stored
<1>4. CASE ReadArg(t)
  <2>. DEFINE f == c.function
              n == Len(c.received)
              s == arrays[f][n + 1]
  <2>1. /\ Busy(t) /\ n + 1 <= Arity(f) /\ c.pc = "read"
        /\ calls' = [calls EXCEPT ![t].received = Append(@, s)]
        /\ UNCHANGED <<arrays, bytes, overlaps>>
    BY <1>4 DEF ReadArg, Slot, Busy, At
  <2>2. /\ calls'[t].function = f /\ calls'[t].id = c.id /\ calls'[t].next = c.next
        /\ calls'[t].received = Append(c.received, s)
    BY <1>1, <2>1 DEF Call
  <2>3. c.received \in Seq(Ids \cup {0}) /\ n \in Nat
    BY <1>1 DEF Call
  <2>4. Stored(t)
    BY <1>1, <2>1
  <2>5. ASSUME c.id \notin overlaps
        PROVE  \A i \in DOMAIN Append(c.received, s) : Append(c.received, s)[i] = c.id
    <3>1. s = c.id
      <4>1. n + 1 \in 1 .. c.next - 1
        BY <1>1, <2>1, <2>3 DEF Positioned
      <4>. QED
        BY <2>4, <2>5, <4>1 DEF Stored
    <3>2. s \in Ids \cup {0}
      BY <1>1, <3>1 DEF Call
    <3>. HIDE DEF s
    <3>3. \A i \in DOMAIN c.received : c.received[i] = c.id
      BY <2>4, <2>5 DEF Stored
    <3>. QED
      BY <2>3, <3>1, <3>2, <3>3
  <2>. HIDE DEF f, s
  <2>. QED
    BY <2>1, <2>2, <2>4, <2>5 DEF Stored, f
<1>5. CASE EnterWrapper(t) \/ RunFunction(t) \/ (\E len \in TextLengths : ReturnValue(t, len))
  <2>1. /\ Busy(t)
        /\ UNCHANGED <<arrays, bytes, overlaps>>
        /\ calls'[t].function = c.function /\ calls'[t].id = c.id /\ calls'[t].next = c.next
        /\ calls'[t].received = c.received
    BY <1>1, <1>5 DEF EnterWrapper, RunFunction, ReturnValue, Busy, At, Call
  <2>. QED
    BY <1>1, <2>1 DEF Stored
<1>6. ASSUME NEW args \in CallbackArgs, NEW r \in CallbackReturns \cup {"error"},
             CallBack(t, args, r)
      PROVE  Stored(t)'
  <2>1. Busy(t) /\ UNCHANGED <<arrays, bytes, overlaps, calls>>
    BY <1>6 DEF CallBack, Busy, At
  <2>. QED
    BY <1>1, <2>1 DEF Stored
<1>7. ~Leaves(t) /\ ~Unpack(t)
  BY <1>1, IdleType DEF Leaves, Leave, Unpack, Unpacks, Busy, At
<1>. QED
  BY <1>2, <1>3, <1>4, <1>5, <1>6, <1>7 DEF Steps

\* The arguments hold at the start and are kept by every step.
LEMMA ArgsHold == Spec => []ArgsInv
<1>1. Init => ArgsInv
  BY IdleType DEF Init, ArgsInv, Distinct, Busy, At
<1>2. TypeInv /\ ArgsInv /\ [Next]_vars => ArgsInv'
  <2>. SUFFICES ASSUME TypeInv, ArgsInv, [Next]_vars
                PROVE  ArgsInv'
    OBVIOUS
  <2>1. Distinct'
    BY DistinctStep DEF ArgsInv
  <2>2. ASSUME NEW u \in Threads, Busy(u)'
        PROVE  Stored(u)'
    <3>1. ASSUME NEW t \in Threads, Steps(t)
          PROVE  Stored(u)'
      <4>1. CASE t = u
        BY <2>2, <3>1, <4>1, OwnIsStored
      <4>2. CASE t # u
        <5>1. Busy(u)
          BY <2>2, <3>1, <4>2, OneCallChanges DEF Busy, At, TypeInv
        <5>. QED
          BY <3>1, <4>2, <5>1, OthersStay
      <4>. QED
        BY <4>1, <4>2
    <3>2. CASE UNCHANGED vars
      BY <2>2, <3>2 DEF vars, ArgsInv, Stored, Busy, At
    <3>. QED
      BY <3>1, <3>2, NextSteps
  <2>. QED
    BY <2>1, <2>2 DEF ArgsInv
<1>. QED
  BY <1>1, <1>2, Typed, PTL DEF Spec

\* A function executes with the arguments of its call, unless the call met another
\* one of the same function.
THEOREM ArgumentsArrive == Spec => []ArgsArrive
<1>1. TypeInv /\ ArgsInv => ArgsArrive
  <2>. SUFFICES ASSUME TypeInv, ArgsInv, NEW t \in Threads, NEW i \in DOMAIN calls[t].received,
                       calls[t].id \notin overlaps
                PROVE  calls[t].received[i] = calls[t].id
    BY DEF ArgsArrive
  <2>1. Busy(t)
    BY DEF TypeInv, CallsType, Positioned, Busy, At
  <2>. QED
    BY <2>1 DEF ArgsInv, Stored
<1>. QED
  BY <1>1, Typed, ArgsHold, PTL

\* The addresses a wrapper follows are those of bytes objects that are alive.
THEOREM BytesAreLive == Spec => []ReadsLiveBytes
<1>1. TypeInv /\ ArgsInv => ReadsLiveBytes
  <2>. DEFINE c(t) == calls[t]
  <2>. SUFFICES ASSUME TypeInv, ArgsInv, NEW t \in Threads, At(t, "read") \/ At(t, "run"),
                       c(t).id \notin overlaps, NEW i \in 1 .. Arity(c(t).function),
                       Params[c(t).function][i] \in Texts
                PROVE  <<IF i <= Len(c(t).received) THEN c(t).received[i]
                                                    ELSE Slot(c(t).function, i), i>> \in bytes
    BY DEF ReadsLiveBytes
  <2>1. /\ Stored(t)
        /\ c(t).next = Arity(c(t).function) + 1
        /\ Arity(c(t).function) \in Nat
        /\ c(t).received \in Seq(Ids \cup {0})
    BY ArityType DEF ArgsInv, TypeInv, CallsType, Positioned, Busy, At, Call
  <2>2. i \in 1 .. c(t).next - 1
    BY <2>1
  <2>3. <<c(t).id, i>> \in bytes /\ Slot(c(t).function, i) = c(t).id
    BY <2>1, <2>2 DEF Stored, Slot
  <2>4. i <= Len(c(t).received) => c(t).received[i] = c(t).id
    BY <2>1 DEF Stored
  <2>. QED
    BY <2>3, <2>4
<1>. QED
  BY <1>1, Typed, ArgsHold, PTL

(* --------------------------- results and callbacks ------------------------ *)

\* The buffer of a result belongs to a call that has returned with a text.
ResultsInv ==
    \A b \in buffers :
        \/ b[2] \in Leaks
        \/ \E t \in Threads : /\ At(t, "unpack")
                              /\ b[1] = calls[t].id
                              /\ Returns[calls[t].function] \in Texts

\* Every step keeps it.
LEMMA ResultsStep ==
    ASSUME TypeInv, ArgsInv, ResultsInv, [Next]_vars
    PROVE  ResultsInv'
<1>1. ASSUME NEW t \in Threads, Steps(t)
      PROVE  ResultsInv'
  <2>. SUFFICES ASSUME NEW b \in buffers', b[2] \notin Leaks
                PROVE  \E u \in Threads : (/\ At(u, "unpack")
                                          /\ b[1] = calls[u].id
                                          /\ Returns[calls[u].function] \in Texts)'
    BY DEF ResultsInv
  <2>1. \A u \in Threads : u # t => calls'[u] = calls[u]
    BY <1>1, OneCallChanges DEF TypeInv
  <2>2. ASSUME NEW len \in TextLengths, ReturnValue(t, len), b \notin buffers
        PROVE  (/\ At(t, "unpack")
                /\ b[1] = calls[t].id
                /\ Returns[calls[t].function] \in Texts)'
    <3>1. b \in {calls[t].id} \X Allocation(calls[t].function, len)
      BY <2>2 DEF ReturnValue
    <3>2. b[1] = calls[t].id /\ b[2] \in Allocation(calls[t].function, len)
      BY <3>1
    <3>3. Returns[calls[t].function] \in Texts
      BY <3>2 DEF Allocation, Leaks
    <3>4. calls'[t].pc = "unpack" /\ calls'[t].id = calls[t].id
          /\ calls'[t].function = calls[t].function
      BY <2>2 DEF ReturnValue, TypeInv, CallsType, Call
    <3>. QED
      BY <3>2, <3>3, <3>4 DEF At
  <2>3. CASE Unpack(t)
    <3>1. b \in buffers
      BY <2>3 DEF Unpack, Unpacks, Leaks
    <3>2. PICK u \in Threads : /\ At(u, "unpack")
                               /\ b[1] = calls[u].id
                               /\ Returns[calls[u].function] \in Texts
      BY <3>1 DEF ResultsInv
    <3>3. u # t
      <4>. SUFFICES ASSUME u = t
                    PROVE  b \notin buffers'
        OBVIOUS
      <4>1. b = <<calls[t].id, "result">>
        BY <3>1, <3>2 DEF TypeInv, DataType
      <4>. QED
        BY <2>3, <3>1, <3>2, <4>1 DEF Unpack, Unpacks
    <3>. QED
      BY <2>1, <3>2, <3>3 DEF At
  <2>4. CASE b \in buffers /\ ~Unpack(t)
    <3>1. PICK u \in Threads : /\ At(u, "unpack")
                               /\ b[1] = calls[u].id
                               /\ Returns[calls[u].function] \in Texts
      BY <2>4 DEF ResultsInv
    <3>2. CASE u = t
      <4>1. calls' = calls
        BY <1>1, <2>4, <3>1, <3>2
           DEF At, Steps, BeginCall, PackArg, PacksArg, EnterWrapper, ReadArg, RunFunction,
               ReturnValue, CallBack
      <4>. QED
        BY <3>1, <4>1 DEF At
    <3>3. CASE u # t
      BY <2>1, <3>1, <3>3 DEF At
    <3>. QED
      BY <3>2, <3>3
  <2>5. b \in buffers \/ Unpack(t) \/ \E len \in TextLengths : ReturnValue(t, len)
    <3>1. ASSUME NEW args \in CallbackArgs, NEW r \in CallbackReturns \cup {"error"},
                 CallBack(t, args, r)
          PROVE  b \in buffers
      <4>1. PICK k : k \in {{}, {<<calls[t].id, "callback">>}} /\ buffers' = buffers \cup k
        BY <3>1 DEF CallBack, CallbackBuffers
      <4>. QED
        BY <4>1 DEF Leaks
    <3>. QED
      BY <1>1, <3>1 DEF Steps, BeginCall, PackArg, PacksArg, EnterWrapper, ReadArg, RunFunction
  <2>. QED
    BY <2>2, <2>3, <2>4, <2>5
<1>2. CASE UNCHANGED vars
  BY <1>2 DEF vars, ResultsInv, At
<1>. QED
  BY <1>1, <1>2, NextSteps

\* Whatever is allocated for a result is freed by its caller, but for the known leaks.
THEOREM ResultsAreFreed == Spec => []BuffersFreed
<1>1. Init => ResultsInv
  BY DEF Init, ResultsInv
<1>2. TypeInv /\ ArgsInv /\ ResultsInv /\ [Next]_vars => ResultsInv'
  BY ResultsStep
<1>3. ResultsInv => BuffersFreed
  BY DEF ResultsInv, BuffersFreed
<1>. QED
  BY <1>1, <1>2, <1>3, Typed, ArgsHold, PTL DEF Spec

\* The lists of arguments whose count glucoreCall gets right: each argument takes nine
\* bytes (a number, or a text of four), and the count is a byte.
NineBytesEach ==
    \A args \in CallbackArgs : Len(args) < 256 /\ \A i \in DOMAIN args : Size(args[i]) = 9

\* A callback with such arguments is dispatched with all of them.
THEOREM CallbacksArrive == ASSUME NineBytesEach PROVE Spec => []CallbackArgsArrive
<1>1. Init => CallbackArgsArrive
  <2>1. NoCallback.got = NoCallback.sent
    BY DEF NoCallback
  <2>. QED
    BY <2>1 DEF Init, CallbackArgsArrive
<1>2. TypeInv /\ CallbackArgsArrive /\ [Next]_vars => CallbackArgsArrive'
  <2>. SUFFICES ASSUME TypeInv, CallbackArgsArrive, [Next]_vars
                PROVE  CallbackArgsArrive'
    OBVIOUS
  <2>1. CASE UNCHANGED callback
    BY <2>1 DEF CallbackArgsArrive
  <2>2. ASSUME NEW t \in Threads, NEW args \in CallbackArgs,
               NEW r \in CallbackReturns \cup {"error"}, CallBack(t, args, r)
        PROVE  CallbackArgsArrive'
    <3>1. args \in Seq(Value)
      BY CallDataAssumption
    <3>2. Argc(args) = Len(args)
      BY <3>1, ArgcIsRight DEF NineBytesEach
    <3>3. ~(Len(args) > Len(args)) /\ SubSeq(args, 1, Len(args)) = args
      BY <3>1
    <3>4. callback' = [callback EXCEPT ![t] = [sent |-> args, got |-> args]]
      BY <2>2, <3>2, <3>3 DEF CallBack
    <3>. QED
      BY <3>4 DEF CallbackArgsArrive, TypeInv
  <2>3. (\E t \in Threads, args \in CallbackArgs, r \in CallbackReturns \cup {"error"} :
             CallBack(t, args, r)) \/ UNCHANGED callback
    BY NextSteps
       DEF Steps, BeginCall, PackArg, PacksArg, EnterWrapper, ReadArg, RunFunction,
           ReturnValue, Leaves, Unpack, Unpacks, vars
  <2>. QED
    BY <2>1, <2>2, <2>3
<1>. QED
  BY <1>1, <1>2, Typed, PTL DEF Spec
===============================================================================
