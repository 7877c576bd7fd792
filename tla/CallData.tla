------------------------------- MODULE CallData -------------------------------
(***************************************************************************)
(* The data of a call: from the generated Python callers                   *)
(* (adapters/python/adapter.py, glu_types.py) through the array of         *)
(* arguments into a module (adapters/rust, adapters/cpp, or the codec of   *)
(* core/src/fctp.rs and adapters/java for a PROCESS module), the callbacks *)
(* of a PROCESS module, and the way back with the buffers that are         *)
(* allocated on it.  That a call finds its module is Router's subject, and *)
(* that each frame finds its call IpcSession's.                            *)
(*                                                                         *)
(* A value is its type tag and, for a text (String or Buffer), its length. *)
(* Argument i of call c is written <<c, i>>: a number is in its slot of    *)
(* the array, of a text the slot has the address of a bytes object.        *)
(***************************************************************************)
EXTENDS Naturals, Sequences

CONSTANTS Threads,        (* threads of the Python program                    *)
          Functions,      (* the callers of the proxies                       *)
          Params,         (* the parameter tags of each function              *)
          Returns,        (* the return tag of each function                  *)
          Process,        (* the functions of a PROCESS module ...            *)
          Cpp,            (* ... and those of C++ modules; the rest are Rust  *)
          TextLengths,    (* lengths of the texts that are returned           *)
          BadUtf8,        (* modules that are not Rust may return invalid UTF-8 *)
          CallbackArgs,   (* the argument lists of callbacks                  *)
          CallbackReturns,(* the return tags of the functions called back     *)
          MaxCalls        (* bound on the calls of a behaviour                *)

Texts == {"String", "Buffer"}
Tags == {"Int", "Float"} \cup Texts
Value == [tag : Tags, len : Nat]

ASSUME CallDataAssumption ==
    /\ Functions # {}
    /\ Params \in [Functions -> Seq(Tags)]
    /\ Returns \in [Functions -> Tags]
    /\ Process \subseteq Functions
    /\ Cpp \subseteq Functions \ Process
    /\ TextLengths \subseteq Nat
    /\ BadUtf8 \in BOOLEAN
    /\ CallbackArgs \subseteq Seq(Value)
    /\ CallbackReturns \subseteq Tags
    /\ MaxCalls \in Nat

VARIABLES arrays,   (* reusable_arr of each function, as the call that wrote each slot *)
          bytes,    (* the bytes objects that are alive, as <<call, argument>>         *)
          buffers,  (* the allocations not freed: whose, and what for                  *)
          calls,    (* what each thread is in                                          *)
          callback, (* history: the last callback served on each thread                *)
          overlaps, (* history: the calls that met another one of their function       *)
          issued    (* the number of calls made                                        *)

vars == <<arrays, bytes, buffers, calls, callback, overlaps, issued>>

Ids == 1 .. MaxCalls

\* "pack": in the code before glucore_call, next its position; "read": in the
\* wrapper, received the slots it has read; "run": the function executes;
\* "unpack": glucore_call has returned with a value of len bytes.
Call == [pc : {"idle", "pack", "read", "run", "unpack"}, function : Functions, id : Ids \cup {0},
         next : Nat, received : Seq(Ids \cup {0}), len : Nat]

Idle == [pc |-> "idle", function |-> CHOOSE f \in Functions : TRUE, id |-> 0,
         next |-> 1, received |-> <<>>, len |-> 0]

\* A callback: the arguments sent and those that were dispatched (none when the
\* request was refused).
Callback == [sent : Seq(Value), got : Seq(Value)]
NoCallback == [sent |-> <<>>, got |-> <<>>]

Arity(f) == Len(Params[f])
At(t, pc) == calls[t].pc = pc

Init ==
    /\ arrays = [f \in Functions |-> [i \in 1 .. Arity(f) |-> 0]]
    /\ bytes = {}
    /\ buffers = {}
    /\ calls = [t \in Threads |-> Idle]
    /\ callback = [t \in Threads |-> NoCallback]
    /\ overlaps = {}
    /\ issued = 0

(* ------------------------- the Python caller ----------------------------- *)

\* caller(*args) with the right number of arguments; with another it raises
\* before it has touched anything.  Other threads may be in the same caller.
BeginCall(t, f) ==
    /\ At(t, "idle")
    /\ issued < MaxCalls
    /\ issued' = issued + 1
    /\ LET others == {calls[u].id : u \in {v \in Threads : ~At(v, "idle") /\ calls[v].function = f}}
       IN  overlaps' = overlaps \cup others \cup (IF others = {} THEN {} ELSE {issued + 1})
    /\ calls' = [calls EXCEPT ![t] = [Idle EXCEPT !.pc = "pack", !.function = f, !.id = issued + 1]]
    /\ UNCHANGED <<arrays, bytes, buffers, callback>>

\* The frame of the caller goes, and the bytes its locals held.
Leave(t) ==
    /\ bytes' = {b \in bytes : b[1] # calls[t].id}
    /\ calls' = [calls EXCEPT ![t] = Idle]

\* The argument at position next, if not after last, is stored, and held by a local.
PacksArg(t, last, stored, held) ==
    LET c == calls[t]
    IN  /\ At(t, "pack")
        /\ c.next <= last
        /\ arrays' = IF stored THEN [arrays EXCEPT ![c.function][c.next] = c.id] ELSE arrays
        /\ bytes' = IF held THEN bytes \cup {<<c.id, c.next>>} ELSE bytes
        /\ calls' = [calls EXCEPT ![t].next = @ + 1]
        /\ UNCHANGED <<buffers, callback, overlaps, issued>>

LastArg(t) == Arity(calls[t].function)
Tag(t) == Params[calls[t].function][calls[t].next]

\* Mutants of PackArg: a Float is not stored; no local keeps the bytes object; the
\* end of the parameters is missed.
PackArgNoFloat(t) == PacksArg(t, LastArg(t), Tag(t) # "Float", Tag(t) \in Texts)
PackArgNoLocal(t) == PacksArg(t, LastArg(t), TRUE, FALSE)
PackArgPast(t) == PacksArg(t, LastArg(t) + 1, TRUE, FALSE)

\* arr[i] = ...: the argument has the type of its parameter.
PackArg(t) == PacksArg(t, LastArg(t), TRUE, Tag(t) \in Texts)

\* raise TypeError: the arguments before this one are in the array already.
RaiseTypeError(t) ==
    /\ At(t, "pack")
    /\ calls[t].next <= Arity(calls[t].function)
    /\ Leave(t)
    /\ UNCHANGED <<arrays, buffers, callback, overlaps, issued>>

\* glucore_call, as far as it does not reach the wrapper: the call raises.
CallFails(t) ==
    /\ At(t, "pack")
    /\ calls[t].next > Arity(calls[t].function)
    /\ Leave(t)
    /\ UNCHANGED <<arrays, buffers, callback, overlaps, issued>>

\* glucore_call: the interpreter lock is released and the wrapper entered.
EnterWrapper(t) ==
    /\ At(t, "pack")
    /\ calls[t].next > Arity(calls[t].function)
    /\ calls' = [calls EXCEPT ![t].pc = "read"]
    /\ UNCHANGED <<arrays, bytes, buffers, callback, overlaps, issued>>

(* ------------------------------ the wrapper ------------------------------ *)

\* What the tag of parameter i makes of its slot: the number in it, or the bytes
\* at the address in it, given by the call that wrote it (encode_call).
Slot(f, i) == arrays[f][i]

\* The wrapper reads the slots one after the other and copies what it finds: the
\* unpackers of a Rust or C++ wrapper, or the loop of encode_call, after which
\* the process decodes tag and value by turns.
ReadArg(t) ==
    LET c == calls[t]
        i == Len(c.received) + 1
    IN  /\ At(t, "read")
        /\ i <= Arity(c.function)
        /\ calls' = [calls EXCEPT ![t].received = Append(@, Slot(c.function, i))]
        /\ UNCHANGED <<arrays, bytes, buffers, callback, overlaps, issued>>

RunFunction(t) ==
    /\ At(t, "read")
    /\ Len(calls[t].received) = Arity(calls[t].function)
    /\ calls' = [calls EXCEPT ![t].pc = "run"]
    /\ UNCHANGED <<arrays, bytes, buffers, callback, overlaps, issued>>

\* What a return value of len bytes costs: Rust and decode_result allocate
\* nothing for an empty text, C++ one byte that unpack_return does not free.
Allocation(f, len) ==
    CASE Returns[f] \notin Texts \/ (len = 0 /\ f \notin Cpp) -> {}
      [] Returns[f] \in Texts /\ len > 0 -> {"result"}
      [] OTHER -> {"empty"}

\* The function returns, and the wrapper or the codec packs the value.
ReturnValue(t, len) ==
    LET c == calls[t]
    IN  /\ At(t, "run")
        /\ buffers' = buffers \cup {c.id} \X Allocation(c.function, len)
        /\ calls' = [calls EXCEPT ![t].pc = "unpack", ![t].len = len]
        /\ UNCHANGED <<arrays, bytes, callback, overlaps, issued>>

\* It panics, throws or answers with an error: the caller raises.
ReturnError(t) ==
    /\ At(t, "run")
    /\ Leave(t)
    /\ UNCHANGED <<arrays, buffers, callback, overlaps, issued>>

\* Whether the bytes of a result can be decoded.
Decodes(f) ==
    IF BadUtf8 /\ Returns[f] = "String" /\ f \in Cpp \cup Process THEN {TRUE, FALSE} ELSE {TRUE}

Unpacks(t, freed) ==
    LET f == calls[t].function
        result == {<<calls[t].id, "result">>} \cap buffers
    IN  /\ At(t, "unpack")
        /\ \E decoded \in Decodes(f) :
              buffers' = CASE decoded /\ Returns[f] \in freed -> buffers \ result
                           [] ~decoded /\ result # {} ->
                                  (buffers \ result) \cup {<<calls[t].id, "undecoded">>}
                           [] OTHER -> buffers
        /\ Leave(t)
        /\ UNCHANGED <<arrays, callback, overlaps, issued>>

\* Mutant of Unpack: a Buffer is not freed.
UnpackNoFree(t) == Unpacks(t, {"String"})

\* unpack_return: a text that is not empty is copied and freed; a String that
\* cannot be decoded raises in between.
Unpack(t) == Unpacks(t, Texts)

(* ------------------------------- callbacks ------------------------------- *)

\* The bytes of an encoded argument: tag and value, or tag, length and text.
Size(v) == IF v.tag \in Texts THEN 5 + v.len ELSE 9

\* Those of all arguments, one after the other.
Bytes(args) ==
    LET written[n \in 0 .. Len(args)] ==
            IF n = 0 THEN 0 ELSE written[n - 1] + Size(args[n])
    IN  written[Len(args)]

\* Mutant of Argc: the division is missing.
ArgcBytes(args) == Bytes(args) % 256

\* glucoreCall: the count of arguments is computed from the length of their
\* encoding, and written as one byte.
Argc(args) == (Bytes(args) \div 9) % 256

\* The texts decode_callback_call copied, and the one that was returned, belong
\* to nobody: encode_callback_result puts eight bytes of the value in the answer,
\* of a text its address, under the Float tag whatever was returned.
CallbackBuffers(c, args, n, returned) ==
    IF returned \in Texts \/ \E j \in 1 .. n : args[j].tag \in Texts /\ args[j].len > 0
    THEN {<<c, "callback">>} ELSE {}

\* A function of a PROCESS module calls back: glucoreCall, decode_callback_call,
\* the dispatch and encode_callback_result.  The content of the answer is left out.
CallBack(t, args, returned) ==
    LET n == Argc(args)
        c == calls[t]
        decoded == IF n < Len(args) THEN n ELSE Len(args)
        refused == n > Len(args)              \* "missing arg tag": not dispatched
        outcome == IF refused THEN "error" ELSE returned
    IN  /\ At(t, "run")
        /\ c.function \in Process
        /\ callback' = [callback EXCEPT ![t] =
               [sent |-> args, got |-> IF refused THEN <<>> ELSE SubSeq(args, 1, n)]]
        /\ buffers' = buffers \cup CallbackBuffers(c.id, args, decoded, outcome)
        /\ UNCHANGED <<arrays, bytes, calls, overlaps, issued>>

(* ----------------------------- specification ----------------------------- *)

\* All calls are over and the program makes no more.
Rest == /\ issued = MaxCalls
        /\ \A t \in Threads : At(t, "idle")
        /\ UNCHANGED vars

PythonStep(t) == PackArg(t) \/ RaiseTypeError(t) \/ CallFails(t) \/ EnterWrapper(t) \/ Unpack(t)

Next ==
    \/ \E t \in Threads :
        \/ \E f \in Functions : BeginCall(t, f)
        \/ PythonStep(t)
        \/ ReadArg(t) \/ RunFunction(t)
        \/ \E len \in TextLengths : ReturnValue(t, len)
        \/ ReturnError(t)
        \/ \E args \in CallbackArgs, returned \in CallbackReturns \cup {"error"} :
               CallBack(t, args, returned)
    \/ Rest

Spec == Init /\ [][Next]_vars

(* ------------------------------- properties ------------------------------ *)

\* What nobody frees: the byte of an empty C++ text, a String that is not UTF-8,
\* the texts of a callback.
Leaks == {"empty", "undecoded", "callback"}

\* Type invariant.
TypeOK ==
    /\ \A f \in Functions : arrays[f] \in [1 .. Arity(f) -> Ids \cup {0}]
    /\ bytes \subseteq Ids \X Nat
    /\ buffers \subseteq Ids \X ({"result"} \cup Leaks)
    /\ calls \in [Threads -> Call]
    /\ \A t \in Threads : calls[t].next <= Arity(calls[t].function) + 1
    /\ callback \in [Threads -> Callback]
    /\ overlaps \subseteq 1 .. issued
    /\ issued \in 0 .. MaxCalls

\* A function executes with the arguments of its call and no other's, although
\* all calls of a function go through one array, with calls that raised half way
\* or were mixed up in between (docs/07-performance.md: "the caller is not
\* re-entered"): only calls of one function that overlap get each other's.
ArgsArrive ==
    \A t \in Threads : \A i \in DOMAIN calls[t].received :
        calls[t].received[i] = calls[t].id \/ calls[t].id \in overlaps

\* The wrapper only follows addresses of bytes objects that Python still holds,
\* and a borrowed argument stays valid until the function returns, with the same
\* exception.
ReadsLiveBytes ==
    \A t \in Threads : At(t, "read") \/ At(t, "run") =>
        LET c == calls[t]
        IN  c.id \in overlaps \/
            \A i \in 1 .. Arity(c.function) : Params[c.function][i] \in Texts =>
                <<IF i <= Len(c.received) THEN c.received[i] ELSE Slot(c.function, i), i>> \in bytes

\* Every buffer the core hands out is freed by the caller it goes to, and but for
\* the three leaks above none is left at rest (docs/09-api-reference.md: "must be
\* freed via glucore_free_buffer(ptr, len) after the caller copies the bytes").
BuffersFreed ==
    \A b \in buffers : b[2] \in Leaks \/ \E t \in Threads : At(t, "unpack") /\ b[1] = calls[t].id

\* A callback is dispatched with the arguments the process encoded.
CallbackArgsArrive == \A t \in Threads : callback[t].got = callback[t].sent
===============================================================================
