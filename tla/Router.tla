-------------------------------- MODULE Router --------------------------------
(***************************************************************************)
(* core/src/router.rs with the tables of core/src/handles.rs, and the way  *)
(* each kind of code calls through it.                                     *)
(*                                                                         *)
(* Each thread has a stack of caller identities (CALLER_STACK) and a stack *)
(* of calls in progress.  Three kinds of code make calls:                  *)
(*   - the host (Python) calls glucore_call as it stands;                  *)
(*   - the ARTIFACT modules outside Scoped set their identity through the  *)
(*     C ABI before the call and set the host's after it                   *)
(*     (physics coreffi::call_as, cpp_engine accelerate_via_render);       *)
(*   - the Scoped modules call under a CallerGuard: router::call_as, and   *)
(*     the PROCESS modules, for which ipc_roundtrip enters the guard.      *)
(* A wrapper is abstracted to its control: it may make calls of its own    *)
(* and then returns Ok or Runtime.                                         *)
(***************************************************************************)
EXTENDS Naturals, Sequences, SequencesExt

CONSTANTS Threads,       (* threads of the host process                        *)
          Modules,       (* names of the modules that can be registered        *)
          Processes,     (* the PROCESS modules among them                     *)
          Scoped,        (* the modules whose calls run under a CallerGuard    *)
          Host,          (* "python", also the name the C ABI callers restore  *)
          NoName,        (* no caller identity                                 *)
          JavaRenderer,  (* the literal "java_renderer" of ipc_roundtrip       *)
          Functions,     (* export names                                       *)
          Topology,      (* the pairs of glucore.toml [links]                  *)
          MaxDepth       (* bound on the calls in progress on one thread       *)

Names == Modules \cup {Host}

ASSUME RouterAssumption ==
    /\ Host \notin Modules
    /\ NoName \notin Names
    /\ Processes \subseteq Scoped
    /\ Scoped \subseteq Modules
    /\ JavaRenderer \in Modules
    /\ Topology \subseteq Names \X Modules
    /\ MaxDepth \in Nat

VARIABLES links,        (* LINKS, as the set of its pairs                      *)
          exports,      (* REGISTRY: what find_export answers for each module  *)
          callerStack,  (* CALLER_STACK of each thread                         *)
          frames,       (* the calls in progress on each thread                *)
          hostIdentity  (* history: what the host last set on each thread      *)

vars == <<links, exports, callerStack, frames, hostIdentity>>

Phases == {"check", "find", "run", "done"}
Statuses == {"Ok", "Runtime", "NotFound", "LinkDenied"}

(* One call: who makes it, whom it is for, the identity dispatch read, the  *)
(* had_previous flag of its CallerGuard, how far dispatch is, its result.   *)
Frame == [caller : Names, callee : Modules, function : Functions,
          identity : Names \cup {NoName}, hadPrevious : BOOLEAN,
          phase : Phases, status : Statuses]

Top(t) == Last(frames[t])

\* The code thread t executes when no dispatch is under way on it.
Code(t) == IF frames[t] = <<>> THEN Host ELSE Top(t).callee

\* Module code (or the host's) is in control of t and may act.
InCode(t) == frames[t] # <<>> => Top(t).phase = "run"

\* The session of a PROCESS module carries one call at a time: a CALL that
\* arrives while an earlier one on t is open is not executed by the module.
Reentered(t) == \E i \in 1 .. Len(frames[t]) - 1 :
                   /\ frames[t][i].callee = Top(t).callee
                   /\ Top(t).callee \in Processes

(* -------------------------- the identity stack -------------------------- *)

\* Mutant of CurrentCaller: the bottom of the stack is read.
FirstCaller(stack) == IF stack = <<>> THEN NoName ELSE Head(stack)

\* current_caller_bytes
CurrentCaller(stack) == IF stack = <<>> THEN NoName ELSE Last(stack)

\* Mutant of SetStack: the null name is pushed too.
SetStackNullToo(name) == <<name>>

\* glucore_set_caller_identity: clear, then push unless the name is null.
SetStack(name) == IF name = NoName THEN <<>> ELSE <<name>>

\* The name a Scoped module's calls run under.
GuardName(m) == IF m \in Processes THEN JavaRenderer ELSE m

\* CallerGuard::enter
EnterGuard(stack, m) == Append(stack, GuardName(m))

\* Mutant of DropGuard: the pop is missing.
DropGuardNoPop(stack, hadPrevious) ==
    IF ~hadPrevious /\ Len(stack) > 1 THEN <<Head(stack)>> ELSE stack

\* Drop for CallerGuard
DropGuard(stack, hadPrevious) ==
    LET rest == IF stack = <<>> THEN <<>> ELSE Front(stack)
    IN  IF ~hadPrevious /\ Len(rest) > 1 THEN <<Head(rest)>> ELSE rest

\* What the code c does to its thread's stack just before dispatch ...
BeforeCall(stack, c) == IF c = Host THEN stack
                        ELSE IF c \in Scoped THEN EnterGuard(stack, c)
                        ELSE SetStack(c)

\* Mutant of AfterCall: the C ABI callers do not set the host's name again.
AfterCallNoReset(stack, c, hadPrevious) ==
    IF c \in Scoped THEN DropGuard(stack, hadPrevious) ELSE stack

\* ... and once the call has returned.
AfterCall(stack, c, hadPrevious) == IF c = Host THEN stack
                                    ELSE IF c \in Scoped THEN DropGuard(stack, hadPrevious)
                                    ELSE SetStack(Host)

(* ------------------------------- operations ------------------------------ *)

Init == /\ links = {}
        /\ exports = [m \in Modules |-> {}]
        /\ callerStack = [t \in Threads |-> <<>>]
        /\ frames = [t \in Threads |-> <<>>]
        /\ hostIdentity = [t \in Threads |-> NoName]

\* glucore_set_caller_identity called by the host, on the thread that loads
\* the core; any other thread starts with an empty stack.
SetIdentity(t, name) ==
    /\ frames[t] = <<>>
    /\ callerStack' = [callerStack EXCEPT ![t] = SetStack(name)]
    /\ hostIdentity' = [hostIdentity EXCEPT ![t] = name]
    /\ UNCHANGED <<links, exports, frames>>

\* glucore_add_link
AddLink(link) ==
    /\ links' = links \cup {link}
    /\ UNCHANGED <<exports, callerStack, frames, hostIdentity>>

\* glucore_register_module: a later registration of the name replaces an
\* earlier one in both indexes.
RegisterModule(m, fns) ==
    /\ exports' = [exports EXCEPT ![m] = fns]
    /\ UNCHANGED <<links, callerStack, frames, hostIdentity>>

\* The code in control of t calls callee.f, up to dispatch's read of the
\* identity: without one the call is over.  A callback for "java_renderer" is
\* answered by ipc_roundtrip before any guard or dispatch.
BeginCall(t, callee, f) ==
    LET c == Code(t)
        stack == BeforeCall(callerStack[t], c)
        who == CurrentCaller(stack)
        denied == who = NoName
    IN  /\ InCode(t)
        /\ Len(frames[t]) < MaxDepth
        /\ frames[t] # <<>> => ~Reentered(t)
        /\ ~(c \in Processes /\ callee = JavaRenderer)
        /\ callerStack' = [callerStack EXCEPT ![t] = stack]
        /\ frames' = [frames EXCEPT ![t] = Append(@,
               [caller |-> c, callee |-> callee, function |-> f, identity |-> who,
                hadPrevious |-> Len(stack) > 1,
                phase |-> IF denied THEN "done" ELSE "check",
                status |-> IF denied THEN "LinkDenied" ELSE "Ok"])]
        /\ UNCHANGED <<links, exports, hostIdentity>>

\* The call on top of t moves to phase p with status s.
Advance(t, p, s) ==
    /\ frames' = [frames EXCEPT ![t] =
           Append(Front(@), [Last(@) EXCEPT !.phase = p, !.status = s])]
    /\ UNCHANGED <<links, exports, callerStack, hostIdentity>>

\* Mutant of LinkAllowed: a link from anyone is enough.
LinkFromAnyone(caller, callee) == \E c \in Names : <<c, callee>> \in links

\* is_link_allowed_bytes: the pair itself has to be in the table.
LinkAllowed(caller, callee) == <<caller, callee>> \in links

\* dispatch, the link check.
CheckLink(t) ==
    /\ frames[t] # <<>>
    /\ Top(t).phase = "check"
    /\ \/ LinkAllowed(Top(t).identity, Top(t).callee) /\ Advance(t, "find", "Ok")
       \/ ~LinkAllowed(Top(t).identity, Top(t).callee) /\ Advance(t, "done", "LinkDenied")

\* dispatch, find_export; with an entry the wrapper is entered.
FindExport(t) ==
    /\ frames[t] # <<>>
    /\ Top(t).phase = "find"
    /\ \/ Top(t).function \in exports[Top(t).callee] /\ Advance(t, "run", "Ok")
       \/ Top(t).function \notin exports[Top(t).callee] /\ Advance(t, "done", "NotFound")

\* The wrapper returns to dispatch, and dispatch to the calling code.
Finish(t, s) ==
    /\ frames[t] # <<>>
    /\ Top(t).phase = "run"
    /\ Advance(t, "done", s)

\* The calling code takes the result and ends its call discipline.
EndCall(t) ==
    /\ frames[t] # <<>>
    /\ Top(t).phase = "done"
    /\ callerStack' = [callerStack EXCEPT ![t] =
           AfterCall(@, Top(t).caller, Top(t).hadPrevious)]
    /\ frames' = [frames EXCEPT ![t] = Front(@)]
    /\ UNCHANGED <<links, exports, hostIdentity>>

Next == \/ \E t \in Threads, name \in {Host, NoName} : SetIdentity(t, name)
        \/ \E link \in Topology : AddLink(link)
        \/ \E m \in Modules, fns \in SUBSET Functions : RegisterModule(m, fns)
        \/ \E t \in Threads, callee \in Modules, f \in Functions : BeginCall(t, callee, f)
        \/ \E t \in Threads : CheckLink(t)
        \/ \E t \in Threads : FindExport(t)
        \/ \E t \in Threads, s \in {"Ok", "Runtime"} : Finish(t, s)
        \/ \E t \in Threads : EndCall(t)

Spec == Init /\ [][Next]_vars

(* ------------------------------- properties ------------------------------ *)

\* Type invariant.
TypeOK ==
    /\ links \subseteq Topology
    /\ exports \in [Modules -> SUBSET Functions]
    /\ callerStack \in [Threads -> Seq(Names)]
    /\ frames \in [Threads -> Seq(Frame)]
    /\ hostIdentity \in [Threads -> {Host, NoName}]

\* The identity dispatch checks is the module whose code makes the call,
\* through every nesting of the three call disciplines (router.rs 139,
\* CallerGuard, the set/call/set sequences of physics and cpp_engine).
AttributedToCaller ==
    \A t \in Threads : \A i \in DOMAIN frames[t] :
        frames[t][i].identity \in {frames[t][i].caller, NoName}

\* A wrapper runs only over a declared link from the code that really made
\* the call, however many calls of other modules lie in between
\* (docs/05-link-enforcement.md, the discrimination guarantee).
RunsOverDeclaredLink ==
    \A t \in Threads : \A i \in DOMAIN frames[t] :
        frames[t][i].phase = "run" =>
            /\ <<frames[t][i].caller, frames[t][i].callee>> \in Topology
            /\ frames[t][i].caller = IF i = 1 THEN Host ELSE frames[t][i - 1].callee

\* The identity stack holds at most one name per call in progress: no
\* sequence of nested calls, denied or not, leaks an identity.
StackBounded ==
    \A t \in Threads :
        Len(callerStack[t]) <= IF frames[t] = <<>> THEN 1 ELSE Len(frames[t])

\* When every nested call has returned, the thread has the identity the
\* host gave it (docs/05-link-enforcement.md: "The previous identity MUST be
\* restored afterward").
HostKeepsIdentity ==
    \A t \in Threads : frames[t] = <<>> => callerStack[t] = SetStack(hostIdentity[t])

\* The inductive invariant behind the three properties above.  The calls of a
\* thread form a chain in which only the last one can be outside its wrapper,
\* and each was checked for the code that made it.
CallsOK(t) ==
    \A i \in 1 .. Len(frames[t]) :
        /\ frames[t][i].caller = IF i = 1 THEN Host ELSE frames[t][i - 1].callee
        /\ i < Len(frames[t]) => frames[t][i].phase = "run"
        /\ frames[t][i].identity \in {frames[t][i].caller, NoName}
        /\ frames[t][i].phase # "done" => frames[t][i].identity # NoName
        /\ frames[t][i].phase \in {"find", "run"} =>
               <<frames[t][i].caller, frames[t][i].callee>> \in links

\* As long as the calls in progress all run under guards, what is left of the
\* stack when they have been dropped is the host's name or nothing.  A call
\* outside Scoped clears the stack and leaves the host's name alone on it.
StackOK(t) ==
    LET depth == IF frames[t] = <<>> THEN 1 ELSE Len(frames[t])
    IN  /\ Len(callerStack[t]) <= depth
        /\ (\A i \in 2 .. Len(frames[t]) : frames[t][i].caller \in Scoped) =>
               (Len(callerStack[t]) = depth => callerStack[t][1] = Host)

Inv == TypeOK /\ \A t \in Threads : CallsOK(t) /\ StackOK(t)

\* The inductive invariant behind HostKeepsIdentity when every module calls under
\* a guard (Scoped = Modules): under the names the guards pushed, the stack is as
\* the host left it, and each guard knows that it has to leave something.
Guarded(t) ==
    /\ hostIdentity[t] = NoName =>
          /\ callerStack[t] = <<>>
          /\ frames[t] # <<>> => Len(frames[t]) = 1 /\ Top(t).phase = "done"
    /\ hostIdentity[t] # NoName =>
          /\ Len(callerStack[t]) = IF frames[t] = <<>> THEN 1 ELSE Len(frames[t])
          /\ callerStack[t][1] = Host
    /\ \A i \in 1 .. Len(frames[t]) :
          /\ i = 1 => frames[t][i].caller = Host
          /\ i # 1 => frames[t][i].caller # Host /\ frames[t][i].hadPrevious = TRUE

\* The modules whose code is on the stack of t: those of its calls that have
\* entered their wrapper (only the call on top may not have, or no more).
RunningModules(t) ==
    LET n == IF InCode(t) THEN Len(frames[t]) ELSE Len(frames[t]) - 1
    IN  [i \in 1 .. n |-> frames[t][i].callee]

Policy == INSTANCE LinkPolicy WITH running <- [t \in Threads |-> RunningModules(t)]

\* Router implements the abstract link policy.
PolicySpec == Policy!Spec
===============================================================================
