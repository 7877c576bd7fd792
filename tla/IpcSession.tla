------------------------------ MODULE IpcSession ------------------------------
(***************************************************************************)
(* The session between the core and one PROCESS module: ipc_roundtrip      *)
(* (core/src/runtime.rs) on one end of the socket, GluAdapter.run and      *)
(* glucoreCall (adapters/java) on the other, with one thread of the host   *)
(* calling, as the protocol demands.                                       *)
(*                                                                         *)
(* A direction of the socket is a queue of whole frames: both ends read    *)
(* a length and then exactly that many bytes.  A frame carries the         *)
(* identifier of its exchange; the real ones carry none, the actions below *)
(* never look at it and only the properties use it.  The code of the       *)
(* modules is abstracted to what it may do: make callbacks and return.     *)
(***************************************************************************)
EXTENDS Naturals, Sequences, SequencesExt

CONSTANTS MaxExchanges,  (* bound on calls and callbacks together              *)
          None,          (* no result, outcome or answer                       *)
          Reentry,       (* a callback may lead to another call of the process *)
          MayCrash       (* the process may die                                *)

ASSUME IpcSessionAssumption ==
    /\ MaxExchanges \in Nat
    /\ None \notin {"Ok", "Runtime"} \cup Nat
    /\ Reentry \in BOOLEAN
    /\ MayCrash \in BOOLEAN

VARIABLES toProcess,   (* frames on the way to the process                     *)
          toCore,      (* frames on the way to the core                        *)
          roundtrips,  (* the open ipc_roundtrips, innermost last              *)
          process,     (* where the process is                                 *)
          issued,      (* the number of exchanges begun                        *)
          answered,    (* history: the reply each callback got                 *)
          requested, started, result, outcome  (* history of the calls         *)

history == <<requested, started, result, outcome>>
vars == <<toProcess, toCore, roundtrips, process, issued, answered, history>>

Ids == 1 .. MaxExchanges
Statuses == {"Ok", "Runtime"}
Targets == {"self", "malformed", "other"}

\* What each end may put on the wire.
CoreFrame == [kind : {"CALL"}, id : Ids]
             \cup [kind : {"CALLBACK_RESULT"}, id : Ids, status : Statuses]
ProcessFrame == [kind : {"RESULT"}, id : Ids, status : Statuses]
                \cup [kind : {"CALLBACK_CALL"}, id : Ids, target : Targets]

\* "read": in the loop of ipc_roundtrip; "nested": its dispatch of a callback.
Roundtrip == [id : Ids, pc : {"read"}, callback : {0}]
             \cup [id : Ids, pc : {"nested"}, callback : Ids]

\* "reading": run waits for a CALL; "executing": in dispatchCall; "waiting": in
\* glucoreCall; "closed": run left its loop; "crashed": the process died.
Process == [pc : {"reading", "closed", "crashed"}, id : {0}, callback : {0}]
           \cup [pc : {"executing"}, id : Ids, callback : {0}]
           \cup [pc : {"waiting"}, id : Ids, callback : Ids]

Current == Last(roundtrips)
OpenRoundtrip(pc, callback) == [id |-> Current.id, pc |-> pc, callback |-> callback]
Gone == process.pc \in {"closed", "crashed"}

Init ==
    /\ toProcess = <<>>
    /\ toCore = <<>>
    /\ roundtrips = <<>>
    /\ process = [pc |-> "reading", id |-> 0, callback |-> 0]
    /\ issued = 0
    /\ answered = [c \in Ids |-> None]
    /\ requested = {}
    /\ started = {}
    /\ result = [c \in Ids |-> None]
    /\ outcome = [c \in Ids |-> None]

(* --------------------- the core: ipc_roundtrip --------------------------- *)

\* A write to a process that is gone fails, and the frame with it.
SendToProcess(frame) == toProcess' = IF Gone THEN toProcess ELSE Append(toProcess, frame)

\* The innermost round trip returns s.
ReturnCall(s) ==
    /\ outcome' = [outcome EXCEPT ![Current.id] = s]
    /\ roundtrips' = Front(roundtrips)
    /\ UNCHANGED <<requested, started, result>>

\* ipc_roundtrip up to its loop.  The call is the host's, or comes from code
\* that runs for a callback.  "ipc_write_failed" when the process is gone.
BeginCall ==
    LET id == issued + 1
    IN  /\ issued < MaxExchanges
        /\ roundtrips # <<>> => Reentry /\ Current.pc = "nested"
        /\ issued' = id
        /\ requested' = requested \cup {id}
        /\ SendToProcess([kind |-> "CALL", id |-> id])
        /\ \/ /\ Gone
              /\ outcome' = [outcome EXCEPT ![id] = "Runtime"]
              /\ UNCHANGED roundtrips
           \/ /\ ~Gone
              /\ roundtrips' = Append(roundtrips, [id |-> id, pc |-> "read", callback |-> 0])
              /\ UNCHANGED outcome
        /\ UNCHANGED <<toCore, process, answered, started, result>>

\* The loop reads one frame.
Reads(kind) == /\ roundtrips # <<>>
               /\ Current.pc = "read"
               /\ toCore # <<>>
               /\ Head(toCore).kind = kind
               /\ toCore' = Tail(toCore)

\* Mutant of ReadResult: without a loop, whatever is read is taken for the RESULT.
ReadAsResult ==
    /\ \/ Reads("RESULT") /\ ReturnCall(Head(toCore).status)
       \/ Reads("CALLBACK_CALL") /\ ReturnCall("Runtime")
    /\ UNCHANGED <<toProcess, process, issued, answered>>

\* MSG_RESULT
ReadResult ==
    /\ Reads("RESULT")
    /\ ReturnCall(Head(toCore).status)
    /\ UNCHANGED <<toProcess, process, issued, answered>>

\* Mutants of RefuseCallback: the "continue" is missing and the callback is
\* dispatched too; no answer is written; it is written as a RESULT.
RefuseAndDispatch ==
    /\ Reads("CALLBACK_CALL")
    /\ Head(toCore).target # "other"
    /\ SendToProcess([kind |-> "CALLBACK_RESULT", id |-> Head(toCore).id, status |-> "Runtime"])
    /\ roundtrips' = Append(Front(roundtrips),
                            OpenRoundtrip("nested", Head(toCore).id))
    /\ UNCHANGED <<process, issued, answered, history>>
RefuseSilently ==
    /\ Reads("CALLBACK_CALL")
    /\ Head(toCore).target # "other"
    /\ UNCHANGED <<toProcess, roundtrips, process, issued, answered, history>>
RefuseWithResult ==
    /\ Reads("CALLBACK_CALL")
    /\ Head(toCore).target # "other"
    /\ SendToProcess([kind |-> "RESULT", id |-> Head(toCore).id, status |-> "Runtime"])
    /\ UNCHANGED <<roundtrips, process, issued, answered, history>>

\* MSG_CALLBACK_CALL that cannot be decoded or has the process as its target: an
\* error is the answer, and a failure to write it is ignored.
RefuseCallback ==
    /\ Reads("CALLBACK_CALL")
    /\ Head(toCore).target # "other"
    /\ SendToProcess([kind |-> "CALLBACK_RESULT", id |-> Head(toCore).id, status |-> "Runtime"])
    /\ UNCHANGED <<roundtrips, process, issued, answered, history>>

\* MSG_CALLBACK_CALL that is dispatched.
DispatchCallback ==
    /\ Reads("CALLBACK_CALL")
    /\ Head(toCore).target = "other"
    /\ roundtrips' = Append(Front(roundtrips),
                            OpenRoundtrip("nested", Head(toCore).id))
    /\ UNCHANGED <<toProcess, process, issued, answered, history>>

\* The dispatch is over and its result is written, or the round trip ends with
\* "ipc_write_callback_result_failed".
AnswerCallback(s) ==
    /\ roundtrips # <<>>
    /\ Current.pc = "nested"
    /\ SendToProcess([kind |-> "CALLBACK_RESULT", id |-> Current.callback, status |-> s])
    /\ \/ Gone /\ ReturnCall("Runtime")
       \/ /\ ~Gone
          /\ roundtrips' = Append(Front(roundtrips),
                                  OpenRoundtrip("read", 0))
          /\ UNCHANGED history
    /\ UNCHANGED <<toCore, process, issued, answered>>

\* The end of the stream: "ipc_read_len_failed", "ipc_read_body_failed".
ReadEnd ==
    /\ roundtrips # <<>>
    /\ Current.pc = "read"
    /\ toCore = <<>>
    /\ Gone
    /\ ReturnCall("Runtime")
    /\ UNCHANGED <<toProcess, toCore, process, issued, answered>>

(* ------------------- the process: GluAdapter ----------------------------- *)

\* The process takes the next frame off the socket.
Takes == /\ toProcess # <<>>
         /\ toProcess' = Tail(toProcess)

\* run reads a CALL and enters dispatchCall.
TakeCall ==
    /\ process.pc = "reading"
    /\ Takes
    /\ Head(toProcess).kind = "CALL"
    /\ process' = [pc |-> "executing", id |-> Head(toProcess).id, callback |-> 0]
    /\ started' = started \cup {Head(toProcess).id}
    /\ UNCHANGED <<toCore, roundtrips, issued, answered, requested, result, outcome>>

\* run reads anything else: it leaves its loop and closes the channel.
LeaveLoop ==
    /\ process.pc = "reading"
    /\ toProcess # <<>>
    /\ Head(toProcess).kind # "CALL"
    /\ process' = [pc |-> "closed", id |-> 0, callback |-> 0]
    /\ toProcess' = <<>>
    /\ UNCHANGED <<toCore, roundtrips, issued, answered, history>>

\* One iteration of run, by the kind of frame that is next.
ReadLoop == IF toProcess # <<>> /\ Head(toProcess).kind # "CALL" THEN LeaveLoop ELSE TakeCall

\* glucoreCall sends its request.
SendCallback(target) ==
    LET id == issued + 1
    IN  /\ process.pc = "executing"
        /\ issued < MaxExchanges
        /\ issued' = id
        /\ toCore' = Append(toCore, [kind |-> "CALLBACK_CALL", id |-> id, target |-> target])
        /\ process' = [pc |-> "waiting", id |-> process.id, callback |-> id]
        /\ UNCHANGED <<toProcess, roundtrips, answered, history>>

\* glucoreCall reads one frame.  One that is not a CALLBACK_RESULT is an
\* IOException for the function, which may give up or go on.
TakeAnswer ==
    /\ process.pc = "waiting"
    /\ Takes
    /\ answered' = [answered EXCEPT ![process.callback] =
           IF Head(toProcess).kind = "CALLBACK_RESULT" THEN Head(toProcess).id ELSE 0]
    /\ process' = [pc |-> "executing", id |-> process.id, callback |-> 0]
    /\ UNCHANGED <<toCore, roundtrips, issued, history>>

\* dispatchCall returned or threw; run sends the RESULT.
SendResult(s) ==
    /\ process.pc = "executing"
    /\ toCore' = Append(toCore, [kind |-> "RESULT", id |-> process.id, status |-> s])
    /\ result' = [result EXCEPT ![process.id] = s]
    /\ process' = [pc |-> "reading", id |-> 0, callback |-> 0]
    /\ UNCHANGED <<toProcess, roundtrips, issued, answered, requested, started, outcome>>

\* The process dies.  What it has written can still be read.
Crash ==
    /\ MayCrash
    /\ ~Gone
    /\ process' = [pc |-> "crashed", id |-> 0, callback |-> 0]
    /\ toProcess' = <<>>
    /\ UNCHANGED <<toCore, roundtrips, issued, answered, history>>

(* ----------------------------- specification ----------------------------- *)

\* Every call has returned and the host makes no more of them.
Rest == /\ issued = MaxExchanges
        /\ roundtrips = <<>>
        /\ UNCHANGED vars

CoreReads == ReadResult \/ RefuseCallback \/ DispatchCallback \/ ReadEnd
ProcessReads == ReadLoop \/ TakeAnswer

Next ==
    \/ BeginCall
    \/ CoreReads
    \/ \E s \in Statuses : AnswerCallback(s)
    \/ ProcessReads
    \/ \E target \in Targets : SendCallback(target)
    \/ \E s \in Statuses : SendResult(s)
    \/ Crash
    \/ Rest

Spec == Init /\ [][Next]_vars

\* Both ends read what there is to read, and the code of a module makes
\* finitely many calls and then returns.
FairSpec ==
    /\ Spec
    /\ WF_vars(CoreReads)
    /\ WF_vars(ProcessReads)
    /\ WF_vars(\E s \in Statuses : AnswerCallback(s))
    /\ WF_vars(\E s \in Statuses : SendResult(s))

(* ------------------------------- properties ------------------------------ *)

\* Type invariant.
TypeOK ==
    /\ toProcess \in Seq(CoreFrame)
    /\ toCore \in Seq(ProcessFrame)
    /\ roundtrips \in Seq(Roundtrip)
    /\ process \in Process
    /\ issued \in 0 .. MaxExchanges
    /\ answered \in [Ids -> Ids \cup {None, 0}]
    /\ requested \subseteq Ids
    /\ started \subseteq Ids
    /\ result \in [Ids -> Statuses \cup {None}]
    /\ outcome \in [Ids -> Statuses \cup {None}]

\* The protocol is stop and wait: at most one frame is on its way, in one of
\* the two directions, whatever callbacks are refused, dispatched or answered.
OneFrameInFlight == Len(toProcess) + Len(toCore) <= 1

\* A callback gets the answer to itself (docs/03-wire-protocol.md: "until it
\* receives the corresponding CALLBACK_RESULT").
AnswerIsOwn == \A c \in Ids : answered[c] \in {None, c}

\* What a call returns is what the function executed for it ended with; only the
\* death of the process may turn it into an error.
OutcomeIsOwn ==
    \A c \in Ids : outcome[c] # None /\ process.pc # "crashed" => outcome[c] = result[c]

\* The module only stops serving its session by dying
\* (docs/05-link-enforcement.md: "no hang, no dropped connection").
SessionSurvives == process.pc # "closed"

\* A call returns, and a callback of it is answered, or its process dies: neither
\* end waits for ever for a frame (docs/05-link-enforcement.md: "no hang").
CallsReturn ==
    /\ \A c \in Ids : c \in requested ~> outcome[c] # None
    /\ process.pc = "waiting" ~> process.pc # "waiting"

\* The invariant behind these: the two ends move in step.  For the call c that
\* is open (if any) and its callback b, one of these is where they are.
Silent == toProcess = <<>> /\ toCore = <<>>
ProcessAt(pc, c, b) == process = [pc |-> pc, id |-> c, callback |-> b]
Open(pc, c, b) == roundtrips = <<[id |-> c, pc |-> pc, callback |-> b]>>

Quiet == roundtrips = <<>> /\ Silent /\ (ProcessAt("reading", 0, 0) \/ ProcessAt("crashed", 0, 0))
CallSent(c) == /\ Open("read", c, 0)
               /\ ProcessAt("reading", 0, 0)
               /\ toProcess = <<[kind |-> "CALL", id |-> c]>>
               /\ toCore = <<>>
               /\ c \notin started
Executing(c) == Open("read", c, 0) /\ ProcessAt("executing", c, 0) /\ Silent
Returned(c) == /\ Open("read", c, 0)
               /\ ProcessAt("reading", 0, 0) \/ ProcessAt("crashed", 0, 0)
               /\ toProcess = <<>>
               /\ toCore = <<[kind |-> "RESULT", id |-> c, status |-> result[c]]>>
               /\ result[c] \in Statuses
CallbackSent(c, b) == /\ Open("read", c, 0)
                      /\ ProcessAt("waiting", c, b) \/ ProcessAt("crashed", 0, 0)
                      /\ toProcess = <<>>
                      /\ \E target \in Targets :
                             toCore = <<[kind |-> "CALLBACK_CALL", id |-> b, target |-> target]>>
Nested(c, b) == /\ Open("nested", c, b)
                /\ ProcessAt("waiting", c, b) \/ ProcessAt("crashed", 0, 0)
                /\ Silent
Answered(c, b) == /\ Open("read", c, 0)
                  /\ ProcessAt("waiting", c, b)
                  /\ toCore = <<>>
                  /\ \E s \in Statuses :
                         toProcess = <<[kind |-> "CALLBACK_RESULT", id |-> b, status |-> s]>>
Lost(c) == Open("read", c, 0) /\ ProcessAt("crashed", 0, 0) /\ Silent

\* The function of c was entered and has not ended.
Unfinished(c) == c \in started /\ result[c] = None

OpenCall(c) ==
    /\ outcome[c] = None
    /\ \/ CallSent(c) \/ Returned(c) \/ Lost(c)
       \/ Unfinished(c) /\ Executing(c)
       \/ \E b \in 1 .. issued :
              Unfinished(c) /\ (CallbackSent(c, b) \/ Nested(c, b) \/ Answered(c, b))

InStep == Quiet \/ \E c \in requested : OpenCall(c)

\* What the histories say of each exchange.
HistoryOK ==
    /\ requested \subseteq 1 .. issued
    /\ started \subseteq requested
    /\ \A c \in Ids :
        /\ outcome[c] # None => process.pc = "crashed" \/ outcome[c] = result[c]
        /\ c \notin requested => outcome[c] = None
        /\ c \notin started => result[c] = None
        /\ answered[c] \in {None, c}

Inv == TypeOK /\ InStep /\ HistoryOK

Remote == INSTANCE RemoteCall

\* IpcSession implements the abstract remote call.
RemoteCallSpec == Remote!Spec
===============================================================================
