------------------------------- MODULE Transport -------------------------------
(***************************************************************************)
(* The byte stream under IpcSession: how ipc_roundtrip                     *)
(* (core/src/runtime.rs, transport.rs), GluAdapter.run and glucoreCall     *)
(* (adapters/java) cut one socket into frames.  A frame is its length and  *)
(* then that many bytes, written piece by piece as the socket takes them   *)
(* and read piece by piece; nothing in the stream marks where one begins.  *)
(* A reader that finds a length over its limit gives up without reading    *)
(* the body.                                                               *)
(*                                                                         *)
(* A piece carries the frame it was written for; a reader only looks at it *)
(* through Lengths and Decoded, which give any length and any frame for    *)
(* pieces that are not what they are taken for.  As long as no frame was   *)
(* over the limit, this module implements IpcSession, whose queues hold    *)
(* whole frames; a callback of this module does not lead back to it.       *)
(***************************************************************************)
EXTENDS Naturals, Sequences

CONSTANTS MaxExchanges,  (* bound on calls and callbacks together             *)
          None,          (* no result, outcome or answer; no excess           *)
          MayCrash,      (* the process may die                               *)
          Sizes,         (* sizes of the bodies sent, in pieces               *)
          Limit,         (* 16 MiB, in pieces                                 *)
          Capacity       (* pieces a direction of the socket holds            *)

ASSUME TransportAssumption ==
    /\ MaxExchanges \in Nat
    /\ None \notin {"CALL", "RESULT", "CALLBACK_CALL", "CALLBACK_RESULT", "Ok", "Runtime"} \cup Nat
    /\ MayCrash \in BOOLEAN
    /\ Sizes \subseteq Nat \ {0}
    /\ Limit \in Nat
    /\ Capacity \in Nat \ {0}

VARIABLES stream,    (* the pieces on the way to each end                     *)
          io,        (* what each end has still to write and has read         *)
          core,      (* the round trip: where it is, its call and callback    *)
          process,   (* where the process is                                  *)
          excess,    (* the kind of the first frame that was over the limit   *)
          issued, answered, requested, started, result, outcome  (* as in IpcSession *)

history == <<answered, requested, started, result, outcome>>
vars == <<stream, io, core, process, excess, issued, history>>

Ids == 1 .. MaxExchanges
Ends == {"core", "process"}
Peer(e) == IF e = "core" THEN "process" ELSE "core"
Gone == process.pc \in {"closed", "crashed"}

\* A frame on the wire: two pieces of length, then its body.
Pieces(frame, size) == [n \in 1 .. 2 + size |-> [frame |-> frame, size |-> size, n |-> n]]

\* The frames that are complete in a sequence of pieces.
Frames(pieces) ==
    LET among[n \in 0 .. Len(pieces)] ==    \* the first n pieces
            IF n = 0 THEN <<>>
            ELSE IF pieces[n].n = 2 + pieces[n].size THEN Append(among[n - 1], pieces[n].frame)
            ELSE among[n - 1]
    IN  among[Len(pieces)]

\* core.pc: "call", "refuse", "answer" while it writes, "read", "nested" while it
\* dispatches a callback.  process.pc: as in IpcSession, and "request" and
\* "respond" while it writes.
Roundtrips ==
    IF core.pc \in {"idle", "call"} THEN <<>>
    ELSE <<IF core.pc \in {"nested", "answer"}
           THEN [id |-> core.id, pc |-> "nested", callback |-> core.callback]
           ELSE [id |-> core.id, pc |-> "read", callback |-> 0]>>
ProcessState ==
    IF process.pc \in {"request", "respond"}
    THEN [process EXCEPT !.pc = "executing", !.callback = 0] ELSE process

Session == INSTANCE IpcSession WITH
    toProcess <- Frames(io["process"].got \o stream["process"]),
    toCore <- Frames(io["core"].got \o stream["core"]),
    roundtrips <- Roundtrips, process <- ProcessState, Reentry <- FALSE

Silent == [out |-> <<>>, got |-> <<>>, need |-> 0]
Idle == [pc |-> "idle", id |-> 0, callback |-> 0]

Init ==
    /\ stream = [e \in Ends |-> <<>>]
    /\ io = [e \in Ends |-> Silent]
    /\ core = Idle
    /\ process = [pc |-> "reading", id |-> 0, callback |-> 0]
    /\ excess = None
    /\ issued = 0
    /\ answered = [c \in Ids |-> None]
    /\ requested = {}
    /\ started = {}
    /\ result = [c \in Ids |-> None]
    /\ outcome = [c \in Ids |-> None]

(* -------------------------- pieces and frames ---------------------------- *)

\* write_all, and the writes of GluAdapter: a piece that is not the last.
WritePiece(e) ==
    /\ Len(io[e].out) > 1
    /\ e = "process" \/ ~Gone
    /\ Len(stream[Peer(e)]) < Capacity
    /\ stream' = [stream EXCEPT ![Peer(e)] = Append(@, Head(io[e].out))]
    /\ io' = [io EXCEPT ![e].out = Tail(@)]
    /\ UNCHANGED <<core, process, excess, issued, history>>

\* The last piece of a frame; the end reads from now on.
WritesLast(e) ==
    /\ Len(io[e].out) = 1
    /\ Len(stream[Peer(e)]) < Capacity
    /\ stream' = [stream EXCEPT ![Peer(e)] = Append(@, Head(io[e].out))]
    /\ io' = [io EXCEPT ![e] = Silent]

Writes(e, frame) == \E size \in Sizes : io' = [io EXCEPT ![e].out = Pieces(frame, size)]

Reading(e) == IF e = "core" THEN core.pc = "read" ELSE process.pc \in {"reading", "waiting"}
Wanted(e) == IF io[e].need = 0 THEN 2 ELSE io[e].need

\* read_exact and readFully: a piece of the length or of the body.
ReadPiece(e) ==
    /\ Reading(e)
    /\ Len(io[e].got) < Wanted(e)
    /\ stream[e] # <<>>
    /\ stream' = [stream EXCEPT ![e] = Tail(@)]
    /\ io' = [io EXCEPT ![e].got = Append(@, Head(stream[e]))]
    /\ UNCHANGED <<core, process, excess, issued, history>>

\* What two pieces say when they are read as a length.
Lengths(pieces) ==
    IF pieces[1].n = 1 /\ pieces[2].n = 2 THEN {pieces[1].size} ELSE 0 .. Limit + 1

HasLength(e) == Reading(e) /\ io[e].need = 0 /\ Len(io[e].got) = 2

ReadsLength(e, less, plausible) ==
    /\ HasLength(e)
    /\ \E n \in Lengths(io[e].got) \cap plausible : io' = [io EXCEPT ![e] = [Silent EXCEPT !.need = n - less]]
    /\ UNCHANGED <<stream, core, process, excess, issued, history>>

\* Mutants of ReadLength: it is the length of the payload, without the type; it is
\* not checked.
ReadLengthOfPayload(e) == ReadsLength(e, 1, 2 .. Limit)
ReadLengthUnchecked(e) == ReadsLength(e, 0, Nat \ {0})

\* The length is plausible.
ReadLength(e) == ReadsLength(e, 0, 1 .. Limit)

\* The length is zero or over the limit: the body stays in the stream.
GivesUp(e) ==
    /\ HasLength(e)
    /\ Lengths(io[e].got) \ (1 .. Limit) # {}
    /\ excess' = IF excess = None THEN io[e].got[1].frame.kind ELSE excess

\* What the body that was read is taken for: the frame it is the body of, or any.
FrameOf(e) ==
    IF \A k \in DOMAIN io[e].got : io[e].got[k].n = k + 2 /\ io[e].got[k].size = Len(io[e].got)
    THEN {io[e].got[1].frame}
    ELSE (IF e = "core" THEN Session!ProcessFrame ELSE Session!CoreFrame) \cup {[kind |-> "none"]}

\* Mutant of Decoded: one read, of as many bytes as there are.
DecodedEarly(e) ==
    IF Reading(e) /\ io[e].need # 0 /\ Len(io[e].got) > 0 THEN FrameOf(e) ELSE {}

Decoded(e) ==
    IF Reading(e) /\ io[e].need # 0 /\ Len(io[e].got) = io[e].need THEN FrameOf(e) ELSE {}

Receives(e, f) == f \in Decoded(e)

Received(e) == io' = [io EXCEPT ![e] = Silent]

(* ---------------------- the core: ipc_roundtrip -------------------------- *)

BeginCall ==
    /\ core.pc = "idle"
    /\ issued < MaxExchanges
    /\ core' = [pc |-> "call", id |-> issued + 1, callback |-> 0]
    /\ Writes("core", [kind |-> "CALL", id |-> issued + 1])
    /\ UNCHANGED <<stream, process, excess, issued, history>>

\* The round trip returns s; IpcStream::forget leaves the socket open.
ReturnCall(s) ==
    /\ outcome' = [outcome EXCEPT ![core.id] = s]
    /\ core' = Idle

\* The CALL, the refusal of a callback or its answer is written.
CoreWritten ==
    /\ ~Gone
    /\ WritesLast("core")
    /\ core' = [core EXCEPT !.pc = "read"]
    /\ IF core.pc = "call" THEN issued' = core.id /\ requested' = requested \cup {core.id}
       ELSE UNCHANGED <<issued, requested>>
    /\ UNCHANGED <<process, excess, answered, started, result, outcome>>

\* The process is gone: "ipc_write_failed", "ipc_write_callback_result_failed"; a
\* refusal that cannot be written is forgotten.
CoreWriteFails ==
    /\ io["core"].out # <<>>
    /\ Gone
    /\ io' = [io EXCEPT !["core"] = Silent]
    /\ IF core.pc = "refuse" THEN core' = [core EXCEPT !.pc = "read"] /\ UNCHANGED outcome
       ELSE ReturnCall("Runtime")
    /\ IF core.pc = "call" THEN issued' = core.id /\ requested' = requested \cup {core.id}
       ELSE UNCHANGED <<issued, requested>>
    /\ UNCHANGED <<stream, process, excess, answered, started, result>>

ReadResult(f) ==
    /\ Receives("core", f)
    /\ f.kind \in {"RESULT", "none"}
    /\ Received("core")
    /\ ReturnCall(IF f.kind = "RESULT" THEN f.status ELSE "Runtime")
    /\ UNCHANGED <<stream, process, excess, issued, answered, requested, started, result>>

RefuseCallback(f) ==
    /\ Receives("core", f)
    /\ f.kind = "CALLBACK_CALL"
    /\ f.target # "other"
    /\ io["core"].out = <<>>
    /\ core' = [core EXCEPT !.pc = "refuse"]
    /\ Writes("core", [kind |-> "CALLBACK_RESULT", id |-> f.id, status |-> "Runtime"])
    /\ UNCHANGED <<stream, process, excess, issued, history>>

DispatchCallback(f) ==
    /\ Receives("core", f)
    /\ f.kind = "CALLBACK_CALL"
    /\ f.target = "other"
    /\ Received("core")
    /\ core' = [core EXCEPT !.pc = "nested", !.callback = f.id]
    /\ UNCHANGED <<stream, process, excess, issued, history>>

AnswerCallback(s) ==
    /\ core.pc = "nested"
    /\ core' = [core EXCEPT !.pc = "answer"]
    /\ Writes("core", [kind |-> "CALLBACK_RESULT", id |-> core.callback, status |-> s])
    /\ UNCHANGED <<stream, process, excess, issued, history>>

\* The stream ends before, in or after a length: "ipc_read_len_failed",
\* "ipc_read_body_failed"; or "ipc_response_too_large", "ipc_empty_response".
CoreReadFails ==
    /\ \/ /\ Reading("core") /\ Gone /\ stream["core"] = <<>>
          /\ Len(io["core"].got) < Wanted("core")
          /\ io' = [io EXCEPT !["core"] = Silent]
          /\ UNCHANGED excess
       \/ GivesUp("core") /\ io' = [io EXCEPT !["core"] = Silent]
    /\ ReturnCall("Runtime")
    /\ UNCHANGED <<stream, process, issued, answered, requested, started, result>>

(* ----------------------- the process: GluAdapter ------------------------- *)

\* The process dies, or run leaves its loop and closes the channel: what is on
\* the way to it is lost, what it has written can still be read.
Closes(pc) ==
    /\ process' = [pc |-> pc, id |-> 0, callback |-> 0]
    /\ stream' = [stream EXCEPT !["process"] = <<>>]
    /\ io' = [io EXCEPT !["process"] = Silent]

\* run reads a CALL and enters dispatchCall; on anything else it closes.
TakeFrame(f) ==
    /\ process.pc = "reading"
    /\ Receives("process", f)
    /\ \/ /\ f.kind = "CALL"
          /\ process' = [pc |-> "executing", id |-> f.id, callback |-> 0]
          /\ started' = started \cup {f.id}
          /\ Received("process")
          /\ UNCHANGED stream
       \/ /\ f.kind # "CALL"
          /\ Closes("closed")
          /\ UNCHANGED started
    /\ UNCHANGED <<core, excess, issued, answered, requested, result, outcome>>

\* glucoreCall writes its request; readFully then waits for the answer.
SendCallback(target) ==
    /\ process.pc = "executing"
    /\ issued < MaxExchanges
    /\ process' = [process EXCEPT !.pc = "request", !.callback = issued + 1]
    /\ Writes("process", [kind |-> "CALLBACK_CALL", id |-> issued + 1, target |-> target])
    /\ UNCHANGED <<stream, core, excess, issued, history>>

\* dispatchCall is over and run writes the RESULT.
SendResult(s) ==
    /\ process.pc = "executing"
    /\ process' = [process EXCEPT !.pc = "respond"]
    /\ Writes("process", [kind |-> "RESULT", id |-> process.id, status |-> s])
    /\ UNCHANGED <<stream, core, excess, issued, history>>

\* The end of the CALLBACK_CALL, after which the process is where next says, or of
\* the RESULT.
ProcessHasWritten(next) ==
    LET frame == io["process"].out[1].frame
    IN  /\ WritesLast("process")
        /\ \/ /\ process.pc = "request"
              /\ process' = [process EXCEPT !.pc = next]
              /\ issued' = process.callback
              /\ UNCHANGED result
           \/ /\ process.pc = "respond"
              /\ process' = [pc |-> "reading", id |-> 0, callback |-> 0]
              /\ result' = [result EXCEPT ![process.id] = frame.status]
              /\ UNCHANGED issued
        /\ UNCHANGED <<core, excess, answered, requested, started, outcome>>

\* Mutant of ProcessWritten: glucoreCall does not wait for the answer.
ProcessWrittenOn == ProcessHasWritten("executing")

ProcessWritten == ProcessHasWritten("waiting")

\* glucoreCall reads its answer; another frame is an IOException.
TakeAnswer(f) ==
    /\ process.pc = "waiting"
    /\ Receives("process", f)
    /\ Received("process")
    /\ answered' = [answered EXCEPT ![process.callback] =
           IF f.kind = "CALLBACK_RESULT" THEN f.id ELSE 0]
    /\ process' = [process EXCEPT !.pc = "executing", !.callback = 0]
    /\ UNCHANGED <<stream, core, excess, issued, requested, started, result, outcome>>

\* Mutant of ProcessGivesUp: run goes on with the next length.
ProcessGoesOn ==
    /\ GivesUp("process")
    /\ Received("process")
    /\ UNCHANGED <<stream, core, process, issued, history>>

\* A length over the limit: run closes, glucoreCall throws.
ProcessGivesUp ==
    /\ GivesUp("process")
    /\ \/ process.pc = "reading" /\ Closes("closed")
       \/ /\ process.pc = "waiting"
          /\ process' = [process EXCEPT !.pc = "executing", !.callback = 0]
          /\ Received("process")
          /\ UNCHANGED stream
    /\ UNCHANGED <<core, issued, history>>

Crash ==
    /\ MayCrash
    /\ ~Gone
    /\ Closes("crashed")
    /\ UNCHANGED <<core, excess, issued, history>>

(* ----------------------------- specification ----------------------------- *)

Rest == /\ issued = MaxExchanges
        /\ core.pc = "idle"
        /\ UNCHANGED vars

CoreStep ==
    \/ WritePiece("core") \/ ReadPiece("core") \/ ReadLength("core")
    \/ CoreWritten \/ CoreWriteFails \/ CoreReadFails
    \/ \E f \in Decoded("core") : ReadResult(f) \/ RefuseCallback(f) \/ DispatchCallback(f)
    \/ \E s \in Session!Statuses : AnswerCallback(s)
ProcessStep ==
    \/ WritePiece("process") \/ ReadPiece("process") \/ ReadLength("process")
    \/ ProcessWritten \/ ProcessGivesUp
    \/ \E f \in Decoded("process") : TakeFrame(f) \/ TakeAnswer(f)
    \/ \E s \in Session!Statuses : SendResult(s)

Next ==
    \/ BeginCall
    \/ CoreStep
    \/ ProcessStep
    \/ \E target \in Session!Targets : SendCallback(target)
    \/ Crash
    \/ Rest

Spec == Init /\ [][Next]_vars
FairSpec == Spec /\ WF_vars(CoreStep) /\ WF_vars(ProcessStep)

(* ------------------------------- properties ------------------------------ *)

Piece == [frame : Session!CoreFrame \cup Session!ProcessFrame, size : Sizes, n : Nat \ {0}]

\* Type invariant.
TypeOK ==
    /\ \A e \in Ends :
        /\ stream[e] \in Seq(Piece)
        /\ Len(stream[e]) <= Capacity
        /\ io[e].out \in Seq(Piece)
        /\ io[e].got \in Seq(Piece)
        /\ io[e].need \in 0 .. Limit
        /\ Len(io[e].got) <= Wanted(e)
    /\ core \in [pc : {"idle", "call", "read", "refuse", "nested", "answer"},
                 id : Ids \cup {0}, callback : Ids \cup {0}]
    /\ process \in [pc : {"reading", "executing", "request", "waiting", "respond", "closed", "crashed"},
                    id : Ids \cup {0}, callback : Ids \cup {0}]
    /\ excess \in {None, "CALL", "RESULT", "CALLBACK_CALL", "CALLBACK_RESULT"}

\* Both ends cut the stream where frames begin, in whatever pieces it comes, and
\* a frame that is cut short by the death of the process is never taken for one:
\* until a frame is over the limit, the bytes implement the session.
SessionSpec == Session!Init /\ [][Session!Next \/ excess' # None]_(Session!vars)

\* The pieces of an end that reads are those of one frame from its beginning.
Aligned ==
    excess = None => \A e \in Ends : \A k \in DOMAIN io[e].got :
        /\ io[e].got[k].frame = io[e].got[1].frame
        /\ io[e].got[k].n = IF io[e].need = 0 THEN k ELSE k + 2

\* A CALL that is too large costs the session, but no call hangs: run closes, and
\* every later round trip fails.
CallsReturn == core.pc # "idle" ~> core.pc = "idle" \/ excess \notin {None, "CALL"}

\* The two ends are never both blocked in a write, however small the socket's
\* buffers are.
NotBothWriting == io["core"].out = <<>> \/ io["process"].out = <<>> \/ Gone \/ excess # None
===============================================================================
