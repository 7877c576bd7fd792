---------------------------- MODULE Transport_proof ----------------------------
(***************************************************************************)
(* Theorems about Transport, for every size of frames, limit and capacity  *)
(* of the socket and every number of exchanges.                            *)
(***************************************************************************)
EXTENDS Transport, SequenceTheorems, SetInduction, TLAPS

(* ---------------------------- type correctness ---------------------------- *)

Frame == Session!CoreFrame \cup Session!ProcessFrame
Kinds == {"CALL", "RESULT", "CALLBACK_CALL", "CALLBACK_RESULT"}
Io == [out : Seq(Piece), got : Seq(Piece), need : 0 .. Limit]

\* What an end has on the way to it and in its hands.
WireType ==
    /\ stream \in [Ends -> Seq(Piece)]
    /\ \A e \in Ends : Len(stream[e]) <= Capacity
    /\ io \in [Ends -> Io]
    /\ \A e \in Ends : Len(io[e].got) <= Wanted(e)

\* Where the ends are; they know their call, and their callback, whenever they are
\* about to use it.
PlaceType ==
    /\ core \in [pc : {"idle", "call", "read", "refuse", "nested", "answer"},
                 id : Ids \cup {0}, callback : Ids \cup {0}]
    /\ process \in [pc : {"reading", "executing", "request", "waiting", "respond", "closed", "crashed"},
                    id : Ids \cup {0}, callback : Ids \cup {0}]
    /\ core.pc # "idle" => core.id \in Ids
    /\ core.pc \in {"nested", "answer"} => core.callback \in Ids
    /\ process.pc \in {"executing", "request", "waiting", "respond"} => process.id \in Ids
    /\ process.pc \in {"request", "waiting"} => process.callback \in Ids
    /\ excess \in {None} \cup Kinds
    /\ issued \in 0 .. MaxExchanges

\* The core only has something to write while it writes.
CoreWrites == io["core"].out # <<>> => core.pc \in {"call", "refuse", "answer"}

TypeInv == WireType /\ PlaceType /\ CoreWrites

\* The frames of each end are frames, of one of the four kinds.
LEMMA FrameType ==
    /\ \A c \in Ids : [kind |-> "CALL", id |-> c] \in Frame
    /\ \A c \in Ids, s \in Session!Statuses :
           /\ [kind |-> "RESULT", id |-> c, status |-> s] \in Frame
           /\ [kind |-> "CALLBACK_RESULT", id |-> c, status |-> s] \in Frame
    /\ \A c \in Ids, t \in Session!Targets :
           [kind |-> "CALLBACK_CALL", id |-> c, target |-> t] \in Frame
    /\ \A f \in Frame : f.kind \in Kinds /\ f.id \in Ids
BY DEF Frame, Kinds, Session!CoreFrame, Session!ProcessFrame, Ids, Session!Ids

\* The pieces of a frame.
LEMMA PiecesType ==
    ASSUME NEW f \in Frame, NEW s \in Sizes
    PROVE  /\ Pieces(f, s) \in Seq(Piece)
           /\ s \in Nat \ {0}
           /\ Len(Pieces(f, s)) = 2 + s
           /\ DOMAIN Pieces(f, s) = 1 .. 2 + s
           /\ \A k \in 1 .. 2 + s : Pieces(f, s)[k] = [frame |-> f, size |-> s, n |-> k]
<1>1. s \in Nat \ {0} /\ 2 + s \in Nat
  BY TransportAssumption
<1>2. \A k \in 1 .. 2 + s : [frame |-> f, size |-> s, n |-> k] \in Piece
  BY <1>1 DEF Piece, Frame
<1>. QED
  BY <1>1, <1>2 DEF Pieces

\* Beginning to write a frame, having taken one, and writing its last piece.
LEMMA IoSteps ==
    ASSUME TypeInv, NEW e \in Ends
    PROVE  /\ \A f \in Frame : Writes(e, f) =>
                  /\ io' \in [Ends -> Io]
                  /\ \A r \in Ends : io'[r].got = io[r].got /\ io'[r].need = io[r].need
                  /\ \E s \in Sizes : io'[e].out = Pieces(f, s)
                  /\ \A r \in Ends \ {e} : io'[r] = io[r]
           /\ Received(e) =>
                  /\ io' \in [Ends -> Io]
                  /\ io'[e] = Silent
                  /\ \A r \in Ends \ {e} : io'[r] = io[r]
           /\ WritesLast(e) =>
                  /\ stream' \in [Ends -> Seq(Piece)]
                  /\ stream'[Peer(e)] = Append(stream[Peer(e)], io[e].out[1])
                  /\ \A r \in Ends \ {Peer(e)} : stream'[r] = stream[r]
                  /\ \A r \in Ends : Len(stream'[r]) <= Capacity
                  /\ io' \in [Ends -> Io]
                  /\ io'[e] = Silent
                  /\ \A r \in Ends \ {e} : io'[r] = io[r]
<1>. USE TransportAssumption DEF TypeInv, WireType
<1>1. Silent \in Io
  BY DEF Silent, Io
<1>2. Peer(e) \in Ends /\ Peer(e) # e
  BY DEF Peer, Ends
<1>3. ASSUME NEW f \in Frame, Writes(e, f)
      PROVE  /\ io' \in [Ends -> Io]
             /\ \A r \in Ends : io'[r].got = io[r].got /\ io'[r].need = io[r].need
             /\ \E s \in Sizes : io'[e].out = Pieces(f, s)
             /\ \A r \in Ends \ {e} : io'[r] = io[r]
  <2>1. PICK s \in Sizes : io' = [io EXCEPT ![e].out = Pieces(f, s)]
    BY <1>3 DEF Writes
  <2>2. Pieces(f, s) \in Seq(Piece)
    BY PiecesType
  <2>. QED
    BY <2>1, <2>2 DEF Io
<1>4. ASSUME Received(e)
      PROVE  /\ io' \in [Ends -> Io]
             /\ io'[e] = Silent
             /\ \A r \in Ends \ {e} : io'[r] = io[r]
  BY <1>1, <1>4 DEF Received
<1>5. ASSUME WritesLast(e)
      PROVE  /\ stream' \in [Ends -> Seq(Piece)]
             /\ stream'[Peer(e)] = Append(stream[Peer(e)], io[e].out[1])
             /\ \A r \in Ends \ {Peer(e)} : stream'[r] = stream[r]
             /\ \A r \in Ends : Len(stream'[r]) <= Capacity
             /\ io' \in [Ends -> Io]
             /\ io'[e] = Silent
             /\ \A r \in Ends \ {e} : io'[r] = io[r]
  <2>1. io[e].out \in Seq(Piece) /\ Len(io[e].out) = 1
    BY <1>5 DEF WritesLast, Io
  <2>2. Head(io[e].out) = io[e].out[1] /\ io[e].out[1] \in Piece
    BY <2>1
  <2>. DEFINE q == Append(stream[Peer(e)], io[e].out[1])
  <2>3. q \in Seq(Piece) /\ Len(q) = Len(stream[Peer(e)]) + 1
    BY <1>2, <2>2
  <2>4. stream' = [stream EXCEPT ![Peer(e)] = q] /\ Len(stream[Peer(e)]) < Capacity
    BY <1>5, <2>2 DEF WritesLast
  <2>5. Len(q) <= Capacity
    BY <1>2, <2>3, <2>4
  <2>. HIDE DEF q
  <2>6. io' = [io EXCEPT ![e] = Silent]
    BY <1>5 DEF WritesLast
  <2>. QED
    BY <1>1, <1>2, <2>3, <2>4, <2>5, <2>6 DEF q
<1>. QED
  BY <1>3, <1>4, <1>5

\* What is decoded is a frame, or not any.
LEMMA DecodedType ==
    ASSUME TypeInv, NEW e \in Ends, NEW f \in Decoded(e)
    PROVE  f \in Frame \cup {[kind |-> "none"]}
<1>1. /\ io[e].got \in Seq(Piece)
      /\ Len(io[e].got) = io[e].need /\ io[e].need # 0 /\ io[e].need \in Nat
  BY TransportAssumption DEF TypeInv, WireType, Io, Decoded
<1>2. io[e].got[1] \in Piece
  BY <1>1
<1>3. f \in FrameOf(e)
  BY DEF Decoded
<1>. QED
  BY <1>2, <1>3 DEF FrameOf, Frame, Piece

\* The steps keep the types of what is on the wire.
LEMMA WireStep ==
    ASSUME TypeInv, [Next]_vars
    PROVE  WireType'
<1>. USE TransportAssumption DEF TypeInv
<1>1. /\ stream \in [Ends -> Seq(Piece)]
      /\ \A e \in Ends : Len(stream[e]) <= Capacity
      /\ io \in [Ends -> Io]
      /\ \A e \in Ends : Len(io[e].got) <= Wanted(e)
  BY DEF WireType
<1>. DEFINE Calm == \A e \in Ends : \/ io'[e].got = io[e].got /\ io'[e].need = io[e].need
                                    \/ io'[e].got = <<>>
<1>2. ASSUME Calm, io' \in [Ends -> Io], stream' \in [Ends -> Seq(Piece)],
             \A e \in Ends : Len(stream'[e]) <= Capacity
      PROVE  WireType'
  <2>1. ASSUME NEW e \in Ends
        PROVE  Len(io'[e].got) <= Wanted(e)'
    <3>1. io'[e].need \in Nat
      BY <1>2 DEF Io
    <3>2. CASE io'[e].got = io[e].got /\ io'[e].need = io[e].need
      <4>1. Len(io[e].got) <= Wanted(e)
        BY <1>1
      <4>. QED
        BY <3>2, <4>1 DEF Wanted
    <3>3. CASE io'[e].got = <<>>
      <4>1. Len(io'[e].got) = 0 /\ Wanted(e)' \in Nat
        BY <3>1, <3>3 DEF Wanted
      <4>. QED
        BY <4>1
    <3>. QED
      BY <1>2, <3>2, <3>3
  <2>. QED
    BY <1>2, <2>1 DEF WireType
<1>3. Silent \in Io /\ Silent.got = <<>>
  BY DEF Silent, Io
<1>4. "core" \in Ends /\ "process" \in Ends
  BY DEF Ends
<1>5. ASSUME NEW e \in Ends, WritePiece(e)
      PROVE  WireType'
  <2>1. Peer(e) \in Ends
    BY DEF Peer, Ends
  <2>2. io[e].out \in Seq(Piece) /\ io[e].out # <<>>
    BY <1>1, <1>5 DEF WritePiece, Io
  <2>3. Head(io[e].out) \in Piece /\ Tail(io[e].out) \in Seq(Piece)
    BY <2>2
  <2>. DEFINE q == Append(stream[Peer(e)], Head(io[e].out))
              o == Tail(io[e].out)
  <2>4. q \in Seq(Piece) /\ Len(q) = Len(stream[Peer(e)]) + 1
    BY <1>1, <2>1, <2>3
  <2>5. /\ stream' = [stream EXCEPT ![Peer(e)] = q] /\ Len(stream[Peer(e)]) < Capacity
        /\ io' = [io EXCEPT ![e].out = o]
    BY <1>5 DEF WritePiece
  <2>6. Len(q) <= Capacity
    BY <1>1, <2>1, <2>4, <2>5
  <2>. HIDE DEF q, o
  <2>7. io' \in [Ends -> Io] /\ Calm
    BY <1>1, <2>3, <2>5 DEF Io, o
  <2>. QED
    BY <1>1, <1>2, <2>1, <2>4, <2>5, <2>6, <2>7
<1>6. ASSUME NEW e \in Ends, ReadPiece(e)
      PROVE  WireType'
  <2>1. stream[e] # <<>> /\ stream[e] \in Seq(Piece) /\ io[e].got \in Seq(Piece)
    BY <1>1, <1>6 DEF ReadPiece, Io
  <2>. DEFINE q == Tail(stream[e])
              g == Append(io[e].got, Head(stream[e]))
  <2>2. /\ q \in Seq(Piece) /\ Len(q) = Len(stream[e]) - 1 /\ Len(stream[e]) \in Nat
        /\ g \in Seq(Piece) /\ Len(g) = Len(io[e].got) + 1 /\ Len(io[e].got) \in Nat
    BY <2>1
  <2>3. /\ stream' = [stream EXCEPT ![e] = q]
        /\ io' = [io EXCEPT ![e].got = g]
        /\ Len(io[e].got) < Wanted(e)
    BY <1>6 DEF ReadPiece
  <2>. HIDE DEF q, g
  <2>4. io' \in [Ends -> Io] /\ io'[e].got = g /\ io'[e].need = io[e].need
    BY <1>1, <2>2, <2>3 DEF Io
  <2>5. Wanted(e) \in Nat
    BY <1>1 DEF Wanted, Io
  <2>6. Len(g) <= Wanted(e)'
    BY <2>2, <2>3, <2>4, <2>5 DEF Wanted
  <2>7. \A r \in Ends : Len(io'[r].got) <= Wanted(r)'
    BY <1>1, <2>3, <2>4, <2>6 DEF Wanted
  <2>8. Len(q) <= Capacity
    BY <1>1, <2>2
  <2>. QED
    BY <1>1, <2>2, <2>3, <2>4, <2>7, <2>8 DEF WireType
<1>7. ASSUME NEW e \in Ends, ReadLength(e)
      PROVE  WireType'
  <2>1. PICK n \in 1 .. Limit : /\ io' = [io EXCEPT ![e] = [Silent EXCEPT !.need = n - 0]]
                                /\ stream' = stream
    BY <1>7 DEF ReadLength, ReadsLength
  <2>2. [Silent EXCEPT !.need = n - 0] \in Io /\ [Silent EXCEPT !.need = n - 0].got = <<>>
    <3>1. n - 0 \in 0 .. Limit /\ <<>> \in Seq(Piece)
      OBVIOUS
    <3>2. [Silent EXCEPT !.need = n - 0] = [out |-> <<>>, got |-> <<>>, need |-> n - 0]
      BY DEF Silent
    <3>. QED
      BY <3>1, <3>2 DEF Io
  <2>. QED
    BY <1>1, <1>2, <2>1, <2>2
<1>8. CASE io' = io /\ stream' = stream
  BY <1>1, <1>2, <1>8
<1>9. ASSUME NEW e \in Ends, NEW f \in Frame, Writes(e, f), stream' = stream
      PROVE  WireType'
  BY <1>1, <1>2, <1>9, IoSteps
<1>10. ASSUME NEW e \in Ends, Received(e), stream' = stream
       PROVE  WireType'
  BY <1>1, <1>2, <1>3, <1>10, IoSteps
<1>11. ASSUME NEW e \in Ends, WritesLast(e)
       PROVE  WireType'
  BY <1>2, <1>3, <1>11, IoSteps
<1>12. ASSUME NEW pc, Closes(pc)
       PROVE  WireType'
  <2>1. /\ stream' = [stream EXCEPT !["process"] = <<>>]
        /\ io' = [io EXCEPT !["process"] = Silent]
    BY <1>12 DEF Closes
  <2>2. stream' \in [Ends -> Seq(Piece)] /\ io' \in [Ends -> Io]
    <3>1. <<>> \in Seq(Piece)
      OBVIOUS
    <3>. QED
      BY <1>1, <1>3, <2>1, <3>1
  <2>4. Calm
    BY <1>1, <1>3, <2>1
  <2>3. \A e \in Ends : Len(stream'[e]) <= Capacity
    BY <1>1, <1>4, <2>1
  <2>. QED
    BY <1>2, <2>2, <2>3, <2>4
<1>13. CASE BeginCall
  <2>1. issued + 1 \in Ids
    BY <1>13 DEF BeginCall, PlaceType, Ids
  <2>. QED
    BY <1>4, <1>9, <1>13, <2>1, FrameType DEF BeginCall
<1>14. ASSUME NEW f \in Decoded("core"), RefuseCallback(f)
       PROVE  WireType'
  <2>1. f \in Frame
    BY <1>4, <1>14, DecodedType DEF RefuseCallback
  <2>2. [kind |-> "CALLBACK_RESULT", id |-> f.id, status |-> "Runtime"] \in Frame
    BY <2>1, FrameType DEF Session!Statuses
  <2>. QED
    BY <1>4, <1>9, <1>14, <2>2 DEF RefuseCallback
<1>15. ASSUME NEW s \in Session!Statuses, AnswerCallback(s)
       PROVE  WireType'
  <2>1. [kind |-> "CALLBACK_RESULT", id |-> core.callback, status |-> s] \in Frame
    BY <1>15, FrameType DEF AnswerCallback, PlaceType
  <2>. QED
    BY <1>4, <1>9, <1>15, <2>1 DEF AnswerCallback
<1>16. ASSUME NEW s \in Session!Statuses, SendResult(s)
       PROVE  WireType'
  <2>1. [kind |-> "RESULT", id |-> process.id, status |-> s] \in Frame
    BY <1>16, FrameType DEF SendResult, PlaceType
  <2>. QED
    BY <1>4, <1>9, <1>16, <2>1 DEF SendResult
<1>17. ASSUME NEW t \in Session!Targets, SendCallback(t)
       PROVE  WireType'
  <2>1. issued + 1 \in Ids
    BY <1>17 DEF SendCallback, PlaceType, Ids
  <2>2. [kind |-> "CALLBACK_CALL", id |-> issued + 1, target |-> t] \in Frame
    BY <2>1, FrameType
  <2>. QED
    BY <1>4, <1>9, <1>17, <2>2 DEF SendCallback
<1>18. CASE CoreWritten \/ ProcessWritten
  BY <1>4, <1>11, <1>18 DEF CoreWritten, ProcessWritten, ProcessHasWritten
<1>19. CASE CoreWriteFails \/ CoreReadFails
  BY <1>4, <1>10, <1>19 DEF CoreWriteFails, CoreReadFails, Received
<1>20. ASSUME NEW f \in Decoded("core"), ReadResult(f) \/ DispatchCallback(f)
       PROVE  WireType'
  BY <1>4, <1>10, <1>20 DEF ReadResult, DispatchCallback
<1>21. ASSUME NEW f \in Decoded("process"), TakeFrame(f) \/ TakeAnswer(f)
       PROVE  WireType'
  BY <1>4, <1>10, <1>12, <1>21 DEF TakeFrame, TakeAnswer
<1>22. CASE ProcessGivesUp
  BY <1>4, <1>10, <1>12, <1>22 DEF ProcessGivesUp
<1>23. CASE Crash
  BY <1>12, <1>23 DEF Crash
<1>24. CASE Rest \/ UNCHANGED vars
  BY <1>8, <1>24 DEF Rest, vars
<1>. QED
  BY <1>4, <1>5, <1>6, <1>7, <1>13, <1>14, <1>15, <1>16, <1>17, <1>18, <1>19, <1>20, <1>21, <1>22,
     <1>23, <1>24 DEF Next, CoreStep, ProcessStep

\* The steps keep the types of the rest.
LEMMA PlaceStep ==
    ASSUME TypeInv, [Next]_vars
    PROVE  PlaceType'
<1>. USE TransportAssumption DEF TypeInv, PlaceType
<1>. DEFINE places == <<core, process, excess, issued>>
<1>0. /\ Ids \subseteq Nat /\ 0 \notin Ids /\ MaxExchanges \in Nat /\ None \notin Kinds
      /\ issued < MaxExchanges => issued + 1 \in Ids
      /\ Ids \subseteq 0 .. MaxExchanges
  BY DEF Ids, Kinds
<1>1. ASSUME NEW f \in Decoded("core") \cup Decoded("process"), f.kind \in Kinds
      PROVE  f \in Frame /\ f.id \in Ids
  BY <1>1, DecodedType, FrameType DEF Ends, Kinds
<1>2. CASE UNCHANGED places
  BY <1>2
<1>3. ASSUME NEW s, ReturnCall(s), UNCHANGED <<process, issued>>, excess' \in {None} \cup Kinds
      PROVE  PlaceType'
  BY <1>3 DEF ReturnCall, Idle
<1>4. ASSUME NEW e \in Ends, GivesUp(e)
      PROVE  excess' \in {None} \cup Kinds
  <2>1. io[e].got \in Seq(Piece) /\ Len(io[e].got) = 2
    BY <1>4 DEF GivesUp, HasLength, WireType, Io
  <2>2. io[e].got[1] \in Piece
    BY <2>1
  <2>3. io[e].got[1].frame \in Frame
    BY <2>2 DEF Piece, Frame
  <2>. QED
    BY <1>4, <2>3, FrameType DEF GivesUp
<1>5. ASSUME NEW pc \in {"closed", "crashed"}, Closes(pc), UNCHANGED <<core, issued>>,
             excess' \in {None} \cup Kinds
      PROVE  PlaceType'
  BY <1>5 DEF Closes
<1>6. CASE BeginCall
  BY <1>0, <1>6 DEF BeginCall
<1>7. CASE CoreWritten
  <2>1. core.pc # "idle"
    <3>1. Len(io["core"].out) = 1
      BY <1>7 DEF CoreWritten, WritesLast
    <3>2. io["core"].out # <<>>
      BY <3>1
    <3>. QED
      BY <3>2 DEF CoreWrites
  <2>2. /\ core' = [core EXCEPT !.pc = "read"]
        /\ issued' \in {issued, core.id}
        /\ UNCHANGED <<process, excess>>
    BY <1>7 DEF CoreWritten
  <2>. QED
    BY <1>0, <2>1, <2>2
<1>8. CASE CoreWriteFails
  <2>1. core.pc # "idle"
    BY <1>8 DEF CoreWriteFails, CoreWrites
  <2>2. issued' \in {issued, core.id} /\ issued' \in 0 .. MaxExchanges
    BY <1>0, <1>8, <2>1 DEF CoreWriteFails
  <2>3. /\ core' = [core EXCEPT !.pc = "read"] \/ core' = Idle
        /\ UNCHANGED <<process, excess>>
    BY <1>8 DEF CoreWriteFails, ReturnCall
  <2>. QED
    BY <1>0, <2>1, <2>2, <2>3 DEF Idle
<1>9. CASE CoreReadFails
  BY <1>3, <1>4, <1>9 DEF CoreReadFails, Ends
<1>10. ASSUME NEW f \in Decoded("core"), ReadResult(f)
       PROVE  PlaceType'
  BY <1>3, <1>10 DEF ReadResult
<1>11. ASSUME NEW f \in Decoded("core"), RefuseCallback(f) \/ DispatchCallback(f)
       PROVE  PlaceType'
  <2>1. f.id \in Ids
    BY <1>1, <1>11 DEF RefuseCallback, DispatchCallback, Kinds
  <2>2. core.pc = "read"
    BY DEF Decoded, Reading
  <2>. QED
    BY <1>11, <2>1, <2>2 DEF RefuseCallback, DispatchCallback
<1>12. ASSUME NEW s, AnswerCallback(s)
       PROVE  PlaceType'
  BY <1>12 DEF AnswerCallback
<1>13. CASE ProcessWritten
  <2>1. process' = [process EXCEPT !.pc = "waiting"] \/ process' = [pc |-> "reading", id |-> 0, callback |-> 0]
    BY <1>13 DEF ProcessWritten, ProcessHasWritten
  <2>2. process.pc \in {"request", "respond"} /\ (process.pc = "respond" => process'.pc = "reading")
    BY <1>13 DEF ProcessWritten, ProcessHasWritten
  <2>3. issued' \in 0 .. MaxExchanges /\ UNCHANGED <<core, excess>>
    BY <1>0, <1>13 DEF ProcessWritten, ProcessHasWritten
  <2>. QED
    BY <2>1, <2>2, <2>3
<1>14. CASE ProcessGivesUp
  <2>1. excess' \in {None} \cup Kinds
    BY <1>4, <1>14 DEF ProcessGivesUp, Ends
  <2>. QED
    BY <1>5, <1>14, <2>1 DEF ProcessGivesUp
<1>15. ASSUME NEW f \in Decoded("process"), TakeFrame(f)
       PROVE  PlaceType'
  <2>1. CASE f.kind = "CALL"
    BY <1>1, <1>15, <2>1 DEF TakeFrame, Kinds
  <2>2. CASE f.kind # "CALL"
    BY <1>5, <1>15, <2>2 DEF TakeFrame
  <2>. QED
    BY <2>1, <2>2
<1>16. ASSUME NEW f \in Decoded("process"), TakeAnswer(f)
       PROVE  PlaceType'
  BY <1>16 DEF TakeAnswer
<1>17. ASSUME NEW s, SendResult(s)
       PROVE  PlaceType'
  BY <1>17 DEF SendResult
<1>18. ASSUME NEW t, SendCallback(t)
       PROVE  PlaceType'
  BY <1>0, <1>18 DEF SendCallback
<1>19. CASE Crash
  BY <1>5, <1>19 DEF Crash
<1>20. ASSUME NEW e \in Ends, WritePiece(e) \/ ReadPiece(e) \/ ReadLength(e)
       PROVE  PlaceType'
  BY <1>2, <1>20 DEF WritePiece, ReadPiece, ReadLength, ReadsLength
<1>21. CASE Rest \/ UNCHANGED vars
  BY <1>2, <1>21 DEF Rest, vars
<1>. QED
  BY <1>6, <1>7, <1>8, <1>9, <1>10, <1>11, <1>12, <1>13, <1>14, <1>15, <1>16, <1>17, <1>18, <1>19,
     <1>20, <1>21 DEF Next, CoreStep, ProcessStep, Ends

\* Only a core that begins to write has something to write.
LEMMA CoreWritesStep ==
    ASSUME TypeInv, [Next]_vars
    PROVE  CoreWrites'
<1>. USE DEF TypeInv
<1>1. /\ io \in [Ends -> Io] /\ "core" \in Ends /\ "process" \in Ends
      /\ \A e \in Ends : io[e] = [out |-> io[e].out, got |-> io[e].got, need |-> io[e].need]
  BY DEF WireType, Io, Ends
<1>2. CASE io'["core"].out = io["core"].out /\ core' = core
  BY <1>2 DEF CoreWrites
<1>3. CASE io'["core"].out = <<>>
  BY <1>3 DEF CoreWrites
<1>4. CASE core'.pc \in {"call", "refuse", "answer"}
  BY <1>4 DEF CoreWrites
<1>5. Silent.out = <<>>
  BY DEF Silent
<1>6. ASSUME NEW e \in Ends, WritePiece(e)
      PROVE  CoreWrites'
  <2>1. Len(io[e].out) > 1 /\ io' = [io EXCEPT ![e].out = Tail(@)] /\ core' = core
    BY <1>6 DEF WritePiece
  <2>2. io[e].out # <<>>
    BY <2>1
  <2>3. e # "core" => io'["core"] = io["core"]
    BY <1>1, <2>1
  <2>. QED
    BY <1>2, <2>1, <2>2, <2>3 DEF CoreWrites
<1>7. ASSUME NEW e \in Ends, ReadPiece(e) \/ ReadLength(e)
      PROVE  CoreWrites'
  <2>1. CASE ReadPiece(e)
    BY <1>1, <1>2, <2>1 DEF ReadPiece
  <2>2. CASE ReadLength(e)
    BY <1>1, <1>2, <1>3, <2>2 DEF ReadLength, ReadsLength, Silent
  <2>. QED
    BY <1>7, <2>1, <2>2
<1>8. ASSUME NEW s, ReturnCall(s), io'["core"] = Silent
      PROVE  CoreWrites'
  BY <1>3, <1>5, <1>8
<1>9. ASSUME NEW s, BeginCall \/ AnswerCallback(s)
      PROVE  CoreWrites'
  <2>1. core'.pc \in {"call", "answer"}
    BY <1>9 DEF BeginCall, AnswerCallback, PlaceType
  <2>. QED
    BY <1>4, <2>1
<1>10. CASE CoreWritten \/ CoreWriteFails \/ CoreReadFails
  BY <1>1, <1>3, <1>5, <1>10 DEF CoreWritten, CoreWriteFails, CoreReadFails, WritesLast
<1>11. ASSUME NEW f, ReadResult(f) \/ RefuseCallback(f) \/ DispatchCallback(f)
       PROVE  CoreWrites'
  BY <1>1, <1>3, <1>4, <1>5, <1>11
     DEF ReadResult, RefuseCallback, DispatchCallback, Received, PlaceType
<1>12. CASE ProcessWritten \/ ProcessGivesUp \/ Crash
  BY <1>1, <1>2, <1>12 DEF ProcessWritten, ProcessHasWritten, WritesLast, ProcessGivesUp, Crash, Closes, Received
<1>13. ASSUME NEW f, TakeFrame(f) \/ TakeAnswer(f)
       PROVE  CoreWrites'
  BY <1>1, <1>2, <1>13 DEF TakeFrame, TakeAnswer, Closes, Received
<1>14. ASSUME NEW s, SendResult(s) \/ SendCallback(s)
       PROVE  CoreWrites'
  BY <1>1, <1>2, <1>14 DEF SendResult, SendCallback, Writes
<1>15. CASE Rest \/ UNCHANGED vars
  BY <1>2, <1>15 DEF Rest, vars
<1>. QED
  BY <1>1, <1>6, <1>7, <1>9, <1>10, <1>11, <1>12, <1>13, <1>14, <1>15 DEF Next, CoreStep, ProcessStep

\* The types hold in every state.
LEMMA Typed == Spec => []TypeInv
<1>1. Init => TypeInv
  <2>1. Silent \in Io /\ <<>> \in Seq(Piece) /\ Len(<<>>) = 0 /\ Silent.got = <<>> /\ Silent.out = <<>>
    <3>1. 0 \in 0 .. Limit /\ <<>> \in Seq(Piece)
      BY TransportAssumption
    <3>. QED
      BY <3>1 DEF Silent, Io
  <2>2. SUFFICES ASSUME Init PROVE TypeInv
    OBVIOUS
  <2>3. WireType
    <3>1. stream = [e \in Ends |-> <<>>] /\ io = [e \in Ends |-> Silent] /\ Silent.need = 0
      BY <2>2 DEF Init, Silent
    <3>2. \A e \in Ends : Wanted(e) = 2
      BY <3>1 DEF Wanted
    <3>. QED
      BY <2>1, <3>1, <3>2, TransportAssumption DEF WireType
  <2>4. PlaceType
    BY <2>2, TransportAssumption DEF Init, PlaceType, Idle, Ids
  <2>5. CoreWrites
    BY <2>1, <2>2 DEF Init, CoreWrites, Ends
  <2>. QED
    BY <2>3, <2>4, <2>5 DEF TypeInv
<1>2. TypeInv /\ [Next]_vars => TypeInv'
  BY WireStep, PlaceStep, CoreWritesStep DEF TypeInv
<1>. QED
  BY <1>1, <1>2, PTL DEF Spec

\* Every piece belongs to a frame that was sent, no direction holds more than its
\* capacity, no end reads more than it asked for (TypeOK), whatever the sizes, the
\* limit and the capacity.
THEOREM TypeCorrect == Spec => []TypeOK
<1>1. TypeInv => TypeOK
  BY DEF TypeInv, WireType, PlaceType, TypeOK, Io, Kinds
<1>. QED
  BY <1>1, Typed, PTL

(* --------------------- ends that have nothing to write -------------------- *)

\* Nor has a process that is not writing; one that is gone has let go of all that
\* was on the way to it.
Silence ==
    /\ io["process"].out # <<>> => process.pc \in {"request", "respond"}
    /\ Gone => io["process"] = Silent /\ stream["process"] = <<>>

\* Only a process that begins to write has something to write, and nothing is
\* sent to one that is gone.
LEMMA SilenceStep ==
    ASSUME TypeInv, Silence, [Next]_vars
    PROVE  Silence'
<1>1. /\ io \in [Ends -> Io] /\ stream \in [Ends -> Seq(Piece)]
      /\ "core" \in Ends /\ "process" \in Ends /\ Ends = {"core", "process"}
      /\ Peer("core") = "process" /\ Peer("process") = "core"
      /\ process.pc \in {"reading", "executing", "request", "waiting", "respond", "closed", "crashed"}
      /\ process = [pc |-> process.pc, id |-> process.id, callback |-> process.callback]
  BY DEF TypeInv, WireType, PlaceType, Ends, Peer
<1>2. CASE /\ io'["process"] = io["process"] /\ stream'["process"] = stream["process"]
           /\ process' = process
  BY <1>2 DEF Silence, Gone
<1>3. CASE io'["process"].out = <<>> /\ process'.pc \notin {"closed", "crashed"}
  BY <1>3 DEF Silence, Gone
<1>4. CASE process'.pc \in {"request", "respond"}
  BY <1>4 DEF Silence, Gone
<1>5. ASSUME NEW pc, Closes(pc)
      PROVE  Silence'
  BY <1>1, <1>5 DEF Closes, Silence, Silent
<1>6. CASE ~Gone /\ io'["process"].out = io["process"].out /\ process' = process
  BY <1>6 DEF Silence, Gone
<1>7. CASE WritePiece("core") \/ CoreWritten
  BY <1>1, <1>6, <1>7 DEF WritePiece, CoreWritten, WritesLast
<1>8. CASE WritePiece("process")
  <2>1. Len(io["process"].out) > 1 /\ process' = process
    BY <1>8 DEF WritePiece
  <2>2. io["process"].out # <<>>
    BY <2>1
  <2>. QED
    BY <1>4, <2>1, <2>2 DEF Silence
<1>9. CASE ReadPiece("core") \/ ReadLength("core")
  BY <1>1, <1>2, <1>9 DEF ReadPiece, ReadLength, ReadsLength
<1>10. CASE ReadPiece("process") \/ ReadLength("process")
  <2>1. ~Gone /\ process' = process
    BY <1>10 DEF ReadPiece, ReadLength, ReadsLength, HasLength, Reading, Gone
  <2>2. io'["process"].out \in {<<>>, io["process"].out}
    BY <1>1, <1>10 DEF ReadPiece, ReadLength, ReadsLength, Silent, Io
  <2>. QED
    BY <1>1, <1>3, <1>6, <2>1, <2>2 DEF Gone
<1>11. CASE BeginCall \/ CoreWriteFails \/ CoreReadFails
  BY <1>1, <1>2, <1>11 DEF BeginCall, CoreWriteFails, CoreReadFails, Writes
<1>12. ASSUME NEW f, ReadResult(f) \/ RefuseCallback(f) \/ DispatchCallback(f) \/ AnswerCallback(f)
       PROVE  Silence'
  BY <1>1, <1>2, <1>12 DEF ReadResult, RefuseCallback, DispatchCallback, AnswerCallback, Received, Writes
<1>13. CASE ProcessWritten
  BY <1>1, <1>3, <1>13 DEF ProcessWritten, ProcessHasWritten, WritesLast, Silent
<1>14. CASE ProcessGivesUp
  <2>1. CASE process.pc = "reading" /\ Closes("closed")
    BY <1>5, <2>1
  <2>2. CASE Received("process") /\ process' = [process EXCEPT !.pc = "executing", !.callback = 0]
    <3>1. io'["process"].out = <<>> /\ process'.pc = "executing"
      BY <1>1, <2>2 DEF Received, Silent
    <3>. QED
      BY <1>3, <3>1
  <2>. QED
    BY <1>14, <2>1, <2>2 DEF ProcessGivesUp
<1>15. ASSUME NEW f, TakeFrame(f) \/ TakeAnswer(f)
       PROVE  Silence'
  <2>1. CASE Closes("closed")
    BY <1>5, <2>1
  <2>2. CASE Received("process") /\ process'.pc = "executing"
    <3>1. io'["process"].out = <<>>
      BY <1>1, <2>2 DEF Received, Silent
    <3>. QED
      BY <1>3, <2>2, <3>1
  <2>3. CASE TakeFrame(f)
    BY <2>1, <2>2, <2>3 DEF TakeFrame
  <2>4. CASE TakeAnswer(f)
    <3>1. process' = [process EXCEPT !.pc = "executing", !.callback = 0] /\ Received("process")
      BY <2>4 DEF TakeAnswer
    <3>. QED
      BY <1>1, <2>2, <3>1
  <2>. QED
    BY <1>15, <2>3, <2>4
<1>16. ASSUME NEW s, SendResult(s) \/ SendCallback(s)
       PROVE  Silence'
  BY <1>1, <1>4, <1>16 DEF SendResult, SendCallback
<1>17. CASE Crash
  BY <1>5, <1>17 DEF Crash
<1>18. CASE Rest \/ UNCHANGED vars
  BY <1>2, <1>18 DEF Rest, vars
<1>. QED
  BY <1>1, <1>7, <1>8, <1>9, <1>10, <1>11, <1>12, <1>13, <1>14, <1>15, <1>16, <1>17, <1>18
     DEF Next, CoreStep, ProcessStep

\* An end that reads has nothing to write.
LEMMA ReadersAreSilent ==
    ASSUME TypeInv, Silence, NEW e \in Ends, Reading(e)
    PROVE  io[e].out = <<>> /\ (e = "process" => ~Gone)
BY DEF TypeInv, CoreWrites, Silence, Reading, Ends, Gone

(* ------------------------ one frame in a direction ------------------------ *)

P(f, s, n) == [frame |-> f, size |-> s, n |-> n]

\* Consecutive pieces of frame f, after the first n.
Part(pieces, f, s, n) == \A k \in DOMAIN pieces : pieces[k] = P(f, s, n + k)

\* What the reader has of a frame, the length it has taken out included.
Skip(r) == IF io[r].need = 0 THEN 0 ELSE 2
Taken(r) == Skip(r) + Len(io[r].got)

\* The direction in which w writes holds frame f and nothing else: what the reader
\* has of it, then what is on the way, then what is still to write, t pieces
\* together.  The death of the writer cuts it short.
Pipe(w, f, s, t) ==
    /\ io[Peer(w)].need \in {0, s}
    /\ Part(io[Peer(w)].got, f, s, Skip(Peer(w)))
    /\ Part(stream[Peer(w)], f, s, Taken(Peer(w)))
    /\ Part(io[w].out, f, s, Taken(Peer(w)) + Len(stream[Peer(w)]))
    /\ Taken(Peer(w)) + Len(stream[Peer(w)]) + Len(io[w].out) = t
    /\ t <= 2 + s
    /\ ~Gone => t = 2 + s

Line(w, F) == \E f \in F, s \in Sizes, t \in Nat : Pipe(w, f, s, t)

\* The direction is empty; a frame of F is being written; one was written.
NoneFrom(w) ==
    /\ io[w].out = <<>>
    /\ stream[Peer(w)] = <<>>
    /\ io[Peer(w)].got = <<>>
    /\ io[Peer(w)].need = 0
Sending(w, F) == io[w].out # <<>> /\ (Gone \/ Line(w, F))
Sent(w, F) == io[w].out = <<>> /\ Line(w, F)
Whole(w, F) == io[w].out = <<>> /\ \E f \in F, s \in Sizes : Pipe(w, f, s, 2 + s)

\* A step leaves a direction alone; it leaves what the direction holds.
Untouched(w) ==
    /\ io'[w].out = io[w].out
    /\ stream'[Peer(w)] = stream[Peer(w)]
    /\ io'[Peer(w)].got = io[Peer(w)].got
    /\ io'[Peer(w)].need = io[Peer(w)].need
Kept(w) ==
    /\ NoneFrom(w) => NoneFrom(w)'
    /\ \A F : (Sending(w, F) => Sending(w, F)') /\ (Sent(w, F) => Sent(w, F)')
    /\ \A F : Whole(w, F) => Whole(w, F)'
    /\ \A f, s, t : s \in Sizes /\ Pipe(w, f, s, t) => Pipe(w, f, s, t)'

\* A piece moves from one part of a frame to the end of the part before.
LEMMA PartsMove ==
    ASSUME NEW S, NEW q \in Seq(S), NEW r \in Seq(S), NEW f, NEW s, NEW n \in Nat,
           Part(q, f, s, n), Part(r, f, s, n + Len(q)), r # <<>>
    PROVE  /\ Part(Append(q, Head(r)), f, s, n)
           /\ Part(Tail(r), f, s, n + Len(q) + 1)
           /\ Len(Append(q, Head(r))) = Len(q) + 1
           /\ Len(Tail(r)) = Len(r) - 1
<1>1. Len(q) \in Nat /\ Len(r) \in Nat /\ Len(r) >= 1
  OBVIOUS
<1>2. Head(r) = r[1] /\ 1 \in DOMAIN r /\ r[1] \in S
  BY <1>1
<1>3. Head(r) = P(f, s, n + Len(q) + 1)
  BY <1>2 DEF Part
<1>4. /\ Append(q, Head(r)) \in Seq(S)
      /\ Len(Append(q, Head(r))) = Len(q) + 1
      /\ \A k \in 1 .. Len(q) : Append(q, Head(r))[k] = q[k]
      /\ Append(q, Head(r))[Len(q) + 1] = Head(r)
  BY <1>2
<1>5. Part(Append(q, Head(r)), f, s, n)
  <2>1. ASSUME NEW k \in DOMAIN Append(q, Head(r))
        PROVE  Append(q, Head(r))[k] = P(f, s, n + k)
    <3>1. k \in 1 .. Len(q) + 1
      BY <1>4
    <3>2. CASE k \in 1 .. Len(q)
      BY <1>4, <3>2 DEF Part
    <3>3. CASE k = Len(q) + 1
      <4>1. n + Len(q) + 1 = n + k
        BY <1>1, <3>3
      <4>. QED
        BY <1>3, <1>4, <3>3, <4>1
    <3>. QED
      BY <1>1, <3>1, <3>2, <3>3
  <2>. QED
    BY <2>1 DEF Part
<1>6. /\ Tail(r) \in Seq(S) /\ Len(Tail(r)) = Len(r) - 1
      /\ \A k \in 1 .. Len(r) - 1 : Tail(r)[k] = r[k + 1]
  BY <1>1
<1>7. Part(Tail(r), f, s, n + Len(q) + 1)
  <2>1. ASSUME NEW k \in DOMAIN Tail(r)
        PROVE  Tail(r)[k] = P(f, s, n + Len(q) + 1 + k)
    <3>1. k \in 1 .. Len(r) - 1 /\ k + 1 \in 1 .. Len(r)
      BY <1>1, <1>6
    <3>2. r[k + 1] = P(f, s, n + Len(q) + (k + 1))
      BY <3>1 DEF Part
    <3>3. n + Len(q) + (k + 1) = n + Len(q) + 1 + k
      BY <1>1, <3>1
    <3>. QED
      BY <1>6, <3>1, <3>2, <3>3
  <2>. QED
    BY <2>1 DEF Part
<1>. QED
  BY <1>4, <1>5, <1>6, <1>7

\* What is left alone is kept, also when the process dies.
LEMMA UntouchedIsKept ==
    ASSUME NEW w \in Ends, Untouched(w), Gone => Gone'
    PROVE  /\ Kept(w)
           /\ \A F : Line(w, F) => Line(w, F)'
<1>1. ASSUME NEW f, NEW s, NEW t, Pipe(w, f, s, t)
      PROVE  Pipe(w, f, s, t)'
  BY <1>1 DEF Pipe, Untouched, Skip, Taken
<1>2. ASSUME NEW F, Line(w, F)
      PROVE  Line(w, F)'
  <2>1. PICK f \in F, s \in Sizes, t \in Nat : Pipe(w, f, s, t)
    BY <1>2 DEF Line
  <2>. QED
    BY <1>1, <2>1 DEF Line
<1>. QED
  BY <1>1, <1>2 DEF Kept, Untouched, NoneFrom, Sending, Sent, Whole

\* What the types say about the parts of a direction.
LEMMA PartsType ==
    ASSUME TypeInv, NEW w \in Ends
    PROVE  /\ Peer(w) \in Ends /\ Peer(w) # w /\ Ends = {w, Peer(w)} /\ Peer(Peer(w)) = w
           /\ io[w].out \in Seq(Piece) /\ Len(io[w].out) \in Nat
           /\ (io[w].out = <<>>) = (Len(io[w].out) = 0)
           /\ stream[Peer(w)] \in Seq(Piece) /\ Len(stream[Peer(w)]) \in Nat
           /\ (stream[Peer(w)] = <<>>) = (Len(stream[Peer(w)]) = 0)
           /\ io[Peer(w)].got \in Seq(Piece) /\ Len(io[Peer(w)].got) \in Nat
           /\ (io[Peer(w)].got = <<>>) = (Len(io[Peer(w)].got) = 0)
           /\ io[Peer(w)].need \in Nat /\ Len(io[Peer(w)].got) <= Wanted(Peer(w))
           /\ Skip(Peer(w)) \in {0, 2} /\ Taken(Peer(w)) \in Nat
           /\ io \in [Ends -> Io] /\ stream \in [Ends -> Seq(Piece)]
           /\ Sizes \subseteq Nat \ {0}
<1>1. Peer(w) \in Ends /\ Peer(w) # w /\ Ends = {w, Peer(w)} /\ Peer(Peer(w)) = w
  BY DEF Peer, Ends
<1>2. io \in [Ends -> Io] /\ stream \in [Ends -> Seq(Piece)]
  BY DEF TypeInv, WireType
<1>3. /\ io[w].out \in Seq(Piece) /\ stream[Peer(w)] \in Seq(Piece)
      /\ io[Peer(w)].got \in Seq(Piece) /\ io[Peer(w)].need \in 0 .. Limit
  BY <1>1, <1>2 DEF Io
<1>4. \A q \in Seq(Piece) : Len(q) \in Nat /\ (q = <<>>) = (Len(q) = 0)
  OBVIOUS
<1>5. Len(io[Peer(w)].got) <= Wanted(Peer(w))
  BY <1>1 DEF TypeInv, WireType
<1>6. io[Peer(w)].need \in Nat
  BY <1>3, TransportAssumption
<1>7. Skip(Peer(w)) \in {0, 2}
  BY DEF Skip
<1>8. Taken(Peer(w)) \in Nat
  BY <1>3, <1>4, <1>7 DEF Taken
<1>. QED
  BY <1>1, <1>2, <1>3, <1>4, <1>5, <1>6, <1>7, <1>8, TransportAssumption

\* A frame whose writing begins where there was none is the one in the direction.
LEMMA FrameBegins ==
    ASSUME TypeInv, NEW w \in Ends, NEW f \in Frame,
           NoneFrom(w), Writes(w, f), stream' = stream
    PROVE  /\ \A F : f \in F => Sending(w, F)'
           /\ Untouched(Peer(w))
<1>1. /\ Peer(w) \in Ends /\ Peer(w) # w /\ Peer(Peer(w)) = w
      /\ io[w].out = <<>> /\ stream[Peer(w)] = <<>> /\ io[Peer(w)].got = <<>> /\ io[Peer(w)].need = 0
      /\ io \in [Ends -> Io]
  BY PartsType DEF NoneFrom
<1>2. PICK s \in Sizes : io' = [io EXCEPT ![w].out = Pieces(f, s)]
  BY DEF Writes
<1>3. /\ io'[w].out = Pieces(f, s)
      /\ io'[w].got = io[w].got /\ io'[w].need = io[w].need
      /\ io'[Peer(w)] = io[Peer(w)]
  BY <1>1, <1>2 DEF Io
<1>. DEFINE out == Pieces(f, s)
<1>4. /\ out \in Seq(Piece) /\ s \in Nat \ {0} /\ Len(out) = 2 + s /\ DOMAIN out = 1 .. 2 + s
      /\ \A k \in 1 .. 2 + s : out[k] = P(f, s, k)
  BY PiecesType DEF P
<1>. HIDE DEF out
<1>5. Part(out, f, s, 0)
  BY <1>4 DEF Part
<1>6. out # <<>>
  BY <1>4
<1>7. Len(<<>>) = 0 /\ \A n : Part(<<>>, f, s, n)
  BY DEF Part
<1>8. Skip(Peer(w))' = 0 /\ Taken(Peer(w))' = 0 /\ Len(stream[Peer(w)]') = 0
  BY <1>1, <1>3, <1>7 DEF Skip, Taken
<1>9. Pipe(w, f, s, 2 + s)'
  BY <1>1, <1>3, <1>4, <1>5, <1>7, <1>8 DEF Pipe, out
<1>10. \A F : f \in F => Sending(w, F)'
  BY <1>3, <1>4, <1>6, <1>9 DEF Sending, Line, out
<1>. QED
  BY <1>1, <1>3, <1>10 DEF Untouched

\* Pieces on their way change nothing about what a direction holds.
LEMMA PieceSteps ==
    ASSUME TypeInv, Silence, NEW e \in Ends, WritePiece(e) \/ ReadPiece(e) \/ ReadLength(e)
    PROVE  \A w \in Ends : Kept(w)
<1>0. Gone' = Gone
  BY DEF WritePiece, ReadPiece, ReadLength, ReadsLength, Gone
<1>1. /\ Peer(e) \in Ends /\ Peer(e) # e /\ Ends = {e, Peer(e)} /\ Peer(Peer(e)) = e
      /\ io \in [Ends -> Io] /\ stream \in [Ends -> Seq(Piece)]
  BY PartsType
<1>2. ASSUME NEW w \in Ends, Untouched(w)
      PROVE  Kept(w)
  BY <1>0, <1>2, UntouchedIsKept
<1>3. ASSUME NEW w \in Ends, ~NoneFrom(w), (io'[w].out = <<>>) = (io[w].out = <<>>),
             \A f, s, t : s \in Sizes /\ Pipe(w, f, s, t) => Pipe(w, f, s, t)'
      PROVE  Kept(w)
  BY <1>0, <1>3 DEF Kept, Sending, Sent, Line, Whole
<1>4. CASE WritePiece(e)
  <2>. DEFINE q == stream[Peer(e)]
              r == io[e].out
  <2>1. /\ q \in Seq(Piece) /\ r \in Seq(Piece) /\ r # <<>> /\ Len(r) > 1
        /\ Len(q) \in Nat /\ Len(r) \in Nat /\ Taken(Peer(e)) \in Nat
    BY <1>4, PartsType DEF WritePiece
  <2>2. /\ stream'[Peer(e)] = Append(q, Head(r)) /\ stream'[e] = stream[e]
        /\ io'[e].out = Tail(r) /\ io'[e].got = io[e].got /\ io'[e].need = io[e].need
        /\ io'[Peer(e)] = io[Peer(e)]
    BY <1>1, <1>4 DEF WritePiece, Io
  <2>. HIDE DEF q, r
  <2>3. Kept(Peer(e))
    BY <1>1, <1>2, <2>2 DEF Untouched
  <2>4. ASSUME NEW f, NEW s \in Sizes, NEW t, Pipe(e, f, s, t)
        PROVE  Pipe(e, f, s, t)'
    <3>1. /\ Part(q, f, s, Taken(Peer(e))) /\ Part(r, f, s, Taken(Peer(e)) + Len(q))
      BY <2>4 DEF Pipe, q, r
    <3>2. /\ Part(Append(q, Head(r)), f, s, Taken(Peer(e)))
          /\ Part(Tail(r), f, s, Taken(Peer(e)) + Len(q) + 1)
          /\ Len(Append(q, Head(r))) = Len(q) + 1
          /\ Len(Tail(r)) = Len(r) - 1
      BY <2>1, <3>1, PartsMove
    <3>3. Taken(Peer(e))' = Taken(Peer(e)) /\ Skip(Peer(e))' = Skip(Peer(e))
      BY <2>2 DEF Taken, Skip
    <3>4. Taken(Peer(e)) + Len(q) + 1 + (Len(r) - 1) = Taken(Peer(e)) + Len(q) + Len(r)
      BY <2>1
    <3>5. Taken(Peer(e)) + Len(q) + 1 = Taken(Peer(e)) + (Len(q) + 1)
      BY <2>1
    <3>. QED
      BY <1>0, <2>2, <2>4, <3>2, <3>3, <3>4, <3>5 DEF Pipe, q, r
  <2>5. Tail(r) # <<>>
    <3>1. Len(Tail(r)) = Len(r) - 1 /\ Tail(r) \in Seq(Piece)
      BY <2>1
    <3>2. Len(Tail(r)) # 0
      BY <2>1, <3>1
    <3>3. \A x \in Seq(Piece) : x = <<>> => Len(x) = 0
      OBVIOUS
    <3>. QED
      BY <3>1, <3>2, <3>3, Zenon
  <2>6. ~NoneFrom(e)
    BY <2>1 DEF NoneFrom, r
  <2>7. Kept(e)
    BY <1>3, <2>1, <2>2, <2>4, <2>5, <2>6 DEF r
  <2>. QED
    BY <1>1, <2>3, <2>7
<1>5. CASE ReadPiece(e)
  <2>. DEFINE w == Peer(e)
              q == io[e].got
              r == stream[e]
  <2>1. /\ q \in Seq(Piece) /\ r \in Seq(Piece) /\ r # <<>> /\ Skip(e) \in {0, 2}
        /\ Len(q) \in Nat /\ Len(r) \in Nat /\ Peer(w) = e
    BY <1>1, <1>5, PartsType DEF ReadPiece
  <2>2. /\ stream'[e] = Tail(r) /\ stream'[w] = stream[w]
        /\ io'[e].got = Append(q, Head(r)) /\ io'[e].out = io[e].out /\ io'[e].need = io[e].need
        /\ io'[w] = io[w]
    BY <1>1, <1>5 DEF ReadPiece, Io
  <2>. HIDE DEF q, r
  <2>3. Kept(e)
    BY <1>1, <1>2, <2>2 DEF Untouched
  <2>4. ASSUME NEW f, NEW s \in Sizes, NEW t, Pipe(w, f, s, t)
        PROVE  Pipe(w, f, s, t)'
    <3>1. /\ Part(q, f, s, Skip(e)) /\ Part(r, f, s, Skip(e) + Len(q))
      BY <2>1, <2>4 DEF Pipe, q, r, Taken
    <3>2. /\ Part(Append(q, Head(r)), f, s, Skip(e))
          /\ Part(Tail(r), f, s, Skip(e) + Len(q) + 1)
          /\ Len(Append(q, Head(r))) = Len(q) + 1
          /\ Len(Tail(r)) = Len(r) - 1
      BY <2>1, <3>1, PartsMove
    <3>3. Skip(e)' = Skip(e) /\ Taken(e)' = Skip(e) + Len(q) + 1 /\ Taken(e) = Skip(e) + Len(q)
      <4>1. Skip(e)' = Skip(e) /\ Taken(e) = Skip(e) + Len(q)
        BY <2>2 DEF Taken, Skip, q
      <4>2. Taken(e)' = Skip(e) + (Len(q) + 1)
        BY <2>2, <3>2, <4>1 DEF Taken
      <4>. QED
        BY <2>1, <4>1, <4>2
    <3>4. Taken(e)' + (Len(r) - 1) = Taken(e) + Len(r)
      BY <2>1, <3>3
    <3>. QED
      BY <1>0, <2>1, <2>2, <2>4, <3>2, <3>3, <3>4 DEF Pipe, q, r
  <2>5. ~NoneFrom(w)
    BY <2>1 DEF NoneFrom, r
  <2>6. Kept(w)
    BY <1>1, <1>3, <2>2, <2>4, <2>5
  <2>. QED
    BY <1>1, <2>3, <2>6
<1>6. CASE ReadLength(e)
  <2>. DEFINE w == Peer(e)
              q == io[e].got
  <2>1. /\ q \in Seq(Piece) /\ Len(q) = 2 /\ io[e].need = 0 /\ Peer(w) = e
        /\ io[e].out = <<>>
    BY <1>1, <1>6, PartsType, ReadersAreSilent DEF ReadLength, ReadsLength, HasLength
  <2>2. PICK n \in Lengths(q) \cap 1 .. Limit : io' = [io EXCEPT ![e] = [Silent EXCEPT !.need = n - 0]]
    BY <1>6 DEF ReadLength, ReadsLength, q
  <2>3. stream' = stream
    BY <1>6 DEF ReadLength, ReadsLength
  <2>4. n \in Nat \ {0} /\ n - 0 = n
    BY <2>2, TransportAssumption
  <2>5. /\ io'[e].need = n /\ io'[e].out = <<>> /\ io'[e].got = <<>>
        /\ io'[w] = io[w]
    BY <1>1, <2>2, <2>4 DEF Silent
  <2>. HIDE DEF q
  <2>6. Kept(e)
    BY <1>1, <1>2, <2>1, <2>3, <2>5 DEF Untouched
  <2>7. ASSUME NEW f, NEW s \in Sizes, NEW t, Pipe(w, f, s, t)
        PROVE  Pipe(w, f, s, t)'
    <3>1. 1 \in DOMAIN q /\ 2 \in DOMAIN q
      BY <2>1
    <3>2. q[1] = P(f, s, 1) /\ q[2] = P(f, s, 2)
      BY <2>1, <2>7, <3>1 DEF Pipe, Part, Skip, q
    <3>3. n = s
      BY <2>2, <3>2 DEF Lengths, P
    <3>4. Skip(e)' = 2 /\ Taken(e)' = 2 /\ Taken(e) = 2
      <4>1. Len(<<>>) = 0
        OBVIOUS
      <4>. QED
        BY <2>1, <2>4, <2>5, <4>1 DEF Skip, Taken, q
    <3>5. Part(<<>>, f, s, 2)
      BY DEF Part
    <3>. QED
      BY <1>0, <2>1, <2>3, <2>5, <2>7, <3>3, <3>4, <3>5 DEF Pipe, q
  <2>8. ~NoneFrom(w)
    <3>1. q # <<>>
      BY <2>1
    <3>. QED
      BY <2>1, <3>1 DEF NoneFrom, q
  <2>9. Kept(w)
    BY <1>1, <1>3, <2>5, <2>7, <2>8
  <2>. QED
    BY <1>1, <2>6, <2>9
<1>. QED
  BY <1>4, <1>5, <1>6

\* With the last piece the frame is written.
LEMMA LastPiece ==
    ASSUME TypeInv, NEW w \in Ends, WritesLast(w), ~Gone, ~Gone'
    PROVE  /\ \A F : Sending(w, F) => Sent(w, F)'
           /\ io[Peer(w)].out = <<>> /\ stream[w] = <<>> => NoneFrom(Peer(w))'
<1>. DEFINE q == stream[Peer(w)]
            r == io[w].out
<1>1. /\ q \in Seq(Piece) /\ r \in Seq(Piece) /\ r # <<>> /\ Len(r) = 1
      /\ Len(q) \in Nat /\ Taken(Peer(w)) \in Nat
      /\ Peer(w) \in Ends /\ Peer(w) # w /\ Peer(Peer(w)) = w
      /\ io \in [Ends -> Io] /\ stream \in [Ends -> Seq(Piece)]
  BY PartsType DEF WritesLast
<1>2. /\ stream'[Peer(w)] = Append(q, Head(r)) /\ stream'[w] = stream[w]
      /\ io'[w] = Silent /\ io'[Peer(w)] = io[Peer(w)]
  BY <1>1 DEF WritesLast
<1>. HIDE DEF q, r
<1>3. ASSUME NEW f, NEW s \in Sizes, NEW t, Pipe(w, f, s, t)
      PROVE  Pipe(w, f, s, t)'
  <2>1. /\ Part(q, f, s, Taken(Peer(w))) /\ Part(r, f, s, Taken(Peer(w)) + Len(q))
    BY <1>3 DEF Pipe, q, r
  <2>2. /\ Part(Append(q, Head(r)), f, s, Taken(Peer(w)))
        /\ Len(Append(q, Head(r))) = Len(q) + 1
    BY <1>1, <2>1, PartsMove
  <2>3. Taken(Peer(w))' = Taken(Peer(w)) /\ Skip(Peer(w))' = Skip(Peer(w))
    BY <1>2 DEF Taken, Skip
  <2>4. io'[w].out = <<>> /\ Len(<<>>) = 0 /\ \A n : Part(<<>>, f, s, n)
    BY <1>2 DEF Silent, Part
  <2>5. Taken(Peer(w)) + (Len(q) + 1) + 0 = Taken(Peer(w)) + Len(q) + Len(r)
    BY <1>1
  <2>. QED
    BY <1>1, <1>2, <1>3, <2>2, <2>3, <2>4, <2>5 DEF Pipe, q, r
<1>4. io'[w].out = <<>> /\ io'[w].got = <<>> /\ io'[w].need = 0
  BY <1>2 DEF Silent
<1>. QED
  BY <1>1, <1>2, <1>3, <1>4 DEF Sending, Sent, Line, NoneFrom, r

\* What is decoded in a direction that holds a frame is that frame, and nothing of
\* it is left.
LEMMA FrameRead ==
    ASSUME TypeInv, Silence, NEW e \in Ends, NEW f \in Decoded(e)
    PROVE  /\ ~NoneFrom(Peer(e))
           /\ \A F : ~Sending(Peer(e), F)
           /\ \A F : Sent(Peer(e), F) =>
                  f \in F /\ Whole(Peer(e), {f}) /\ stream[e] = <<>> /\ io[Peer(e)].out = <<>>
<1>. DEFINE w == Peer(e)
            got == io[e].got
<1>1. /\ Reading(e) /\ io[e].need # 0 /\ Len(got) = io[e].need /\ f \in FrameOf(e)
  BY DEF Decoded
<1>2. /\ w \in Ends /\ Peer(w) = e
      /\ got \in Seq(Piece) /\ io[e].need \in Nat
      /\ Len(stream[e]) \in Nat /\ (stream[e] = <<>>) = (Len(stream[e]) = 0)
  BY PartsType, PartsType DEF Peer, Ends
<1>3. Len(io[w].out) \in Nat /\ (io[w].out = <<>>) = (Len(io[w].out) = 0)
  BY <1>2, PartsType
<1>. HIDE DEF got
<1>4. ASSUME NEW g, NEW s \in Sizes, NEW t \in Nat, Pipe(w, g, s, t)
      PROVE  f = g /\ stream[e] = <<>> /\ io[w].out = <<>> /\ t = 2 + s
  <2>1. io[e].need = s /\ s \in Nat \ {0}
    BY <1>1, <1>2, <1>4, TransportAssumption DEF Pipe
  <2>2. Skip(e) = 2 /\ Taken(e) = 2 + s
    BY <1>1, <2>1 DEF Skip, Taken, got
  <2>3. Part(got, g, s, 2) /\ Taken(e) + Len(stream[e]) + Len(io[w].out) = t /\ t <= 2 + s
    BY <1>2, <1>4, <2>2 DEF Pipe, got
  <2>4. Len(stream[e]) = 0 /\ Len(io[w].out) = 0 /\ t = 2 + s
    BY <1>2, <1>3, <2>1, <2>2, <2>3
  <2>5. DOMAIN got = 1 .. s /\ 1 \in DOMAIN got /\ Len(got) = s
    BY <1>1, <1>2, <2>1
  <2>6. \A k \in DOMAIN got : got[k].n = k + 2 /\ got[k].size = Len(got) /\ got[k].frame = g
    BY <2>3, <2>5 DEF Part, P
  <2>7. FrameOf(e) = {g}
    BY <2>5, <2>6 DEF FrameOf, got
  <2>. QED
    BY <1>1, <1>2, <1>3, <2>4, <2>7
<1>5. ~(Gone /\ io[w].out # <<>>)
  BY <1>1, <1>2, ReadersAreSilent DEF Silence, Silent, Peer, Ends
<1>6. ~NoneFrom(w)
  BY <1>1, <1>2 DEF NoneFrom
<1>7. \A F : Line(w, F) =>
          /\ f \in F /\ stream[e] = <<>> /\ io[w].out = <<>>
          /\ \E s \in Sizes : Pipe(w, f, s, 2 + s)
  BY <1>4 DEF Line
<1>. QED
  BY <1>5, <1>6, <1>7 DEF Sending, Sent, Whole

\* The reader puts away a frame that it has read.
LEMMA FrameTaken ==
    ASSUME TypeInv, NEW e \in Ends, Received(e), stream' = stream
    PROVE  /\ io[e].out = <<>> => Untouched(e)
           /\ io'[e].out = <<>>
           /\ stream[e] = <<>> /\ io[Peer(e)].out = <<>> => NoneFrom(Peer(e))'
<1>1. /\ Peer(e) \in Ends /\ Peer(e) # e /\ Peer(Peer(e)) = e /\ io \in [Ends -> Io]
  BY PartsType
<1>2. /\ io'[e].out = <<>> /\ io'[e].got = <<>> /\ io'[e].need = 0
      /\ io'[Peer(e)] = io[Peer(e)]
  BY <1>1 DEF Received, Silent
<1>. QED
  BY <1>1, <1>2 DEF Untouched, NoneFrom

\* The process dies: what is on the way from it stays, cut short or not.
LEMMA ProcessEnds ==
    ASSUME TypeInv, NEW pc \in {"closed", "crashed"}, Closes(pc)
    PROVE  /\ io["core"].out = <<>> => NoneFrom("core")'
           /\ \A F : io["core"].out # <<>> => Sending("core", F)'
           /\ NoneFrom("process") => NoneFrom("process")'
           /\ \A F : Line("process", F) => Sent("process", F)'
           /\ \A F : Whole("process", F) => Whole("process", F)'
           /\ io'["core"] = io["core"]
<1>1. /\ "core" \in Ends /\ "process" \in Ends /\ Peer("core") = "process" /\ Peer("process") = "core"
      /\ io \in [Ends -> Io] /\ stream \in [Ends -> Seq(Piece)]
  BY PartsType DEF Ends, Peer
<1>2. /\ Gone'
      /\ io'["process"] = Silent /\ io'["core"] = io["core"]
      /\ stream'["process"] = <<>> /\ stream'["core"] = stream["core"]
      /\ Silent.out = <<>> /\ Silent.got = <<>> /\ Silent.need = 0
  BY <1>1 DEF Closes, Gone, Silent
<1>3. ASSUME NEW f, NEW s \in Sizes, NEW t \in Nat, Pipe("process", f, s, t)
      PROVE  \E n \in Nat : Pipe("process", f, s, n)'
  <2>1. /\ Taken("core") \in Nat /\ Len(stream["core"]) \in Nat /\ Len(io["process"].out) \in Nat
        /\ s \in Nat
    BY <1>1, PartsType
  <2>2. Taken("core")' = Taken("core") /\ Skip("core")' = Skip("core")
    BY <1>2 DEF Taken, Skip
  <2>3. Len(<<>>) = 0 /\ \A n : Part(<<>>, f, s, n)
    BY DEF Part
  <2>. DEFINE n == Taken("core") + Len(stream["core"]) + 0
  <2>4. n <= 2 + s /\ n \in Nat
    BY <1>1, <1>3, <2>1 DEF Pipe
  <2>5. PICK m \in Nat : m = n
    BY <2>4
  <2>6. Pipe("process", f, s, m)'
    BY <1>1, <1>2, <1>3, <2>2, <2>3, <2>4, <2>5 DEF Pipe
  <2>. QED
    BY <2>6
<1>4. \A F : Line("process", F) => Sent("process", F)'
  BY <1>2, <1>3 DEF Line, Sent
<1>5. io["process"].out = <<>> => Untouched("process")
  BY <1>1, <1>2 DEF Untouched
<1>6. \A F : Whole("process", F) => Whole("process", F)'
  BY <1>1, <1>2, <1>5, UntouchedIsKept DEF Whole, Kept
<1>. QED
  BY <1>1, <1>2, <1>4, <1>6 DEF NoneFrom, Sending

(* ------------------------------- whose turn ------------------------------- *)

Call(c) == {[kind |-> "CALL", id |-> c]}
Results(c) == [kind : {"RESULT"}, id : {c}, status : Session!Statuses]
Requests(b, T) == [kind : {"CALLBACK_CALL"}, id : {b}, target : T]
Answers(b, S) == [kind : {"CALLBACK_RESULT"}, id : {b}, status : S]

CoreAt(pc, c) == core.pc = pc /\ core.id = c
ProcessIs(pc, c, b) == process = [pc |-> pc, id |-> c, callback |-> b]
ProcessAt(pc, c, b) == ProcessIs(pc, c, b) \/ ProcessIs("crashed", 0, 0)

\* The phases of call c and its callback b, each with what the directions hold:
\* at most one frame, of the end whose turn it is.
Idling ==
    core.pc = "idle" /\ ProcessAt("reading", 0, 0) /\ NoneFrom("core") /\ NoneFrom("process")
Calling(c) ==
    /\ c = issued + 1 /\ CoreAt("call", c) /\ ProcessAt("reading", 0, 0)
    /\ Sending("core", Call(c)) /\ NoneFrom("process")
Called(c) ==
    /\ CoreAt("read", c) /\ ProcessIs("reading", 0, 0)
    /\ Sent("core", Call(c)) /\ NoneFrom("process")
Executing(c) ==
    /\ CoreAt("read", c) /\ ProcessAt("executing", c, 0)
    /\ NoneFrom("core") /\ NoneFrom("process")
Requesting(c, b) ==
    /\ b = issued + 1 /\ CoreAt("read", c) /\ ProcessIs("request", c, b)
    /\ NoneFrom("core") /\ Sending("process", Requests(b, Session!Targets))
Requested(c, b) ==
    /\ CoreAt("read", c) /\ ProcessAt("waiting", c, b)
    /\ NoneFrom("core") /\ Sent("process", Requests(b, Session!Targets))
Refusing(c, b) ==
    /\ CoreAt("refuse", c) /\ ProcessAt("waiting", c, b) /\ stream["core"] = <<>>
    /\ Sending("core", Answers(b, {"Runtime"}))
    /\ Whole("process", Requests(b, Session!Targets \ {"other"}))
Nested(c, b) ==
    /\ CoreAt("nested", c) /\ core.callback = b /\ ProcessAt("waiting", c, b)
    /\ NoneFrom("core") /\ NoneFrom("process")
Answering(c, b) ==
    /\ CoreAt("answer", c) /\ core.callback = b /\ ProcessAt("waiting", c, b)
    /\ Sending("core", Answers(b, Session!Statuses)) /\ NoneFrom("process")
Answered(c, b) ==
    /\ CoreAt("read", c) /\ ProcessIs("waiting", c, b)
    /\ Sent("core", Answers(b, Session!Statuses)) /\ NoneFrom("process")
Responding(c) ==
    /\ CoreAt("read", c) /\ ProcessIs("respond", c, 0)
    /\ NoneFrom("core") /\ Sending("process", Results(c))
Responded(c) ==
    /\ CoreAt("read", c) /\ ProcessAt("reading", 0, 0)
    /\ NoneFrom("core") /\ Sent("process", Results(c))

\* As long as no frame was over the limit.
Turn ==
    \/ Idling
    \/ \E c \in Ids :
        \/ Calling(c) \/ Called(c) \/ Executing(c) \/ Responding(c) \/ Responded(c)
        \/ \E b \in Ids : \/ Requesting(c, b) \/ Requested(c, b) \/ Refusing(c, b)
                          \/ Nested(c, b) \/ Answering(c, b) \/ Answered(c, b)
TurnInv == excess = None => Turn

\* The phase is known from where the ends are and what is read.
LEMMA Phases ==
    ASSUME Turn
    PROVE  /\ core.pc = "idle" => Idling
           /\ core.pc = "call" => \E c \in Ids : Calling(c)
           /\ core.pc = "refuse" => \E c, b \in Ids : Refusing(c, b)
           /\ core.pc = "nested" => \E c, b \in Ids : Nested(c, b)
           /\ core.pc = "answer" => \E c, b \in Ids : Answering(c, b)
           /\ process.pc = "executing" => \E c \in Ids : Executing(c)
           /\ process.pc = "request" => \E c, b \in Ids : Requesting(c, b)
           /\ process.pc = "respond" => \E c \in Ids : Responding(c)
           /\ Gone => ProcessIs("crashed", 0, 0)
           /\ core.pc \in {"read", "refuse", "nested", "answer"} => core.id \in Ids
<1>. USE DEF CoreAt, ProcessIs, ProcessAt
<1>1. CASE Idling
  BY <1>1 DEF Idling, Gone
<1>2. ASSUME NEW c \in Ids, Calling(c) \/ Called(c) \/ Executing(c) \/ Responding(c) \/ Responded(c)
      PROVE  /\ core.pc \notin {"idle", "refuse", "nested", "answer"} /\ core.id = c
             /\ core.pc = "call" => Calling(c)
             /\ process.pc = "executing" => Executing(c)
             /\ process.pc = "respond" => Responding(c)
             /\ process.pc # "request"
             /\ Gone => ProcessIs("crashed", 0, 0)
  BY <1>2 DEF Calling, Called, Executing, Responding, Responded, Gone
<1>3. ASSUME NEW c \in Ids, NEW b \in Ids,
             \/ Requesting(c, b) \/ Requested(c, b) \/ Refusing(c, b)
             \/ Nested(c, b) \/ Answering(c, b) \/ Answered(c, b)
      PROVE  /\ core.pc \notin {"idle", "call"} /\ core.id = c
             /\ core.pc = "refuse" => Refusing(c, b)
             /\ core.pc = "nested" => Nested(c, b)
             /\ core.pc = "answer" => Answering(c, b)
             /\ process.pc \notin {"executing", "respond"}
             /\ process.pc = "request" => Requesting(c, b)
             /\ Gone => ProcessIs("crashed", 0, 0)
  BY <1>3 DEF Requesting, Requested, Refusing, Nested, Answering, Answered, Gone
<1>. QED
  <2>. USE <1>2, <1>3
  <2>1. CASE \E c \in Ids : Calling(c) \/ Called(c) \/ Executing(c) \/ Responding(c) \/ Responded(c)
    BY <2>1
  <2>2. CASE \E c, b \in Ids : \/ Requesting(c, b) \/ Requested(c, b) \/ Refusing(c, b)
                               \/ Nested(c, b) \/ Answering(c, b) \/ Answered(c, b)
    BY <2>2
  <2>. QED
    BY <1>1, <2>1, <2>2 DEF Turn, Idling

\* What the core can have read: the RESULT of its call, or a request of its
\* callback.
LEMMA CoreReads ==
    ASSUME TypeInv, Silence, Turn, NEW f \in Decoded("core")
    PROVE  /\ f.kind \in {"RESULT", "CALLBACK_CALL"}
           /\ f.kind = "RESULT" => \E c \in Ids : Responded(c) /\ f \in Results(c)
           /\ f.kind = "CALLBACK_CALL" =>
                  \E c, b \in Ids : Requested(c, b) /\ f \in Requests(b, Session!Targets)
           /\ Whole("process", {f}) /\ stream["core"] = <<>> /\ io["process"].out = <<>>
<1>1. /\ ~NoneFrom("process")
      /\ \A F : ~Sending("process", F)
      /\ \A F : Sent("process", F) =>
             f \in F /\ Whole("process", {f}) /\ stream["core"] = <<>> /\ io["process"].out = <<>>
  <2>1. "core" \in Ends /\ Peer("core") = "process"
    BY DEF Ends, Peer
  <2>. QED
    BY <2>1, FrameRead
<1>2. core.pc = "read"
  BY DEF Decoded, Reading
<1>3. CASE \E c \in Ids : Responded(c)
  <2>1. PICK c \in Ids : Responded(c)
    BY <1>3
  <2>2. Sent("process", Results(c))
    BY <2>1 DEF Responded
  <2>3. f \in Results(c)
    BY <1>1, <2>2
  <2>. QED
    BY <1>1, <2>1, <2>2, <2>3 DEF Results
<1>4. CASE \E c, b \in Ids : Requested(c, b)
  <2>1. PICK c \in Ids, b \in Ids : Requested(c, b)
    BY <1>4
  <2>2. Sent("process", Requests(b, Session!Targets))
    BY <2>1 DEF Requested
  <2>3. f \in Requests(b, Session!Targets)
    BY <1>1, <2>2
  <2>. QED
    BY <1>1, <2>1, <2>2, <2>3 DEF Requests
<1>5. ~Idling /\ \A c \in Ids : ~Calling(c) /\ ~Called(c) /\ ~Executing(c) /\ ~Responding(c)
  BY <1>1, <1>2 DEF Idling, Calling, Called, Executing, Responding
<1>6. \A c, b \in Ids : /\ ~Requesting(c, b) /\ ~Refusing(c, b) /\ ~Nested(c, b)
                        /\ ~Answering(c, b) /\ ~Answered(c, b)
  BY <1>1, <1>2 DEF Requesting, Refusing, Nested, Answering, Answered, CoreAt
<1>. QED
  BY <1>3, <1>4, <1>5, <1>6 DEF Turn

\* What the process can have read: the CALL it is called with, or the answer to its
\* callback.
LEMMA ProcessReads ==
    ASSUME TypeInv, Silence, Turn, NEW f \in Decoded("process")
    PROVE  /\ process.pc = "reading" => \E c \in Ids : Called(c) /\ f \in Call(c)
           /\ process.pc = "waiting" =>
                  \E c, b \in Ids : Answered(c, b) /\ f \in Answers(b, Session!Statuses)
           /\ stream["process"] = <<>> /\ io["core"].out = <<>>
<1>1. /\ ~NoneFrom("core")
      /\ \A F : ~Sending("core", F)
      /\ \A F : Sent("core", F) => f \in F /\ stream["process"] = <<>> /\ io["core"].out = <<>>
  <2>1. "process" \in Ends /\ Peer("process") = "core"
    BY DEF Ends, Peer
  <2>. QED
    BY <2>1, FrameRead
<1>2. process.pc \in {"reading", "waiting"}
  BY DEF Decoded, Reading
<1>3. CASE \E c \in Ids : Called(c)
  <2>1. PICK c \in Ids : Called(c)
    BY <1>3
  <2>2. Sent("core", Call(c)) /\ process.pc = "reading"
    BY <2>1 DEF Called, ProcessIs
  <2>. QED
    BY <1>1, <2>1, <2>2
<1>4. CASE \E c, b \in Ids : Answered(c, b)
  <2>1. PICK c \in Ids, b \in Ids : Answered(c, b)
    BY <1>4
  <2>2. Sent("core", Answers(b, Session!Statuses)) /\ process.pc = "waiting"
    BY <2>1 DEF Answered, ProcessIs
  <2>. QED
    BY <1>1, <2>1, <2>2
<1>5. ~Idling /\ \A c \in Ids : ~Calling(c) /\ ~Executing(c) /\ ~Responding(c) /\ ~Responded(c)
  BY <1>1, <1>2 DEF Idling, Calling, Executing, Responding, Responded
<1>6. \A c, b \in Ids : /\ ~Requesting(c, b) /\ ~Requested(c, b) /\ ~Refusing(c, b)
                        /\ ~Nested(c, b) /\ ~Answering(c, b)
  BY <1>1, <1>2 DEF Requesting, Requested, Refusing, Nested, Answering
<1>. QED
  BY <1>3, <1>4, <1>5, <1>6 DEF Turn

\* Every larger set of frames will do.
LEMMA LargerSets ==
    ASSUME NEW w, NEW F, NEW G, F \subseteq G
    PROVE  /\ (Sent(w, F) => Sent(w, G)) /\ (Sent(w, F)' => Sent(w, G)')
           /\ (Whole(w, F) => Whole(w, G)) /\ (Whole(w, F)' => Whole(w, G)')
BY DEF Sent, Line, Whole

\* A whole frame is a frame.
LEMMA WholeIsSent ==
    ASSUME TypeInv, NEW w, NEW F, Whole(w, F)
    PROVE  Sent(w, F)
<1>1. PICK f \in F, s \in Sizes : Pipe(w, f, s, 2 + s)
  BY DEF Whole
<1>2. 2 + s \in Nat
  BY TransportAssumption
<1>. QED
  BY <1>1, <1>2 DEF Whole, Sent, Line

\* Pieces on their way leave the phase as it is.
LEMMA PiecesKeepTurn ==
    ASSUME Turn, Kept("core"), Kept("process"), UNCHANGED <<core, process, issued>>,
           core.pc = "refuse" => stream'["core"] = stream["core"]
    PROVE  Turn'
<1>1. CASE Idling
  <2>1. Idling'
    BY <1>1 DEF Idling, ProcessAt, ProcessIs, Kept
  <2>. QED
    BY <2>1 DEF Turn
<1>2. ASSUME NEW c \in Ids, Calling(c) \/ Called(c) \/ Executing(c) \/ Responding(c) \/ Responded(c)
      PROVE  (Calling(c) \/ Called(c) \/ Executing(c) \/ Responding(c) \/ Responded(c))'
  <2>. USE DEF CoreAt, ProcessAt, ProcessIs
  <2>1. CASE Calling(c)
    BY <2>1 DEF Calling, Kept
  <2>2. CASE Called(c)
    BY <2>2 DEF Called, Kept
  <2>3. CASE Executing(c)
    BY <2>3 DEF Executing, Kept
  <2>4. CASE Responding(c)
    BY <2>4 DEF Responding, Kept
  <2>5. CASE Responded(c)
    BY <2>5 DEF Responded, Kept
  <2>. QED
    BY <1>2, <2>1, <2>2, <2>3, <2>4, <2>5
<1>3. ASSUME NEW c \in Ids, NEW b \in Ids,
             \/ Requesting(c, b) \/ Requested(c, b) \/ Refusing(c, b)
             \/ Nested(c, b) \/ Answering(c, b) \/ Answered(c, b)
      PROVE  (\/ Requesting(c, b) \/ Requested(c, b) \/ Refusing(c, b)
              \/ Nested(c, b) \/ Answering(c, b) \/ Answered(c, b))'
  <2>. USE DEF CoreAt, ProcessAt, ProcessIs
  <2>1. CASE Requesting(c, b)
    BY <2>1 DEF Requesting, Kept
  <2>2. CASE Requested(c, b)
    BY <2>2 DEF Requested, Kept
  <2>3. CASE Refusing(c, b)
    BY <2>3 DEF Refusing, Kept
  <2>4. CASE Nested(c, b)
    BY <2>4 DEF Nested, Kept
  <2>5. CASE Answering(c, b)
    BY <2>5 DEF Answering, Kept
  <2>6. CASE Answered(c, b)
    BY <2>6 DEF Answered, Kept
  <2>. QED
    BY <1>3, <2>1, <2>2, <2>3, <2>4, <2>5, <2>6
<1>4. CASE \E c \in Ids : Calling(c) \/ Called(c) \/ Executing(c) \/ Responding(c) \/ Responded(c)
  <2>1. PICK c \in Ids : Calling(c) \/ Called(c) \/ Executing(c) \/ Responding(c) \/ Responded(c)
    BY <1>4
  <2>2. (Calling(c) \/ Called(c) \/ Executing(c) \/ Responding(c) \/ Responded(c))'
    BY <1>2, <2>1
  <2>. QED
    BY <2>2 DEF Turn
<1>5. CASE \E c, b \in Ids : \/ Requesting(c, b) \/ Requested(c, b) \/ Refusing(c, b)
                             \/ Nested(c, b) \/ Answering(c, b) \/ Answered(c, b)
  <2>1. PICK c \in Ids, b \in Ids : \/ Requesting(c, b) \/ Requested(c, b) \/ Refusing(c, b)
                                    \/ Nested(c, b) \/ Answering(c, b) \/ Answered(c, b)
    BY <1>5
  <2>2. (\/ Requesting(c, b) \/ Requested(c, b) \/ Refusing(c, b)
         \/ Nested(c, b) \/ Answering(c, b) \/ Answered(c, b))'
    BY <1>3, <2>1
  <2>. QED
    BY <2>2 DEF Turn
<1>. QED
  BY <1>1, <1>4, <1>5 DEF Turn

\* That a frame was over the limit is never forgotten.
LEMMA ExcessStays ==
    ASSUME [Next]_vars, excess' = None
    PROVE  excess = None
<1>1. excess # None => excess' = excess
  BY DEF Next, CoreStep, ProcessStep, BeginCall, WritePiece, ReadPiece, ReadLength, ReadsLength,
         CoreWritten, CoreWriteFails, CoreReadFails, ReadResult, RefuseCallback,
         DispatchCallback, AnswerCallback, ProcessWritten, ProcessHasWritten, ProcessGivesUp,
         GivesUp, TakeFrame, TakeAnswer, SendResult, SendCallback, Crash, Rest, vars
<1>. QED
  BY <1>1

\* Nothing is over the limit in a step after which nothing was.
LEMMA NothingTooLarge ==
    ASSUME TypeInv, excess' = None, NEW e \in Ends
    PROVE  ~GivesUp(e)
<1>1. SUFFICES ASSUME GivesUp(e) PROVE FALSE
  OBVIOUS
<1>2. io[e].got \in Seq(Piece) /\ Len(io[e].got) = 2
  BY <1>1, PartsType DEF GivesUp, HasLength
<1>3. io[e].got[1] \in Piece
  BY <1>2
<1>4. io[e].got[1].frame.kind \in Kinds
  BY <1>3, FrameType DEF Piece, Frame
<1>. QED
  BY <1>1, <1>4, TransportAssumption DEF GivesUp, Kinds

\* The steps of the core hand the turn on.
LEMMA CoreKeepsTurn ==
    ASSUME TypeInv, Silence, Turn, excess' = None,
           BeginCall \/ CoreStep
    PROVE  Turn'
<1>0. /\ "core" \in Ends /\ "process" \in Ends
      /\ Peer("core") = "process" /\ Peer("process") = "core"
      /\ io \in [Ends -> Io] /\ stream \in [Ends -> Seq(Piece)]
      /\ Silent.out = <<>> /\ Silent.got = <<>> /\ Silent.need = 0
      /\ core = [pc |-> core.pc, id |-> core.id, callback |-> core.callback]
  BY PartsType DEF Ends, Peer, Silent, TypeInv, PlaceType
<1>1. \A c \in Ids : (Calling(c) \/ Called(c) \/ Executing(c) \/ Responding(c) \/ Responded(c))' => Turn'
  BY DEF Turn
<1>2. \A c, b \in Ids : (\/ Requesting(c, b) \/ Requested(c, b) \/ Refusing(c, b)
                         \/ Nested(c, b) \/ Answering(c, b) \/ Answered(c, b))' => Turn'
  BY DEF Turn
<1>3. CASE BeginCall
  <2>1. Idling /\ issued + 1 \in Ids
    BY <1>3, Phases, TransportAssumption DEF BeginCall, Ids, TypeInv, PlaceType
  <2>2. PICK c \in Ids : c = issued + 1
    BY <2>1
  <2>3. [kind |-> "CALL", id |-> c] \in Frame /\ Writes("core", [kind |-> "CALL", id |-> c])
        /\ stream' = stream /\ process' = process /\ issued' = issued
    BY <1>3, <2>2, FrameType DEF BeginCall
  <2>4. NoneFrom("core") /\ NoneFrom("process")
    BY <2>1 DEF Idling
  <2>5. Sending("core", Call(c))' /\ Untouched("process")
    BY <1>0, <2>3, <2>4, FrameBegins DEF Call
  <2>6. Gone' = Gone
    BY <2>3 DEF Gone
  <2>7. NoneFrom("process")'
    BY <1>0, <2>4, <2>5, <2>6, UntouchedIsKept DEF Kept
  <2>8. Calling(c)'
    BY <1>3, <2>1, <2>2, <2>3, <2>5, <2>7 DEF BeginCall, Calling, Idling, CoreAt, ProcessAt, ProcessIs
  <2>. QED
    BY <1>1, <2>8
<1>4. CASE CoreWritten
  <2>1. /\ ~Gone /\ ~Gone' /\ WritesLast("core") /\ process' = process
        /\ core' = [core EXCEPT !.pc = "read"]
        /\ core.pc \in {"call", "refuse", "answer"}
    <3>1. Len(io["core"].out) = 1
      BY <1>4 DEF CoreWritten, WritesLast
    <3>2. io["core"].out # <<>>
      BY <3>1
    <3>. QED
      BY <1>4, <3>2 DEF CoreWritten, Gone, TypeInv, CoreWrites
  <2>2. /\ \A F : Sending("core", F) => Sent("core", F)'
        /\ io["process"].out = <<>> /\ stream["core"] = <<>> => NoneFrom("process")'
    BY <1>0, <2>1, LastPiece
  <2>3. \A c : CoreAt(core.pc, c) => CoreAt("read", c)'
    BY <1>0, <2>1 DEF CoreAt
  <2>4. \A pc, c, b : pc # "crashed" /\ ProcessAt(pc, c, b) => ProcessIs(pc, c, b)'
    BY <2>1 DEF ProcessAt, ProcessIs, Gone
  <2>5. CASE core.pc = "call"
    <3>1. PICK c \in Ids : Calling(c)
      BY <2>5, Phases
    <3>2. Called(c)'
      BY <2>2, <2>3, <2>4, <2>5, <3>1 DEF Calling, Called, NoneFrom, CoreAt, Peer
    <3>. QED
      BY <1>1, <3>2
  <2>6. CASE core.pc = "answer"
    <3>1. PICK c \in Ids, b \in Ids : Answering(c, b)
      BY <2>6, Phases
    <3>2. Answered(c, b)'
      BY <2>2, <2>3, <2>4, <2>6, <3>1 DEF Answering, Answered, NoneFrom, CoreAt, Peer
    <3>. QED
      BY <1>2, <3>2
  <2>7. CASE core.pc = "refuse"
    <3>1. PICK c \in Ids, b \in Ids : Refusing(c, b)
      BY <2>7, Phases
    <3>2. Answers(b, {"Runtime"}) \subseteq Answers(b, Session!Statuses)
      BY DEF Answers, Session!Statuses
    <3>3. Sent("core", Answers(b, Session!Statuses))'
      BY <2>2, <3>1, <3>2, LargerSets DEF Refusing
    <3>4. Answered(c, b)'
      BY <2>2, <2>3, <2>4, <2>7, <3>1, <3>3 DEF Refusing, Answered, Whole, CoreAt
    <3>. QED
      BY <1>2, <3>4
  <2>. QED
    BY <2>1, <2>5, <2>6, <2>7
<1>5. ASSUME Gone, io' = [io EXCEPT !["core"] = Silent], stream["core"] = <<>>,
             UNCHANGED <<stream, process>>
      PROVE  NoneFrom("core")' /\ NoneFrom("process")' /\ ProcessIs("crashed", 0, 0)'
  <2>1. io["process"] = Silent /\ stream["process"] = <<>>
    BY <1>5 DEF Silence
  <2>2. io'["core"] = Silent /\ io'["process"] = Silent
    BY <1>0, <1>5, <2>1
  <2>3. ProcessIs("crashed", 0, 0)
    BY <1>5, Phases
  <2>. QED
    BY <1>0, <1>5, <2>1, <2>2, <2>3 DEF NoneFrom, ProcessIs
<1>6. ASSUME NEW s, ReturnCall(s), NoneFrom("core")', NoneFrom("process")', ProcessAt("reading", 0, 0)'
      PROVE  Turn'
  BY <1>6 DEF ReturnCall, Idle, Idling, Turn
<1>7. CASE CoreWriteFails
  <2>1. /\ Gone /\ io' = [io EXCEPT !["core"] = Silent] /\ UNCHANGED <<stream, process>>
        /\ core.pc \in {"call", "refuse", "answer"}
    BY <1>7 DEF CoreWriteFails, TypeInv, CoreWrites
  <2>2. stream["core"] = <<>>
    BY <1>0, <2>1, Phases DEF Calling, Refusing, Answering, NoneFrom
  <2>3. NoneFrom("core")' /\ NoneFrom("process")' /\ ProcessIs("crashed", 0, 0)'
    BY <1>5, <2>1, <2>2
  <2>4. CASE core.pc # "refuse"
    BY <1>6, <1>7, <2>3, <2>4 DEF CoreWriteFails, ProcessAt
  <2>5. CASE core.pc = "refuse"
    <3>1. core' = [core EXCEPT !.pc = "read"] /\ core.id \in Ids
      BY <1>7, <2>5, Phases DEF CoreWriteFails
    <3>2. PICK c \in Ids : c = core.id
      BY <3>1
    <3>3. Executing(c)'
      BY <1>0, <2>3, <3>1, <3>2 DEF Executing, CoreAt, ProcessAt
    <3>. QED
      BY <1>1, <3>3
  <2>. QED
    BY <2>4, <2>5
<1>8. CASE CoreReadFails
  <2>1. ~GivesUp("core")
    BY <1>0, NothingTooLarge
  <2>2. /\ Gone /\ io' = [io EXCEPT !["core"] = Silent] /\ stream["core"] = <<>>
        /\ UNCHANGED <<stream, process>> /\ ReturnCall("Runtime")
    BY <1>8, <2>1 DEF CoreReadFails
  <2>. QED
    BY <1>5, <1>6, <2>2 DEF ProcessAt
<1>9. ASSUME NEW f \in Decoded("core"), Received("core"), stream' = stream, process' = process,
             NoneFrom("core")
      PROVE  NoneFrom("core")' /\ NoneFrom("process")'
  <2>1. Gone' = Gone
    BY <1>9 DEF Gone
  <2>2. Untouched("core") /\ NoneFrom("process")'
    BY <1>0, <1>9, CoreReads, FrameTaken DEF NoneFrom
  <2>. QED
    BY <1>0, <1>9, <2>1, <2>2, UntouchedIsKept DEF Kept
<1>10. ASSUME NEW f \in Decoded("core"), ReadResult(f)
       PROVE  Turn'
  <2>1. PICK c \in Ids : Responded(c)
    BY <1>10, CoreReads DEF ReadResult
  <2>2. NoneFrom("core")' /\ NoneFrom("process")' /\ process' = process
    BY <1>9, <1>10, <2>1 DEF ReadResult, Responded
  <2>. QED
    BY <1>6, <1>10, <2>1, <2>2 DEF ReadResult, Responded, ProcessAt, ProcessIs
<1>11. ASSUME NEW f \in Decoded("core"), DispatchCallback(f)
       PROVE  Turn'
  <2>1. PICK c \in Ids, b \in Ids : Requested(c, b) /\ f \in Requests(b, Session!Targets)
    BY <1>11, CoreReads DEF DispatchCallback
  <2>2. NoneFrom("core")' /\ NoneFrom("process")' /\ process' = process
    BY <1>9, <1>11, <2>1 DEF DispatchCallback, Requested
  <2>3. f.id = b /\ core' = [core EXCEPT !.pc = "nested", !.callback = f.id]
    BY <1>11, <2>1 DEF DispatchCallback, Requests
  <2>4. Nested(c, b)'
    BY <1>0, <2>1, <2>2, <2>3 DEF Nested, Requested, CoreAt, ProcessAt, ProcessIs
  <2>. QED
    BY <1>2, <2>4
<1>12. ASSUME NEW f \in Decoded("core"), RefuseCallback(f)
       PROVE  Turn'
  <2>1. PICK c \in Ids, b \in Ids : Requested(c, b) /\ f \in Requests(b, Session!Targets)
    BY <1>12, CoreReads DEF RefuseCallback
  <2>2. /\ f.id = b /\ f \in Requests(b, Session!Targets \ {"other"})
        /\ core' = [core EXCEPT !.pc = "refuse"] /\ UNCHANGED <<stream, process>>
    BY <1>12, <2>1 DEF RefuseCallback, Requests
  <2>. DEFINE answer == [kind |-> "CALLBACK_RESULT", id |-> b, status |-> "Runtime"]
  <2>3. answer \in Frame /\ Writes("core", answer) /\ answer \in Answers(b, {"Runtime"})
    BY <1>12, <2>2, FrameType DEF RefuseCallback, Session!Statuses, Answers
  <2>. HIDE DEF answer
  <2>4. Sending("core", Answers(b, {"Runtime"}))' /\ Untouched("process")
    BY <1>0, <2>1, <2>2, <2>3, FrameBegins DEF Requested
  <2>5. Gone' = Gone
    BY <2>2 DEF Gone
  <2>6. Whole("process", {f})' /\ stream["core"] = <<>>
    BY <1>0, <2>4, <2>5, CoreReads, UntouchedIsKept DEF Kept
  <2>7. Whole("process", Requests(b, Session!Targets \ {"other"}))'
    <3>1. {f} \subseteq Requests(b, Session!Targets \ {"other"})
      BY <2>2
    <3>. QED
      BY <2>6, <3>1, LargerSets
  <2>8. Refusing(c, b)'
    BY <1>0, <2>1, <2>2, <2>4, <2>6, <2>7 DEF Refusing, Requested, CoreAt, ProcessAt, ProcessIs
  <2>. QED
    BY <1>2, <2>8
<1>13. ASSUME NEW s \in Session!Statuses, AnswerCallback(s)
       PROVE  Turn'
  <2>1. PICK c \in Ids, b \in Ids : Nested(c, b)
    BY <1>13, Phases DEF AnswerCallback
  <2>. DEFINE answer == [kind |-> "CALLBACK_RESULT", id |-> b, status |-> s]
  <2>2. answer \in Frame /\ Writes("core", answer) /\ answer \in Answers(b, Session!Statuses)
    BY <1>13, <2>1, FrameType DEF AnswerCallback, Nested, Answers
  <2>. HIDE DEF answer
  <2>3. core' = [core EXCEPT !.pc = "answer"] /\ UNCHANGED <<stream, process>>
    BY <1>13 DEF AnswerCallback
  <2>4. Sending("core", Answers(b, Session!Statuses))' /\ Untouched("process")
    BY <1>0, <2>1, <2>2, <2>3, FrameBegins DEF Nested
  <2>5. Gone' = Gone
    BY <2>3 DEF Gone
  <2>6. NoneFrom("process")'
    BY <1>0, <2>1, <2>4, <2>5, UntouchedIsKept DEF Kept, Nested
  <2>7. Answering(c, b)'
    BY <1>0, <2>1, <2>3, <2>4, <2>6 DEF Answering, Nested, CoreAt, ProcessAt, ProcessIs
  <2>. QED
    BY <1>2, <2>7
<1>14. CASE WritePiece("core") \/ ReadPiece("core") \/ ReadLength("core")
  <2>1. Kept("core") /\ Kept("process")
    BY <1>0, <1>14, PieceSteps
  <2>2. UNCHANGED <<core, process, issued>>
    BY <1>14 DEF WritePiece, ReadPiece, ReadLength, ReadsLength
  <2>3. core.pc = "refuse" => stream'["core"] = stream["core"]
    BY <1>0, <1>14 DEF WritePiece, ReadPiece, ReadLength, ReadsLength, HasLength, Reading
  <2>. QED
    BY <2>1, <2>2, <2>3, PiecesKeepTurn
<1>. QED
  BY <1>3, <1>4, <1>7, <1>8, <1>10, <1>11, <1>12, <1>13, <1>14 DEF CoreStep

\* So do the steps of the process.
LEMMA ProcessKeepsTurn ==
    ASSUME TypeInv, Silence, Turn, excess' = None,
           ProcessStep \/ \E target \in Session!Targets : SendCallback(target)
    PROVE  Turn'
<1>0. /\ "core" \in Ends /\ "process" \in Ends
      /\ Peer("core") = "process" /\ Peer("process") = "core"
      /\ io \in [Ends -> Io] /\ stream \in [Ends -> Seq(Piece)]
      /\ process = [pc |-> process.pc, id |-> process.id, callback |-> process.callback]
  BY PartsType DEF Ends, Peer, TypeInv, PlaceType
<1>1. \A c \in Ids : (Calling(c) \/ Called(c) \/ Executing(c) \/ Responding(c) \/ Responded(c))' => Turn'
  BY DEF Turn
<1>2. \A c, b \in Ids : (\/ Requesting(c, b) \/ Requested(c, b) \/ Refusing(c, b)
                         \/ Nested(c, b) \/ Answering(c, b) \/ Answered(c, b))' => Turn'
  BY DEF Turn
<1>3. ASSUME NEW t \in Session!Targets, SendCallback(t)
      PROVE  Turn'
  <2>1. PICK c \in Ids : Executing(c)
    BY <1>3, Phases DEF SendCallback
  <2>2. issued + 1 \in Ids
    BY <1>3, TransportAssumption DEF SendCallback, Ids, TypeInv, PlaceType
  <2>3. PICK b \in Ids : b = issued + 1
    BY <2>2
  <2>. DEFINE request == [kind |-> "CALLBACK_CALL", id |-> b, target |-> t]
  <2>4. request \in Frame /\ Writes("process", request) /\ request \in Requests(b, Session!Targets)
    BY <1>3, <2>3, FrameType DEF SendCallback, Requests
  <2>. HIDE DEF request
  <2>5. /\ process' = [process EXCEPT !.pc = "request", !.callback = issued + 1]
        /\ UNCHANGED <<stream, core, issued>> /\ process.pc = "executing"
    BY <1>3 DEF SendCallback
  <2>6. Sending("process", Requests(b, Session!Targets))' /\ Untouched("core")
    BY <1>0, <2>1, <2>4, <2>5, FrameBegins DEF Executing
  <2>7. ProcessIs("executing", c, 0)
    BY <2>1, <2>5 DEF Executing, ProcessAt, ProcessIs
  <2>8. ProcessIs("request", c, b)'
    BY <2>3, <2>5, <2>7 DEF ProcessIs
  <2>9. NoneFrom("core")'
    BY <1>0, <2>1, <2>5, <2>6, UntouchedIsKept DEF Kept, Executing, Gone
  <2>10. Requesting(c, b)'
    BY <2>1, <2>3, <2>5, <2>6, <2>8, <2>9 DEF Requesting, Executing, CoreAt
  <2>. QED
    BY <1>2, <2>10
<1>4. ASSUME NEW s \in Session!Statuses, SendResult(s)
      PROVE  Turn'
  <2>1. PICK c \in Ids : Executing(c)
    BY <1>4, Phases DEF SendResult
  <2>2. ProcessIs("executing", c, 0)
    BY <1>4, <2>1 DEF SendResult, Executing, ProcessAt, ProcessIs
  <2>. DEFINE answer == [kind |-> "RESULT", id |-> c, status |-> s]
  <2>3. answer \in Frame /\ Writes("process", answer) /\ answer \in Results(c)
    BY <1>4, <2>2, FrameType DEF SendResult, Results, ProcessIs
  <2>. HIDE DEF answer
  <2>4. /\ process' = [process EXCEPT !.pc = "respond"]
        /\ UNCHANGED <<stream, core>> /\ process.pc = "executing"
    BY <1>4 DEF SendResult
  <2>5. Sending("process", Results(c))' /\ Untouched("core")
    BY <1>0, <2>1, <2>3, <2>4, FrameBegins DEF Executing
  <2>6. ProcessIs("respond", c, 0)'
    BY <2>2, <2>4 DEF ProcessIs
  <2>7. NoneFrom("core")'
    BY <1>0, <2>1, <2>4, <2>5, UntouchedIsKept DEF Kept, Executing, Gone
  <2>8. Responding(c)'
    BY <2>1, <2>4, <2>5, <2>6, <2>7 DEF Responding, Executing, CoreAt
  <2>. QED
    BY <1>1, <2>8
<1>5. CASE ProcessWritten
  <2>1. /\ WritesLast("process") /\ core' = core
        /\ process.pc \in {"request", "respond"}
        /\ process.pc = "request" => process' = [process EXCEPT !.pc = "waiting"]
        /\ process.pc = "respond" => process' = [pc |-> "reading", id |-> 0, callback |-> 0]
    BY <1>5 DEF ProcessWritten, ProcessHasWritten
  <2>2. ~Gone /\ ~Gone'
    BY <1>0, <2>1 DEF Gone
  <2>3. /\ \A F : Sending("process", F) => Sent("process", F)'
        /\ io["core"].out = <<>> /\ stream["process"] = <<>> => NoneFrom("core")'
    BY <1>0, <2>1, <2>2, LastPiece
  <2>4. CASE process.pc = "request"
    <3>1. PICK c \in Ids, b \in Ids : Requesting(c, b)
      BY <2>4, Phases
    <3>2. ProcessAt("waiting", c, b)'
      BY <2>1, <2>4, <3>1 DEF Requesting, ProcessAt, ProcessIs
    <3>3. Requested(c, b)'
      BY <1>0, <2>1, <2>3, <3>1, <3>2 DEF Requesting, Requested, NoneFrom, CoreAt
    <3>. QED
      BY <1>2, <3>3
  <2>5. CASE process.pc = "respond"
    <3>1. PICK c \in Ids : Responding(c)
      BY <2>5, Phases
    <3>2. ProcessAt("reading", 0, 0)'
      BY <2>1, <2>5 DEF ProcessAt, ProcessIs
    <3>3. Responded(c)'
      BY <1>0, <2>1, <2>3, <3>1, <3>2 DEF Responding, Responded, NoneFrom, CoreAt
    <3>. QED
      BY <1>1, <3>3
  <2>. QED
    BY <2>1, <2>4, <2>5
<1>6. ASSUME NEW f \in Decoded("process"), Received("process"), stream' = stream, ~Gone',
             NoneFrom("process")
      PROVE  NoneFrom("core")' /\ NoneFrom("process")'
  <2>1. Reading("process")
    BY DEF Decoded
  <2>2. ~Gone
    BY <2>1 DEF Reading, Gone
  <2>3. Untouched("process") /\ NoneFrom("core")'
    BY <1>0, <1>6, ProcessReads, FrameTaken DEF NoneFrom
  <2>. QED
    BY <1>0, <1>6, <2>2, <2>3, UntouchedIsKept DEF Kept
<1>7. ASSUME NEW f \in Decoded("process"), TakeFrame(f)
      PROVE  Turn'
  <2>1. PICK c \in Ids : Called(c) /\ f \in Call(c)
    BY <1>7, ProcessReads DEF TakeFrame
  <2>2. f.kind = "CALL" /\ f.id = c
    BY <2>1 DEF Call
  <2>3. /\ process' = [pc |-> "executing", id |-> c, callback |-> 0]
        /\ Received("process") /\ UNCHANGED <<stream, core>>
    BY <1>7, <2>2 DEF TakeFrame
  <2>4. NoneFrom("core")' /\ NoneFrom("process")'
    BY <1>6, <2>1, <2>3 DEF Called, Gone
  <2>5. Executing(c)'
    BY <2>1, <2>3, <2>4 DEF Executing, Called, CoreAt, ProcessAt, ProcessIs
  <2>. QED
    BY <1>1, <2>5
<1>8. ASSUME NEW f \in Decoded("process"), TakeAnswer(f)
      PROVE  Turn'
  <2>1. PICK c \in Ids, b \in Ids : Answered(c, b)
    BY <1>8, ProcessReads DEF TakeAnswer
  <2>2. /\ process' = [process EXCEPT !.pc = "executing", !.callback = 0]
        /\ Received("process") /\ UNCHANGED <<stream, core>>
    BY <1>8 DEF TakeAnswer
  <2>3. process' = [pc |-> "executing", id |-> c, callback |-> 0]
    BY <2>1, <2>2 DEF Answered, ProcessIs
  <2>4. NoneFrom("core")' /\ NoneFrom("process")'
    BY <1>6, <2>1, <2>2, <2>3 DEF Answered, Gone
  <2>5. Executing(c)'
    BY <2>1, <2>2, <2>3, <2>4 DEF Executing, Answered, CoreAt, ProcessAt, ProcessIs
  <2>. QED
    BY <1>1, <2>5
<1>9. ~ProcessGivesUp
  BY <1>0, NothingTooLarge DEF ProcessGivesUp
<1>10. CASE WritePiece("process") \/ ReadPiece("process") \/ ReadLength("process")
  <2>1. Kept("core") /\ Kept("process")
    BY <1>0, <1>10, PieceSteps
  <2>2. UNCHANGED <<core, process, issued>>
    BY <1>10 DEF WritePiece, ReadPiece, ReadLength, ReadsLength
  <2>3. core.pc = "refuse" => stream'["core"] = stream["core"]
    <3>1. CASE WritePiece("process")
      <4>1. ASSUME core.pc = "refuse" PROVE FALSE
        <5>1. io["process"].out = <<>>
          BY <4>1, Phases DEF Refusing, Whole
        <5>2. Len(io["process"].out) > 1
          BY <3>1 DEF WritePiece
        <5>. QED
          BY <5>1, <5>2
      <4>. QED
        BY <4>1
    <3>2. CASE ReadPiece("process") \/ ReadLength("process")
      BY <1>0, <3>2 DEF ReadPiece, ReadLength, ReadsLength
    <3>. QED
      BY <1>10, <3>1, <3>2
  <2>. QED
    BY <2>1, <2>2, <2>3, PiecesKeepTurn
<1>. QED
  BY <1>3, <1>4, <1>5, <1>7, <1>8, <1>9, <1>10 DEF ProcessStep

\* When the process dies, the turn is with the core, which has what was written.
LEMMA CrashKeepsTurn ==
    ASSUME TypeInv, Turn, Crash
    PROVE  Turn'
<1>1. /\ io["core"].out = <<>> => NoneFrom("core")'
      /\ \A F : io["core"].out # <<>> => Sending("core", F)'
      /\ NoneFrom("process") => NoneFrom("process")'
      /\ \A F : Line("process", F) => Sent("process", F)'
      /\ \A F : Whole("process", F) => Whole("process", F)'
  BY ProcessEnds DEF Crash
<1>2. /\ ~Gone /\ UNCHANGED <<core, issued>> /\ ProcessIs("crashed", 0, 0)'
      /\ stream'["core"] = stream["core"]
  BY DEF Crash, Closes, ProcessIs, TypeInv, WireType, Ends
<1>3. CASE Idling
  BY <1>1, <1>2, <1>3 DEF Idling, Turn, ProcessAt, NoneFrom
<1>4. ASSUME NEW c \in Ids, Calling(c) \/ Called(c) \/ Executing(c) \/ Responding(c) \/ Responded(c)
      PROVE  Turn'
  <2>. USE <1>1, <1>2 DEF CoreAt, ProcessAt
  <2>1. Calling(c) => Calling(c)'
    BY DEF Calling, Sending
  <2>2. Called(c) \/ Executing(c) => Executing(c)'
    BY DEF Called, Executing, Sent, NoneFrom
  <2>3. Responding(c) \/ Responded(c) => Responded(c)'
    BY DEF Responding, Responded, Sending, Sent, NoneFrom
  <2>. QED
    BY <1>4, <2>1, <2>2, <2>3 DEF Turn
<1>5. ASSUME NEW c \in Ids, NEW b \in Ids,
             \/ Requesting(c, b) \/ Requested(c, b) \/ Refusing(c, b)
             \/ Nested(c, b) \/ Answering(c, b) \/ Answered(c, b)
      PROVE  Turn'
  <2>. USE <1>1, <1>2 DEF CoreAt, ProcessAt
  <2>1. Requesting(c, b) \/ Requested(c, b) => Requested(c, b)'
    BY DEF Requesting, Requested, Sending, Sent, NoneFrom
  <2>2. Refusing(c, b) => Refusing(c, b)'
    BY DEF Refusing, Sending
  <2>3. Nested(c, b) => Nested(c, b)'
    BY DEF Nested, NoneFrom
  <2>4. Answering(c, b) => Answering(c, b)'
    BY DEF Answering, Sending
  <2>5. Answered(c, b) => Executing(c)'
    BY DEF Answered, Executing, Sent
  <2>. QED
    BY <1>5, <2>1, <2>2, <2>3, <2>4, <2>5 DEF Turn
<1>. QED
  BY <1>3, <1>4, <1>5 DEF Turn

\* One frame at a time, of the end whose turn it is, until one is over the limit.
LEMMA TurnHolds == Spec => [](Silence /\ TurnInv)
<1>1. Init => Silence /\ TurnInv
  <2>1. SUFFICES ASSUME Init PROVE Silence /\ Idling
    BY DEF TurnInv, Turn
  <2>. QED
    BY <2>1 DEF Init, Silence, Idling, Silent, Idle, Gone, NoneFrom, ProcessAt, ProcessIs, Ends, Peer
<1>2. TypeInv /\ Silence /\ TurnInv /\ [Next]_vars => (Silence /\ TurnInv)'
  <2>1. SUFFICES ASSUME TypeInv, Silence, TurnInv, [Next]_vars
                 PROVE  (Silence /\ TurnInv)'
    OBVIOUS
  <2>2. Silence'
    BY <2>1, SilenceStep
  <2>3. excess' = None => excess = None
    BY <2>1, ExcessStays
  <2>4. ASSUME excess' = None PROVE Turn'
    <3>1. Turn
      BY <2>1, <2>3, <2>4 DEF TurnInv
    <3>2. CASE Rest \/ UNCHANGED vars
      <4>1. UNCHANGED <<stream, io, core, process, issued>>
        BY <3>2 DEF Rest, vars
      <4>2. \A w \in Ends : Kept(w)
        BY <4>1, UntouchedIsKept DEF Untouched, Gone
      <4>. QED
        BY <3>1, <4>1, <4>2, PiecesKeepTurn DEF Ends
    <3>. QED
      BY <2>1, <2>4, <3>1, <3>2, CoreKeepsTurn, ProcessKeepsTurn, CrashKeepsTurn DEF Next
  <2>. QED
    BY <2>2, <2>4 DEF TurnInv
<1>. QED
  BY <1>1, <1>2, Typed, PTL DEF Spec

\* What an end has read of a frame is the frame from its beginning, or its body.
LEMMA PartsAreAligned ==
    ASSUME TypeInv, NEW e \in Ends, NoneFrom(Peer(e)) \/ \E F : Line(Peer(e), F)
    PROVE  \A k \in DOMAIN io[e].got :
               /\ io[e].got[k].frame = io[e].got[1].frame
               /\ io[e].got[k].n = IF io[e].need = 0 THEN k ELSE k + 2
<1>1. Peer(e) \in Ends /\ Peer(Peer(e)) = e /\ io[e].got \in Seq(Piece)
  BY PartsType DEF Peer, Ends
<1>2. CASE NoneFrom(Peer(e))
  BY <1>1, <1>2 DEF NoneFrom
<1>3. ASSUME NEW f, NEW s, NEW t, Pipe(Peer(e), f, s, t), NEW k \in DOMAIN io[e].got
      PROVE  /\ io[e].got[k].frame = io[e].got[1].frame
             /\ io[e].got[k].n = IF io[e].need = 0 THEN k ELSE k + 2
  <2>1. k \in Nat /\ 1 \in DOMAIN io[e].got
    BY <1>1
  <2>2. io[e].got[1] = P(f, s, Skip(e) + 1) /\ io[e].got[k] = P(f, s, Skip(e) + k)
    BY <1>1, <1>3, <2>1 DEF Pipe, Part
  <2>. QED
    BY <2>1, <2>2 DEF P, Skip
<1>. QED
  BY <1>2, <1>3 DEF Line

\* The pieces an end has in its hands are those of one frame from its beginning, in
\* whatever pieces the socket takes and gives them, and wherever the process dies:
\* until a frame is over the limit, both ends cut the stream where frames begin.
THEOREM StreamIsCutAtFrames == Spec => []Aligned
<1>1. TypeInv /\ Silence /\ TurnInv => Aligned
  <2>1. SUFFICES ASSUME TypeInv, Silence, Turn, NEW e \in Ends
                 PROVE  \A k \in DOMAIN io[e].got :
                            /\ io[e].got[k].frame = io[e].got[1].frame
                            /\ io[e].got[k].n = IF io[e].need = 0 THEN k ELSE k + 2
    BY DEF Aligned, TurnInv
  <2>2. CASE e = "process" /\ Gone
    BY <2>1, <2>2 DEF Silence, Silent
  <2>3. CASE e = "core" \/ ~Gone
    <3>1. NoneFrom(Peer(e)) \/ \E F : Sending(Peer(e), F) \/ Sent(Peer(e), F)
      <4>1. \A w \in Ends : NoneFrom(w) \/ \E F : Sending(w, F) \/ Sent(w, F)
        BY <2>1, WholeIsSent DEF Turn, Ends, Idling, Calling, Called, Executing, Responding, Responded,
                    Requesting, Requested, Refusing, Nested, Answering, Answered
      <4>. QED
        BY <4>1 DEF Peer, Ends
    <3>2. io[Peer(e)].out # <<>> => ~Gone
      BY <2>1, <2>3 DEF Silence, Silent, Peer, Ends
    <3>3. NoneFrom(Peer(e)) \/ \E F : Line(Peer(e), F)
      BY <3>1, <3>2 DEF Sending, Sent
    <3>. QED
      BY <2>1, <3>3, PartsAreAligned
  <2>. QED
    BY <2>1, <2>2, <2>3 DEF Ends
<1>. QED
  BY <1>1, Typed, TurnHolds, PTL

\* The two ends are never both in a write: with the smallest buffers, and a frame
\* larger than they are, they do not wait for each other to read.
THEOREM OneWrites == Spec => []NotBothWriting
<1>1. TurnInv => NotBothWriting
  BY DEF TurnInv, Turn, NotBothWriting, Idling, Calling, Called, Executing, Responding, Responded,
         Requesting, Requested, Refusing, Nested, Answering, Answered, NoneFrom, Sent, Whole
<1>. QED
  BY <1>1, TurnHolds, PTL

(* --------------------------- somebody can move ---------------------------- *)

\* e is in a read or a write, and it does not return: nothing is on the way to e,
\* or the socket is full.
Blocked(e) ==
    /\ ~Gone
    /\ \/ Reading(e) /\ Len(io[e].got) < Wanted(e) /\ stream[e] = <<>>
       \/ io[e].out # <<>> /\ Len(stream[Peer(e)]) = Capacity

\* A round trip never stands still: if one end is blocked the other is not.
SomebodyMoves ==
    excess = None /\ core.pc # "idle" => ~(Blocked("core") /\ Blocked("process"))

\* As long as the reader of a frame that was written wants more, there is more.
LEMMA ReaderIsServed ==
    ASSUME TypeInv, ~Gone, NEW e \in Ends, NEW F, Sent(Peer(e), F), Len(io[e].got) < Wanted(e)
    PROVE  stream[e] # <<>>
<1>1. /\ Peer(e) \in Ends /\ Peer(Peer(e)) = e
      /\ Len(io[e].got) \in Nat /\ io[e].need \in Nat
  BY PartsType DEF Peer, Ends
<1>2. PICK f \in F, s \in Sizes, t \in Nat : Pipe(Peer(e), f, s, t)
  BY DEF Sent, Line
<1>3. /\ s \in Nat /\ s # 0 /\ io[e].need \in {0, s}
      /\ Taken(e) + Len(stream[e]) + Len(io[Peer(e)].out) = 2 + s
  BY <1>1, <1>2, TransportAssumption DEF Pipe
<1>4. Len(io[Peer(e)].out) = 0
  BY DEF Sent
<1>5. SUFFICES ASSUME stream[e] = <<>> PROVE FALSE
  OBVIOUS
<1>6. Len(stream[e]) = 0
  BY <1>5
<1>7. CASE io[e].need = 0
  <2>1. Len(io[e].got) < 2
    BY <1>7 DEF Wanted
  <2>2. Taken(e) = Len(io[e].got)
    BY <1>1, <1>7 DEF Taken, Skip
  <2>. QED
    BY <1>1, <1>3, <1>4, <1>6, <2>1, <2>2
<1>8. CASE io[e].need # 0
  <2>1. Len(io[e].got) < s
    BY <1>3, <1>8 DEF Wanted
  <2>2. Taken(e) = 2 + Len(io[e].got)
    BY <1>8 DEF Taken, Skip
  <2>. QED
    BY <1>1, <1>3, <1>4, <1>6, <2>1, <2>2
<1>. QED
  BY <1>7, <1>8

\* The state behind CallsReturn: until a frame is over the limit, the two ends are
\* never both blocked while a call is open (runtime.rs 76-158, GluAdapter.java
\* 96-219), whatever the sizes of frames and buffers.  Either may wait for the other.
THEOREM CallsCannotStandStill == Spec => []SomebodyMoves
<1>1. TypeInv /\ Silence /\ TurnInv => SomebodyMoves
  <2>. SUFFICES ASSUME TypeInv, Silence, Turn, core.pc # "idle",
                       Blocked("core"), Blocked("process")
                PROVE  FALSE
    BY DEF SomebodyMoves, TurnInv
  <2>. USE DEF Ends
  <2>1. /\ ~Gone /\ Capacity # 0 /\ Len(<<>>) = 0
        /\ Peer("core") = "process" /\ Peer("process") = "core"
    BY TransportAssumption DEF Blocked, Peer
  <2>2. CASE io["core"].out # <<>>
    <3>1. ~Reading("core") /\ stream["process"] # <<>>
      BY <2>1, <2>2, ReadersAreSilent DEF Blocked
    <3>2. io["process"].out # <<>>
      BY <3>1 DEF Blocked
    <3>. QED
      BY <2>1, <2>2, <3>2
         DEF Turn, Idling, Calling, Called, Executing, Responding, Responded, Requesting,
             Requested, Refusing, Nested, Answering, Answered, NoneFrom, Sent, Whole
  <2>3. CASE io["core"].out = <<>>
    <3>1. Reading("core") /\ Len(io["core"].got) < Wanted("core") /\ stream["core"] = <<>>
      BY <2>3 DEF Blocked
    <3>2. /\ Reading("process") /\ stream["process"] = <<>>
          /\ Len(io["process"].got) < Wanted("process")
      BY <2>1, <3>1 DEF Blocked
    <3>3. \A F : ~Sent("process", F) /\ ~Sent("core", F)
      BY <2>1, <3>1, <3>2, ReaderIsServed
    <3>4. core.pc = "read" /\ process.pc \in {"reading", "waiting"}
      BY <3>1, <3>2 DEF Reading
    <3>. QED
      BY <3>3, <3>4
         DEF Turn, Idling, Calling, Called, Executing, Responding, Responded, Requesting,
             Requested, Refusing, Nested, Answering, Answered, CoreAt, ProcessAt, ProcessIs
  <2>. QED
    BY <2>2, <2>3
<1>. QED
  BY <1>1, Typed, TurnHolds, PTL

(* -------------------- the frames that are complete ------------------------ *)

\* Among consecutive pieces of a frame there is the frame if its last piece is
\* there, and none if not.
LEMMA FramesOfParts ==
    ASSUME NEW q \in Seq(Piece), NEW f, NEW s \in Nat \ {0}, NEW n \in Nat,
           Part(q, f, s, n), n + Len(q) <= 2 + s, n < 2 + s
    PROVE  Frames(q) = IF n + Len(q) = 2 + s THEN <<f>> ELSE <<>>
<1>. DEFINE N == Len(q)
            among[k \in 0 .. N] ==
                IF k = 0 THEN <<>>
                ELSE IF q[k].n = 2 + q[k].size THEN Append(among[k - 1], q[k].frame)
                ELSE among[k - 1]
            some == [k \in 0 .. N |-> IF n + k = 2 + s THEN <<f>> ELSE <<>>]
<1>1. Frames(q) = among[N]
  BY DEF Frames
<1>2. N \in Nat /\ DOMAIN q = 1 .. N
  OBVIOUS
<1>3. ASSUME NEW k \in 0 .. N
      PROVE  some[k] = IF k = 0 THEN <<>>
                       ELSE IF q[k].n = 2 + q[k].size THEN Append(some[k - 1], q[k].frame)
                       ELSE some[k - 1]
  <2>1. CASE k = 0
    <3>1. n + 0 # 2 + s
      OBVIOUS
    <3>. QED
      BY <1>2, <2>1, <3>1
  <2>2. CASE k # 0
    <3>1. k \in DOMAIN q /\ k - 1 \in 0 .. N /\ n + (k - 1) # 2 + s
      BY <1>2, <2>2
    <3>2. q[k] = P(f, s, n + k)
      BY <3>1 DEF Part
    <3>3. some[k - 1] = <<>>
      BY <3>1
    <3>4. q[k].n = n + k /\ q[k].size = s /\ q[k].frame = f
      BY <3>2 DEF P
    <3>5. Append(<<>>, f) = <<f>>
      OBVIOUS
    <3>. QED
      BY <2>2, <3>3, <3>4, <3>5
  <2>. QED
    BY <2>1, <2>2
<1>4. some = [k \in 0 .. N |-> IF k = 0 THEN <<>>
                               ELSE IF q[k].n = 2 + q[k].size THEN Append(some[k - 1], q[k].frame)
                               ELSE some[k - 1]]
  BY <1>3
<1>5. among = [k \in 0 .. N |-> IF k = 0 THEN <<>>
                                ELSE IF q[k].n = 2 + q[k].size THEN Append(among[k - 1], q[k].frame)
                                ELSE among[k - 1]]
  <2>. HIDE DEF some
  <2>. QED
    BY <1>4
<1>6. some[N] = IF n + N = 2 + s THEN <<f>> ELSE <<>>
  BY <1>2
<1>. HIDE DEF among, some
<1>7. ASSUME NEW k \in 0 .. N
       PROVE  among[k] = IF k = 0 THEN <<>>
                         ELSE IF q[k].n = 2 + q[k].size THEN Append(among[k - 1], q[k].frame)
                         ELSE among[k - 1]
  <2>. DEFINE g(x) == IF x = 0 THEN <<>>
                      ELSE IF q[x].n = 2 + q[x].size THEN Append(among[x - 1], q[x].frame)
                      ELSE among[x - 1]
  <2>1. among = [x \in 0 .. N |-> g(x)]
    BY <1>5
  <2>. HIDE DEF g
  <2>2. among[k] = g(k)
    BY <2>1
  <2>. QED
    BY <2>2 DEF g
<1>. DEFINE S == {k \in Nat : k <= N => among[k] = some[k]}
<1>8. 0 \in S
  BY <1>2, <1>3, <1>7
<1>9. ASSUME NEW k \in Nat, k \in S
      PROVE  k + 1 \in S
  <2>1. SUFFICES ASSUME k + 1 <= N PROVE among[k + 1] = some[k + 1]
    OBVIOUS
  <2>2. k + 1 \in 0 .. N /\ k + 1 # 0 /\ k + 1 - 1 = k /\ k <= N
    BY <1>2, <2>1
  <2>3. among[k] = some[k]
    BY <1>9, <2>2
  <2>4. some[k + 1] = IF q[k + 1].n = 2 + q[k + 1].size THEN Append(some[k], q[k + 1].frame)
                      ELSE some[k]
    BY <1>3, <2>2
  <2>5. among[k + 1] = IF q[k + 1].n = 2 + q[k + 1].size THEN Append(among[k], q[k + 1].frame)
                       ELSE among[k]
    BY <1>7, <2>2
  <2>. QED
    BY <2>3, <2>4, <2>5
<1>10. N \in S
  <2>. HIDE DEF S
  <2>. QED
    BY <1>2, <1>8, <1>9, Induction
<1>. QED
  BY <1>1, <1>2, <1>6, <1>10

\* The frames of a direction that its reader can have.
Way(w) == Frames(io[Peer(w)].got \o stream[Peer(w)])

\* Two sequences of pieces that follow each other in a frame, after its first skip.
TwoParts(q, r, skip, f, s) ==
    /\ q \in Seq(Piece) /\ r \in Seq(Piece)
    /\ skip \in {0, 2} /\ s \in Sizes
    /\ Part(q, f, s, skip)
    /\ Part(r, f, s, skip + Len(q))
    /\ skip + Len(q) + Len(r) <= 2 + s

\* They hold the frame if they are all of it, and else none.
LEMMA FramesOfTwo ==
    ASSUME NEW q, NEW r, NEW skip, NEW f, NEW s, TwoParts(q, r, skip, f, s)
    PROVE  Frames(q \o r) = IF skip + Len(q) + Len(r) = 2 + s THEN <<f>> ELSE <<>>
<1>0. /\ q \in Seq(Piece) /\ r \in Seq(Piece)
      /\ skip \in {0, 2} /\ s \in Sizes
      /\ Part(q, f, s, skip)
      /\ Part(r, f, s, skip + Len(q))
      /\ skip + Len(q) + Len(r) <= 2 + s
  BY DEF TwoParts
<1>. USE <1>0
<1>1. /\ Len(q) \in Nat /\ Len(r) \in Nat /\ s \in Nat \ {0}
  BY TransportAssumption
<1>2. /\ q \o r \in Seq(Piece) /\ Len(q \o r) = Len(q) + Len(r)
      /\ \A k \in 1 .. Len(q) + Len(r) :
             (q \o r)[k] = IF k <= Len(q) THEN q[k] ELSE r[k - Len(q)]
  BY ConcatProperties
<1>3. Part(q \o r, f, s, skip)
  <2>1. ASSUME NEW k \in 1 .. Len(q) + Len(r)
        PROVE  (q \o r)[k] = P(f, s, skip + k)
    <3>1. CASE k <= Len(q)
      <4>1. k \in DOMAIN q
        BY <1>1, <3>1
      <4>. QED
        BY <1>2, <3>1, <4>1 DEF Part
    <3>2. CASE ~(k <= Len(q))
      <4>1. k - Len(q) \in DOMAIN r /\ skip + Len(q) + (k - Len(q)) = skip + k
        BY <1>1, <3>2
      <4>2. r[k - Len(q)] = P(f, s, skip + Len(q) + (k - Len(q)))
        BY <4>1 DEF Part
      <4>. QED
        BY <1>2, <3>2, <4>1, <4>2
    <3>. QED
      BY <3>1, <3>2
  <2>2. DOMAIN (q \o r) = 1 .. Len(q) + Len(r)
    BY <1>2
  <2>. QED
    BY <2>1, <2>2 DEF Part
<1>4. skip \in Nat /\ skip + Len(q \o r) <= 2 + s /\ skip < 2 + s
  BY <1>1, <1>2
<1>5. Frames(q \o r) = IF skip + Len(q \o r) = 2 + s THEN <<f>> ELSE <<>>
  <2>. DEFINE both == q \o r
  <2>1. both \in Seq(Piece) /\ Part(both, f, s, skip) /\ skip + Len(both) <= 2 + s
    BY <1>2, <1>3, <1>4
  <2>. HIDE DEF both
  <2>2. Frames(both) = IF skip + Len(both) = 2 + s THEN <<f>> ELSE <<>>
    BY <1>1, <1>4, <2>1, FramesOfParts
  <2>. QED
    BY <2>2 DEF both
<1>6. skip + Len(q \o r) = skip + Len(q) + Len(r)
  BY <1>1, <1>2
<1>. QED
  BY <1>5, <1>6

\* No pieces, no frames.
LEMMA FramesOfNone == Frames(<<>> \o <<>>) = <<>>
<1>1. <<>> \o <<>> = <<>> /\ <<>> \in Seq(Piece) /\ Len(<<>>) = 0
  OBVIOUS
<1>2. Part(<<>>, 0, 1, 0)
  BY DEF Part
<1>3. Frames(<<>>) = IF 0 + Len(<<>>) = 2 + 1 THEN <<0>> ELSE <<>>
  <2>. DEFINE q == <<>>
  <2>1. q \in Seq(Piece) /\ Part(q, 0, 1, 0) /\ 0 + Len(q) <= 2 + 1 /\ 0 < 2 + 1 /\ 0 \in Nat
        /\ 1 \in Nat \ {0}
    BY <1>1, <1>2
  <2>. HIDE DEF q
  <2>2. Frames(q) = IF 0 + Len(q) = 2 + 1 THEN <<0>> ELSE <<>>
    BY <2>1, FramesOfParts
  <2>. QED
    BY <2>2 DEF q
<1>. QED
  BY <1>1, <1>3

\* What the reader of a direction can have, before a step and after it.
LEMMA WayOfPipe ==
    ASSUME TypeInv, TypeInv', NEW w \in Ends, NEW f, NEW s \in Sizes, NEW t
    PROVE  /\ Pipe(w, f, s, t) =>
                  Way(w) = IF io[w].out = <<>> /\ t = 2 + s THEN <<f>> ELSE <<>>
           /\ Pipe(w, f, s, t)' =>
                  Way(w)' = IF io'[w].out = <<>> /\ t = 2 + s THEN <<f>> ELSE <<>>
<1>1. ASSUME NEW q \in Seq(Piece), NEW r \in Seq(Piece), NEW o \in Seq(Piece), NEW skip \in {0, 2},
             Part(q, f, s, skip), Part(r, f, s, skip + Len(q)),
             skip + Len(q) + Len(r) + Len(o) = t, t <= 2 + s
      PROVE  Frames(q \o r) = IF o = <<>> /\ t = 2 + s THEN <<f>> ELSE <<>>
  <2>1. /\ Len(q) \in Nat /\ Len(r) \in Nat /\ Len(o) \in Nat /\ s \in Nat
        /\ (o = <<>>) = (Len(o) = 0)
    BY TransportAssumption
  <2>2. skip + Len(q) + Len(r) <= 2 + s
    BY <1>1, <2>1
  <2>3. Frames(q \o r) = IF skip + Len(q) + Len(r) = 2 + s THEN <<f>> ELSE <<>>
    <3>1. TwoParts(q, r, skip, f, s)
      BY <1>1, <2>2 DEF TwoParts
    <3>. QED
      BY <3>1, FramesOfTwo
  <2>4. (skip + Len(q) + Len(r) = 2 + s) <=> (o = <<>> /\ t = 2 + s)
    <3>1. PICK k \in Nat, l \in Nat, n \in Nat : k = Len(q) /\ l = Len(r) /\ n = Len(o)
      BY <2>1
    <3>2. o = <<>> <=> n = 0
      BY <2>1, <3>1
    <3>3. s \in Nat /\ skip \in Nat /\ skip + k + l + n = t /\ t <= 2 + s
      BY <1>1, <2>1, <3>1
    <3>. HIDE <1>1, <2>1
    <3>4. (skip + k + l = 2 + s) <=> (n = 0 /\ t = 2 + s)
      BY <3>3
    <3>. QED
      BY <3>1, <3>2, <3>4
  <2>. QED
    BY <2>3, <2>4
<1>2. Pipe(w, f, s, t) => Way(w) = IF io[w].out = <<>> /\ t = 2 + s THEN <<f>> ELSE <<>>
  <2>1. SUFFICES ASSUME Pipe(w, f, s, t)
                 PROVE  Way(w) = IF io[w].out = <<>> /\ t = 2 + s THEN <<f>> ELSE <<>>
    OBVIOUS
  <2>2. PICK q \in Seq(Piece), r \in Seq(Piece), o \in Seq(Piece), skip \in {0, 2} :
            q = io[Peer(w)].got /\ r = stream[Peer(w)] /\ o = io[w].out /\ skip = Skip(Peer(w))
    BY PartsType
  <2>3. /\ Part(q, f, s, skip) /\ Part(r, f, s, skip + Len(q))
        /\ skip + Len(q) + Len(r) + Len(o) = t /\ t <= 2 + s
    BY <2>1, <2>2 DEF Pipe, Taken
  <2>4. Frames(q \o r) = IF o = <<>> /\ t = 2 + s THEN <<f>> ELSE <<>>
    BY <1>1, <2>3
  <2>. QED
    BY <2>2, <2>4 DEF Way
<1>3. Pipe(w, f, s, t)' => Way(w)' = IF io'[w].out = <<>> /\ t = 2 + s THEN <<f>> ELSE <<>>
  <2>1. SUFFICES ASSUME Pipe(w, f, s, t)'
                 PROVE  Way(w)' = IF io'[w].out = <<>> /\ t = 2 + s THEN <<f>> ELSE <<>>
    OBVIOUS
  <2>2. PICK q \in Seq(Piece), r \in Seq(Piece), o \in Seq(Piece), skip \in {0, 2} :
            q = io'[Peer(w)].got /\ r = stream'[Peer(w)] /\ o = io'[w].out /\ skip = Skip(Peer(w))'
    BY DEF TypeInv, WireType, Io, Skip, Peer, Ends
  <2>3. /\ Part(q, f, s, skip) /\ Part(r, f, s, skip + Len(q))
        /\ skip + Len(q) + Len(r) + Len(o) = t /\ t <= 2 + s
    BY <2>1, <2>2 DEF Pipe, Taken
  <2>4. Frames(q \o r) = IF o = <<>> /\ t = 2 + s THEN <<f>> ELSE <<>>
    BY <1>1, <2>3
  <2>. QED
    BY <2>2, <2>4 DEF Way
<1>. QED
  BY <1>2, <1>3

\* An end whose direction is empty, or that is still writing, has nothing to read;
\* when a whole frame was written, it is there.
LEMMA Ways ==
    ASSUME TypeInv, TypeInv', Silence, Silence', NEW w \in Ends
    PROVE  /\ NoneFrom(w) => Way(w) = <<>>
           /\ NoneFrom(w)' => Way(w)' = <<>>
           /\ \A F : Sending(w, F) => Way(w) = <<>>
           /\ \A F : Sending(w, F)' => Way(w)' = <<>>
           /\ \A F : Whole(w, F) => \E f \in F : Way(w) = <<f>>
           /\ \A F : Whole(w, F)' => \E f \in F : Way(w)' = <<f>>
           /\ \A f : Whole(w, {f}) => Way(w) = <<f>>
           /\ \A F : Sent(w, F) /\ ~Gone => Whole(w, F)
           /\ \A F : Sent(w, F)' /\ ~Gone' => Whole(w, F)'
<1>1. NoneFrom(w) => Way(w) = <<>>
  BY FramesOfNone DEF NoneFrom, Way
<1>2. NoneFrom(w)' => Way(w)' = <<>>
  BY FramesOfNone DEF NoneFrom, Way
<1>3. Gone /\ io[w].out # <<>> => w = "core" /\ Way(w) = <<>>
  <2>1. SUFFICES ASSUME Gone, io[w].out # <<>> PROVE w = "core" /\ Way(w) = <<>>
    OBVIOUS
  <2>2. io["process"].out = <<>> /\ io["process"].got = <<>> /\ stream["process"] = <<>>
    BY <2>1 DEF Silence, Silent
  <2>3. w = "core" /\ Peer(w) = "process"
    BY <2>1, <2>2 DEF Ends, Peer
  <2>. QED
    BY <2>2, <2>3, FramesOfNone DEF Way
<1>4. Gone' /\ io'[w].out # <<>> => w = "core" /\ Way(w)' = <<>>
  <2>1. SUFFICES ASSUME Gone', io'[w].out # <<>> PROVE w = "core" /\ Way(w)' = <<>>
    OBVIOUS
  <2>2. io'["process"].out = <<>> /\ io'["process"].got = <<>> /\ stream'["process"] = <<>>
    BY <2>1 DEF Silence, Silent
  <2>3. w = "core" /\ Peer(w) = "process"
    BY <2>1, <2>2 DEF Ends, Peer
  <2>. QED
    BY <2>2, <2>3, FramesOfNone DEF Way
<1>5. \A F : Sending(w, F) => Way(w) = <<>>
  BY <1>3, WayOfPipe DEF Sending, Line
<1>6. \A F : Sending(w, F)' => Way(w)' = <<>>
  BY <1>4, WayOfPipe DEF Sending, Line
<1>7. \A F : Whole(w, F) => \E f \in F : Way(w) = <<f>>
  BY WayOfPipe DEF Whole
<1>8. \A F : Whole(w, F)' => \E f \in F : Way(w)' = <<f>>
  BY WayOfPipe DEF Whole
<1>9. \A F : Sent(w, F) /\ ~Gone => Whole(w, F)
  BY DEF Sent, Line, Whole, Pipe
<1>10. \A F : Sent(w, F)' /\ ~Gone' => Whole(w, F)'
  BY DEF Sent, Line, Whole, Pipe
<1>. QED
  BY <1>1, <1>2, <1>5, <1>6, <1>7, <1>8, <1>9, <1>10

\* As long as no frame was over the limit, each direction is in one of three states.
LEMMA ThreeStates ==
    ASSUME TypeInv, Turn, NEW w \in Ends
    PROVE  NoneFrom(w) \/ \E F : Sending(w, F) \/ Sent(w, F)
BY WholeIsSent DEF Turn, Ends, Idling, Calling, Called, Executing, Responding, Responded,
                   Requesting, Requested, Refusing, Nested, Answering, Answered

\* A piece on its way makes no frame complete.
LEMMA PiecesKeepWays ==
    ASSUME TypeInv, TypeInv', Silence, Silence', Turn, NEW e \in Ends,
           WritePiece(e) \/ ReadPiece(e) \/ ReadLength(e), NEW w \in Ends
    PROVE  Way(w)' = Way(w)
<1>1. Kept(w)
  BY PieceSteps
<1>2. CASE NoneFrom(w) \/ \E F : Sending(w, F)
  BY <1>1, <1>2, Ways DEF Kept
<1>3. CASE \E F : Sent(w, F)
  <2>1. PICK F : Sent(w, F)
    BY <1>3
  <2>2. PICK f \in F, s \in Sizes, t \in Nat : Pipe(w, f, s, t)
    BY <2>1 DEF Sent, Line
  <2>3. Pipe(w, f, s, t)' /\ io[w].out = <<>> /\ io'[w].out = <<>>
    BY <1>1, <2>1, <2>2 DEF Kept, Sent
  <2>. QED
    BY <2>2, <2>3, WayOfPipe
<1>. QED
  BY <1>2, <1>3, ThreeStates

(* --------------------- the bytes implement the session -------------------- *)

\* The queues that IpcSession has, and a round trip of it.
ToProcess == Frames(io["process"].got \o stream["process"])
ToCore == Frames(io["core"].got \o stream["core"])
Open(pc, b) == [id |-> core.id, pc |-> pc, callback |-> b]

\* What IpcSession sees of a state.
LEMMA Mapped ==
    ASSUME TypeInv
    PROVE  /\ Session!Gone = Gone
           /\ process.pc \notin {"request", "respond"} => ProcessState = process
           /\ core.pc \in {"idle", "call"} => Roundtrips = <<>>
           /\ core.pc \in {"read", "refuse"} => Roundtrips = <<Open("read", 0)>>
           /\ core.pc \in {"nested", "answer"} => Roundtrips = <<Open("nested", core.callback)>>
<1>1. Session!Gone = Gone
  BY DEF Session!Gone, Gone, ProcessState, TypeInv, PlaceType
<1>. QED
  BY <1>1 DEF Roundtrips, ProcessState, TypeInv, PlaceType, Open

\* The stack of round trips holds at most one.
LEMMA OneRoundtrip ==
    ASSUME NEW r, Roundtrips = <<r>>
    PROVE  /\ Session!Current = r
           /\ Session!Front(Roundtrips) = <<>>
           /\ Roundtrips # <<>>
<1>1. Len(<<r>>) = 1 /\ <<r>>[1] = r /\ <<r>> # <<>>
  OBVIOUS
<1>2. SubSeq(<<r>>, 1, 0) = <<>>
  BY EmptySeq, SubSeqProperties
<1>. QED
  BY <1>1, <1>2 DEF Session!Current, Session!Last, Session!Front

\* What a step leaves as it is for IpcSession.
LEMMA Stutters ==
    ASSUME ToProcess' = ToProcess, ToCore' = ToCore,
           Roundtrips' = Roundtrips, ProcessState' = ProcessState,
           UNCHANGED <<issued, history>>
    PROVE  UNCHANGED Session!vars
BY DEF ToProcess, ToCore, Session!vars, Session!history, history

\* What the phases say of the queues.
LEMMA Queues ==
    ASSUME TypeInv, TypeInv', Silence, Silence'
    PROVE  /\ NoneFrom("core") => ToProcess = <<>>
           /\ NoneFrom("core")' => ToProcess' = <<>>
           /\ NoneFrom("process") => ToCore = <<>>
           /\ NoneFrom("process")' => ToCore' = <<>>
           /\ \A F : Sending("core", F) => ToProcess = <<>>
           /\ \A F : Sending("core", F)' => ToProcess' = <<>>
           /\ \A F : Sending("process", F) => ToCore = <<>>
           /\ \A F : Sending("process", F)' => ToCore' = <<>>
           /\ \A F : Sent("core", F) /\ ~Gone => \E f \in F : ToProcess = <<f>>
           /\ \A F : Sent("core", F)' /\ ~Gone' => \E f \in F : ToProcess' = <<f>>
           /\ \A F : Sent("process", F) /\ ~Gone => \E f \in F : ToCore = <<f>>
           /\ \A F : Sent("process", F)' /\ ~Gone' => \E f \in F : ToCore' = <<f>>
           /\ \A F : Whole("process", F) => \E f \in F : ToCore = <<f>>
           /\ \A F : Whole("process", F)' => \E f \in F : ToCore' = <<f>>
           /\ \A F : Whole("core", F) => \E f \in F : ToProcess = <<f>>
<1>1. /\ "core" \in Ends /\ "process" \in Ends
      /\ Way("core") = ToProcess /\ Way("process") = ToCore
      /\ Way("core")' = ToProcess' /\ Way("process")' = ToCore'
  BY DEF Ends, Way, Peer, ToProcess, ToCore
<1>. HIDE DEF ToProcess, ToCore
<1>2. \A F : Sent("core", F) /\ ~Gone => \E f \in F : ToProcess = <<f>>
  BY <1>1, Ways
<1>3. \A F : Sent("core", F)' /\ ~Gone' => \E f \in F : ToProcess' = <<f>>
  BY <1>1, Ways
<1>4. \A F : Sent("process", F) /\ ~Gone => \E f \in F : ToCore = <<f>>
  BY <1>1, Ways
<1>5. \A F : Sent("process", F)' /\ ~Gone' => \E f \in F : ToCore' = <<f>>
  BY <1>1, Ways
<1>. QED
  BY <1>1, <1>2, <1>3, <1>4, <1>5, Ways

\* The end of a frame that the core writes, or its failure, is the step in which
\* IpcSession sends it.
LEMMA CoreWriteImplements ==
    ASSUME TypeInv, TypeInv', Silence, Silence', Turn, CoreWritten \/ CoreWriteFails
    PROVE  Session!Next
<1>0. /\ "core" \in Ends /\ "process" \in Ends
      /\ Peer("core") = "process" /\ Peer("process") = "core"
      /\ io \in [Ends -> Io] /\ stream \in [Ends -> Seq(Piece)]
      /\ core = [pc |-> core.pc, id |-> core.id, callback |-> core.callback]
      /\ core.pc \in {"call", "refuse", "answer"}
      /\ Append(<<>>, 0) = <<0>> /\ \A f : Append(<<>>, f) = <<f>> /\ <<f>> # <<>>
             /\ Head(<<f>>) = f /\ Tail(<<f>>) = <<>>
  <2>1. io["core"].out # <<>>
    <3>1. CoreWritten => Len(io["core"].out) = 1
      BY DEF CoreWritten, WritesLast
    <3>. QED
      BY <3>1 DEF CoreWriteFails
  <2>2. core.pc \in {"call", "refuse", "answer"}
    BY <2>1 DEF TypeInv, CoreWrites
  <2>3. Append(<<>>, 0) = <<0>> /\ \A f : Append(<<>>, f) = <<f>> /\ <<f>> # <<>>
             /\ Head(<<f>>) = f /\ Tail(<<f>>) = <<>>
    OBVIOUS
  <2>. QED
    BY <2>2, <2>3, PartsType DEF Ends, Peer, TypeInv, PlaceType
<1>1. /\ Session!Gone = Gone /\ process' = process /\ ProcessState' = ProcessState
      /\ UNCHANGED <<answered, started, result>>
  BY Mapped DEF CoreWritten, CoreWriteFails, ProcessState
<1>2. /\ core.pc = "call" => Roundtrips = <<>>
      /\ core.pc = "refuse" => Roundtrips = <<Open("read", 0)>> /\ Session!Current = Open("read", 0)
      /\ core.pc = "answer" => /\ Roundtrips = <<Open("nested", core.callback)>>
                               /\ Session!Current = Open("nested", core.callback)
                               /\ Session!Front(Roundtrips) = <<>>
                               /\ Roundtrips # <<>>
      /\ core.pc = "refuse" => Roundtrips # <<>>
  BY Mapped, OneRoundtrip
<1>3. CASE CoreWritten
  <2>1. /\ ~Gone /\ ~Gone' /\ WritesLast("core")
        /\ core' = [core EXCEPT !.pc = "read"]
        /\ core.pc = "call" => issued' = core.id /\ requested' = requested \cup {core.id}
        /\ core.pc # "call" => UNCHANGED <<issued, requested>>
        /\ UNCHANGED outcome
    BY <1>3 DEF CoreWritten, Gone
  <2>2. /\ \A F : Sending("core", F) => Sent("core", F)'
        /\ io["process"].out = <<>> /\ stream["core"] = <<>> => NoneFrom("process")'
    BY <1>0, <2>1, LastPiece
  <2>3. Roundtrips' = <<Open("read", 0)>> /\ Open("read", 0) = [id |-> core.id, pc |-> "read", callback |-> 0]
    BY <1>0, <2>1 DEF Roundtrips, Open
  <2>4. CASE core.pc = "call"
    <3>1. PICK c \in Ids : Calling(c)
      BY <2>4, Phases
    <3>2. /\ c = issued + 1 /\ core.id = c /\ issued < MaxExchanges
          /\ Sending("core", Call(c)) /\ NoneFrom("process")
      BY <3>1, TransportAssumption DEF Calling, CoreAt, Ids, TypeInv, PlaceType
    <3>3. Sent("core", Call(c))' /\ NoneFrom("process")'
      BY <2>2, <3>2 DEF NoneFrom, Peer
    <3>4. ToProcess = <<>> /\ ToCore = <<>> /\ ToCore' = <<>>
      BY <3>2, <3>3, Queues
    <3>5. \E f \in Call(c) : ToProcess' = <<f>>
      BY <2>1, <3>3, Queues
    <3>6. ToProcess' = <<[kind |-> "CALL", id |-> c]>>
      BY <3>5 DEF Call
    <3>7. Session!BeginCall
      BY <1>0, <1>1, <1>2, <2>1, <2>3, <2>4, <3>2, <3>4, <3>6
         DEF Session!BeginCall, Session!SendToProcess, ToProcess, ToCore
    <3>. QED
      BY <3>7 DEF Session!Next
  <2>5. CASE core.pc = "answer"
    <3>1. PICK c \in Ids, b \in Ids : Answering(c, b)
      BY <2>5, Phases
    <3>2. /\ core.id = c /\ core.callback = b
          /\ Sending("core", Answers(b, Session!Statuses)) /\ NoneFrom("process")
      BY <3>1 DEF Answering, CoreAt
    <3>3. Sent("core", Answers(b, Session!Statuses))' /\ NoneFrom("process")'
      BY <2>2, <3>2 DEF NoneFrom, Peer
    <3>4. ToProcess = <<>> /\ ToCore = <<>> /\ ToCore' = <<>>
      BY <3>2, <3>3, Queues
    <3>5. PICK f \in Answers(b, Session!Statuses) : ToProcess' = <<f>>
      BY <2>1, <3>3, Queues
    <3>6. f = [kind |-> "CALLBACK_RESULT", id |-> b, status |-> f.status] /\ f.status \in Session!Statuses
      BY DEF Answers
    <3>7. PICK st \in Session!Statuses : st = f.status
      BY <3>6
    <3>8. Session!AnswerCallback(st)
      <4>1. Session!SendToProcess([kind |-> "CALLBACK_RESULT", id |-> b, status |-> st])
        BY <1>0, <1>1, <2>1, <3>4, <3>5, <3>6, <3>7 DEF Session!SendToProcess, ToProcess
      <4>2. Session!Current.callback = b /\ Session!Current.pc = "nested" /\ Session!Current.id = core.id
        BY <1>2, <2>5, <3>2 DEF Open
      <4>3. Roundtrips' = Append(Session!Front(Roundtrips), Session!OpenRoundtrip("read", 0))
        BY <1>0, <1>2, <2>3, <2>5, <4>2 DEF Session!OpenRoundtrip
      <4>. QED
        BY <1>1, <1>2, <2>1, <2>5, <3>4, <4>1, <4>2, <4>3
           DEF Session!AnswerCallback, Session!history, ToCore
    <3>. QED
      BY <3>8 DEF Session!Next
  <2>6. CASE core.pc = "refuse"
    <3>1. PICK c \in Ids, b \in Ids : Refusing(c, b)
      BY <2>6, Phases
    <3>2. /\ Sending("core", Answers(b, {"Runtime"})) /\ stream["core"] = <<>>
          /\ Whole("process", Requests(b, Session!Targets \ {"other"}))
      BY <3>1 DEF Refusing
    <3>3. Sent("core", Answers(b, {"Runtime"}))' /\ NoneFrom("process")'
      BY <2>2, <3>2 DEF Whole
    <3>4. ToProcess = <<>> /\ ToCore' = <<>>
      BY <3>2, <3>3, Queues
    <3>5. PICK f \in Answers(b, {"Runtime"}) : ToProcess' = <<f>>
      BY <2>1, <3>3, Queues
    <3>6. PICK g \in Requests(b, Session!Targets \ {"other"}) : ToCore = <<g>>
      BY <3>2, Queues
    <3>7. /\ f = [kind |-> "CALLBACK_RESULT", id |-> g.id, status |-> "Runtime"]
          /\ g.kind = "CALLBACK_CALL" /\ g.target # "other"
      BY DEF Answers, Requests
    <3>8. Session!RefuseCallback
      <4>1. Session!Reads("CALLBACK_CALL")
        BY <1>0, <1>2, <2>6, <3>4, <3>6, <3>7 DEF Session!Reads, Open, ToCore
      <4>2. Session!SendToProcess([kind |-> "CALLBACK_RESULT", id |-> g.id, status |-> "Runtime"])
        BY <1>0, <1>1, <2>1, <3>4, <3>5, <3>7 DEF Session!SendToProcess, ToProcess
      <4>3. Head(ToCore) = g
        BY <1>0, <3>6
      <4>. QED
        BY <1>1, <1>2, <2>1, <2>3, <2>6, <3>7, <4>1, <4>2, <4>3
           DEF Session!RefuseCallback, Session!history, ToCore
    <3>. QED
      BY <3>8 DEF Session!Next, Session!CoreReads
  <2>. QED
    BY <1>0, <2>4, <2>5, <2>6
<1>4. CASE CoreWriteFails
  <2>1. /\ Gone /\ io' = [io EXCEPT !["core"] = Silent] /\ stream' = stream
        /\ core.pc = "refuse" => core' = [core EXCEPT !.pc = "read"] /\ UNCHANGED outcome
        /\ core.pc # "refuse" => core' = Idle /\ outcome' = [outcome EXCEPT ![core.id] = "Runtime"]
        /\ core.pc = "call" => issued' = core.id /\ requested' = requested \cup {core.id}
        /\ core.pc # "call" => UNCHANGED <<issued, requested>>
    BY <1>4 DEF CoreWriteFails, ReturnCall
  <2>2. ToProcess' = ToProcess
    BY <1>0, <2>1 DEF ToProcess
  <2>3. io'["core"].got = <<>>
    BY <1>0, <2>1 DEF Silent
  <2>4. stream["core"] = <<>> => ToCore' = <<>>
    BY <2>1, <2>3, FramesOfNone DEF ToCore
  <2>5. CASE core.pc = "call"
    <3>1. PICK c \in Ids : Calling(c)
      BY <2>5, Phases
    <3>2. /\ c = issued + 1 /\ core.id = c /\ issued < MaxExchanges
          /\ NoneFrom("process") /\ stream["core"] = <<>>
      BY <1>0, <3>1, TransportAssumption DEF Calling, CoreAt, Ids, TypeInv, PlaceType, NoneFrom
    <3>3. ToCore = <<>> /\ ToCore' = <<>>
      BY <2>4, <3>2, Queues
    <3>4. Roundtrips' = <<>>
      BY <2>1, <2>5 DEF Roundtrips, Idle
    <3>5. Session!BeginCall
      BY <1>1, <1>2, <2>1, <2>2, <2>5, <3>2, <3>3, <3>4
         DEF Session!BeginCall, Session!SendToProcess, ToProcess, ToCore
    <3>. QED
      BY <3>5 DEF Session!Next
  <2>6. CASE core.pc = "answer"
    <3>1. PICK c \in Ids, b \in Ids : Answering(c, b)
      BY <2>6, Phases
    <3>2. NoneFrom("process") /\ stream["core"] = <<>>
      BY <1>0, <3>1 DEF Answering, NoneFrom
    <3>3. ToCore = <<>> /\ ToCore' = <<>>
      BY <2>4, <3>2, Queues
    <3>4. Roundtrips' = <<>>
      BY <2>1, <2>6 DEF Roundtrips, Idle
    <3>5. Session!Current.pc = "nested" /\ Session!Current.id = core.id
      BY <1>2, <2>6 DEF Open
    <3>6. Session!AnswerCallback("Runtime")
      BY <1>1, <1>2, <2>1, <2>2, <2>6, <3>3, <3>4, <3>5
         DEF Session!AnswerCallback, Session!ReturnCall, Session!SendToProcess, ToProcess, ToCore
    <3>. QED
      BY <3>6 DEF Session!Next, Session!Statuses
  <2>7. CASE core.pc = "refuse"
    <3>1. PICK c \in Ids, b \in Ids : Refusing(c, b)
      BY <2>7, Phases
    <3>2. /\ stream["core"] = <<>>
          /\ Whole("process", Requests(b, Session!Targets \ {"other"}))
      BY <3>1 DEF Refusing
    <3>3. PICK g \in Requests(b, Session!Targets \ {"other"}) : ToCore = <<g>>
      BY <3>2, Queues
    <3>4. g.kind = "CALLBACK_CALL" /\ g.target # "other" /\ Head(ToCore) = g /\ ToCore' = <<>>
      BY <1>0, <2>4, <3>2, <3>3 DEF Requests
    <3>5. Roundtrips' = Roundtrips
      BY <2>1, <2>7 DEF Roundtrips, TypeInv, PlaceType
    <3>6. Session!RefuseCallback
      <4>1. Session!Reads("CALLBACK_CALL")
        BY <1>0, <1>2, <2>7, <3>3, <3>4 DEF Session!Reads, Open, ToCore
      <4>. QED
        BY <1>1, <2>1, <2>2, <2>7, <3>4, <3>5, <4>1
           DEF Session!RefuseCallback, Session!SendToProcess, Session!history, ToCore, ToProcess
    <3>. QED
      BY <3>6 DEF Session!Next, Session!CoreReads
  <2>. QED
    BY <1>0, <2>5, <2>6, <2>7
<1>. QED
  BY <1>3, <1>4

\* A step that sends no frame and takes none changes nothing that IpcSession sees.
LEMMA PiecesStutter ==
    ASSUME TypeInv, TypeInv', Silence, Silence', Turn, NEW e \in Ends,
           WritePiece(e) \/ ReadPiece(e) \/ ReadLength(e)
    PROVE  UNCHANGED Session!vars
<1>1. Way("core")' = Way("core") /\ Way("process")' = Way("process")
  BY PiecesKeepWays DEF Ends
<1>2. ToProcess' = ToProcess /\ ToCore' = ToCore
  BY <1>1 DEF Way, Peer, ToProcess, ToCore
<1>3. UNCHANGED <<core, process, issued, history>>
  BY DEF WritePiece, ReadPiece, ReadLength, ReadsLength
<1>4. Roundtrips' = Roundtrips /\ ProcessState' = ProcessState
  BY <1>3 DEF Roundtrips, ProcessState
<1>. QED
  BY <1>2, <1>3, <1>4, Stutters

\* A frame that is begun is not yet sent, and a callback that is refused or
\* answered is so when the frame is written.
LEMMA BeginningsStutter ==
    ASSUME TypeInv, Silence, Turn,
           \/ BeginCall
           \/ \E f : RefuseCallback(f)
           \/ \E s \in Session!Statuses : AnswerCallback(s) \/ SendResult(s)
           \/ \E t \in Session!Targets : SendCallback(t)
    PROVE  UNCHANGED Session!vars
<1>0. /\ "core" \in Ends /\ "process" \in Ends /\ io \in [Ends -> Io]
      /\ core = [pc |-> core.pc, id |-> core.id, callback |-> core.callback]
      /\ process = [pc |-> process.pc, id |-> process.id, callback |-> process.callback]
  BY DEF Ends, TypeInv, WireType, PlaceType
<1>1. ASSUME NEW e \in Ends, NEW f, Writes(e, f), UNCHANGED stream
      PROVE  ToProcess' = ToProcess /\ ToCore' = ToCore
  <2>1. io'["core"].got = io["core"].got /\ io'["process"].got = io["process"].got
    BY <1>0, <1>1 DEF Writes, Io
  <2>. QED
    BY <1>1, <2>1 DEF ToProcess, ToCore
<1>2. CASE BeginCall
  <2>1. Writes("core", [kind |-> "CALL", id |-> issued + 1]) /\ UNCHANGED stream
    BY <1>2 DEF BeginCall
  <2>2. ToProcess' = ToProcess /\ ToCore' = ToCore
    BY <1>0, <1>1, <2>1
  <2>3. Roundtrips' = Roundtrips /\ ProcessState' = ProcessState
    BY <1>2 DEF BeginCall, Roundtrips, ProcessState
  <2>4. UNCHANGED <<issued, history>>
    BY <1>2 DEF BeginCall
  <2>. QED
    BY <2>2, <2>3, <2>4, Stutters
<1>3. ASSUME NEW f, RefuseCallback(f)
      PROVE  UNCHANGED Session!vars
  <2>1. /\ Writes("core", [kind |-> "CALLBACK_RESULT", id |-> f.id, status |-> "Runtime"])
        /\ UNCHANGED <<stream, process, issued, history>>
        /\ core' = [core EXCEPT !.pc = "refuse"] /\ core.pc = "read"
    BY <1>3 DEF RefuseCallback, Receives, Decoded, Reading
  <2>2. ToProcess' = ToProcess /\ ToCore' = ToCore
    BY <1>0, <1>1, <2>1
  <2>3. Roundtrips' = Roundtrips /\ ProcessState' = ProcessState
    BY <1>0, <2>1 DEF Roundtrips, ProcessState
  <2>. QED
    BY <2>1, <2>2, <2>3, Stutters
<1>4. ASSUME NEW s \in Session!Statuses, AnswerCallback(s)
      PROVE  UNCHANGED Session!vars
  <2>1. /\ Writes("core", [kind |-> "CALLBACK_RESULT", id |-> core.callback, status |-> s])
        /\ UNCHANGED <<stream, process, issued, history>>
        /\ core' = [core EXCEPT !.pc = "answer"] /\ core.pc = "nested"
    BY <1>4 DEF AnswerCallback
  <2>2. ToProcess' = ToProcess /\ ToCore' = ToCore
    BY <1>0, <1>1, <2>1
  <2>3. Roundtrips' = Roundtrips /\ ProcessState' = ProcessState
    BY <1>0, <2>1 DEF Roundtrips, ProcessState
  <2>. QED
    BY <2>1, <2>2, <2>3, Stutters
<1>5. ASSUME process.pc = "executing", process'.pc \in {"request", "respond"},
             \E pc, b : process' = [process EXCEPT !.pc = pc, !.callback = b],
             UNCHANGED core
      PROVE  Roundtrips' = Roundtrips /\ ProcessState' = ProcessState
  <2>1. process.callback = 0
    BY <1>5, Phases DEF Executing, ProcessAt, ProcessIs
  <2>2. ProcessState = process
    BY <1>5 DEF ProcessState
  <2>3. PICK pc, b : process' = [process EXCEPT !.pc = pc, !.callback = b]
    BY <1>5
  <2>4. process' = [pc |-> process'.pc, id |-> process.id, callback |-> process'.callback]
    BY <1>0, <2>3
  <2>5. ProcessState' = [pc |-> "executing", id |-> process.id, callback |-> 0]
    BY <1>5, <2>4 DEF ProcessState
  <2>. QED
    BY <1>0, <1>5, <2>1, <2>2, <2>5 DEF Roundtrips
<1>6. ASSUME NEW s \in Session!Statuses, SendResult(s)
      PROVE  UNCHANGED Session!vars
  <2>1. /\ Writes("process", [kind |-> "RESULT", id |-> process.id, status |-> s])
        /\ UNCHANGED <<stream, core, issued, history>>
        /\ process' = [process EXCEPT !.pc = "respond"] /\ process.pc = "executing"
    BY <1>6 DEF SendResult
  <2>2. process' = [process EXCEPT !.pc = "respond", !.callback = process.callback]
    BY <1>0, <2>1
  <2>3. process'.pc = "respond"
    BY <1>0, <2>1
  <2>4. ToProcess' = ToProcess /\ ToCore' = ToCore
    BY <1>0, <1>1, <2>1
  <2>5. Roundtrips' = Roundtrips /\ ProcessState' = ProcessState
    BY <1>5, <2>1, <2>2, <2>3
  <2>. QED
    BY <2>1, <2>4, <2>5, Stutters
<1>7. ASSUME NEW t \in Session!Targets, SendCallback(t)
      PROVE  UNCHANGED Session!vars
  <2>1. /\ Writes("process", [kind |-> "CALLBACK_CALL", id |-> issued + 1, target |-> t])
        /\ UNCHANGED <<stream, core, issued, history>>
        /\ process' = [process EXCEPT !.pc = "request", !.callback = issued + 1]
        /\ process.pc = "executing"
    BY <1>7 DEF SendCallback
  <2>2. process'.pc = "request"
    BY <1>0, <2>1
  <2>3. ToProcess' = ToProcess /\ ToCore' = ToCore
    BY <1>0, <1>1, <2>1
  <2>4. Roundtrips' = Roundtrips /\ ProcessState' = ProcessState
    BY <1>5, <2>1, <2>2
  <2>. QED
    BY <2>1, <2>3, <2>4, Stutters
<1>. QED
  BY <1>2, <1>3, <1>4, <1>6, <1>7

\* A frame that the core has read is the step of IpcSession that reads it, and the
\* end of the stream, within a frame or between two, its end of the stream.
LEMMA CoreReadImplements ==
    ASSUME TypeInv, TypeInv', Silence, Silence', Turn, excess' = None,
           (\E f : ReadResult(f) \/ DispatchCallback(f)) \/ CoreReadFails
    PROVE  Session!Next
<1>0. /\ "core" \in Ends /\ "process" \in Ends
      /\ Peer("core") = "process" /\ Peer("process") = "core"
      /\ io \in [Ends -> Io] /\ stream \in [Ends -> Seq(Piece)]
      /\ core = [pc |-> core.pc, id |-> core.id, callback |-> core.callback]
      /\ \A f : <<f>> # <<>> /\ Head(<<f>>) = f /\ Tail(<<f>>) = <<>>
      /\ \A f : Append(<<>>, f) = <<f>>
  BY PartsType DEF Ends, Peer, TypeInv, PlaceType
<1>1. /\ core.pc = "read" /\ process' = process /\ ProcessState' = ProcessState
      /\ io'["process"] = io["process"] /\ stream' = stream
      /\ UNCHANGED <<issued, answered, requested, started, result>>
  BY <1>0 DEF ReadResult, DispatchCallback, CoreReadFails, GivesUp, HasLength, Receives, Decoded,
              Received, Reading, ProcessState, history
<1>2. ToProcess' = ToProcess
  BY <1>1 DEF ToProcess
<1>3. /\ Roundtrips = <<Open("read", 0)>> /\ Roundtrips # <<>>
      /\ Session!Current = Open("read", 0) /\ Session!Front(Roundtrips) = <<>>
      /\ Open("read", 0).pc = "read" /\ Open("read", 0).id = core.id
  BY <1>1, Mapped, OneRoundtrip DEF Open
<1>4. ASSUME NEW s, ReturnCall(s)
      PROVE  Session!ReturnCall(s)
  BY <1>1, <1>3, <1>4 DEF ReturnCall, Session!ReturnCall, Roundtrips, Idle
<1>5. ASSUME NEW f, f \in Decoded("core"), Received("core")
      PROVE  ToCore = <<f>> /\ ToCore' = <<>>
  <2>1. Whole("process", {f}) /\ stream["core"] = <<>> /\ io["process"].out = <<>>
    BY <1>5, CoreReads
  <2>2. NoneFrom("process")'
    BY <1>0, <1>1, <1>5, <2>1, FrameTaken
  <2>. QED
    BY <2>1, <2>2, Queues
<1>6. ASSUME NEW f, ReadResult(f)
      PROVE  Session!ReadResult
  <2>1. /\ f \in Decoded("core") /\ Received("core") /\ f.kind \in {"RESULT", "none"}
        /\ ReturnCall(IF f.kind = "RESULT" THEN f.status ELSE "Runtime")
    BY <1>6 DEF ReadResult, Receives
  <2>2. f.kind = "RESULT" /\ ToCore = <<f>> /\ ToCore' = <<>>
    BY <1>5, <2>1, CoreReads
  <2>3. Session!ReturnCall(f.status)
    BY <1>4, <2>1, <2>2
  <2>4. Session!Reads("RESULT") /\ Head(ToCore) = f
    BY <1>0, <1>3, <2>2 DEF Session!Reads, ToCore
  <2>. QED
    BY <1>1, <1>2, <2>3, <2>4 DEF Session!ReadResult, ToCore, ToProcess
<1>7. ASSUME NEW f, DispatchCallback(f)
      PROVE  Session!DispatchCallback
  <2>1. /\ f \in Decoded("core") /\ Received("core") /\ f.kind = "CALLBACK_CALL"
        /\ f.target = "other" /\ core' = [core EXCEPT !.pc = "nested", !.callback = f.id]
        /\ UNCHANGED outcome
    BY <1>7 DEF DispatchCallback, Receives, history
  <2>2. ToCore = <<f>> /\ ToCore' = <<>>
    BY <1>5, <2>1
  <2>3. Session!Reads("CALLBACK_CALL") /\ Head(ToCore) = f
    BY <1>0, <1>3, <2>1, <2>2 DEF Session!Reads, ToCore
  <2>4. Roundtrips' = <<[id |-> core.id, pc |-> "nested", callback |-> f.id]>>
    BY <1>0, <2>1 DEF Roundtrips
  <2>5. Roundtrips' = Append(Session!Front(Roundtrips), Session!OpenRoundtrip("nested", f.id))
    BY <1>0, <1>3, <2>4 DEF Session!OpenRoundtrip
  <2>. QED
    BY <1>1, <1>2, <2>1, <2>3, <2>5
       DEF Session!DispatchCallback, Session!history, ToCore, ToProcess
<1>8. CASE CoreReadFails
  <2>1. /\ Gone /\ stream["core"] = <<>> /\ Len(io["core"].got) < Wanted("core")
        /\ io' = [io EXCEPT !["core"] = Silent] /\ ReturnCall("Runtime")
    BY <1>0, <1>8, NothingTooLarge DEF CoreReadFails
  <2>2. io'["core"].got = <<>> /\ stream'["core"] = <<>>
    BY <1>0, <1>1, <2>1 DEF Silent
  <2>3. ToCore' = <<>>
    BY <2>2, FramesOfNone DEF ToCore
  <2>4. ASSUME NEW f, NEW s \in Sizes, NEW t \in Nat, Pipe("process", f, s, t), io["process"].out = <<>>
        PROVE  ToCore = <<>>
    <3>1. /\ s \in Nat \ {0} /\ Len(io["core"].got) \in Nat
          /\ io["core"].need \in {0, s}
          /\ Taken("core") + Len(stream["core"]) + Len(io["process"].out) = t
      BY <1>0, <2>4, PartsType DEF Pipe
    <3>2. Len(stream["core"]) = 0 /\ Len(io["process"].out) = 0
      BY <2>1, <2>4
    <3>3. t = Skip("core") + Len(io["core"].got)
      <4>1. Skip("core") \in Nat
        BY DEF Skip
      <4>. QED
        BY <3>1, <3>2, <4>1 DEF Taken
    <3>4. t # 2 + s
      <4>1. CASE io["core"].need = 0
        BY <2>1, <3>1, <3>3, <4>1 DEF Skip, Wanted
      <4>2. CASE io["core"].need # 0
        BY <2>1, <3>1, <3>3, <4>2 DEF Skip, Wanted
      <4>. QED
        BY <4>1, <4>2
    <3>. QED
      BY <1>0, <2>4, <3>4, WayOfPipe DEF Way, ToCore
  <2>5. ToCore = <<>>
    <3>1. CASE NoneFrom("process") \/ \E F : Sending("process", F)
      BY <3>1, Queues
    <3>2. CASE \E F : Sent("process", F)
      BY <2>4, <3>2 DEF Sent, Line
    <3>. QED
      BY <1>0, <3>1, <3>2, ThreeStates
  <2>6. Session!Gone
    BY <2>1, Mapped
  <2>7. Session!ReturnCall("Runtime")
    BY <1>4, <2>1
  <2>8. Session!ReadEnd
    BY <1>1, <1>2, <1>3, <2>3, <2>5, <2>6, <2>7 DEF Session!ReadEnd, ToCore, ToProcess
  <2>. QED
    BY <2>8 DEF Session!Next, Session!CoreReads
<1>. QED
  BY <1>6, <1>7, <1>8 DEF Session!Next, Session!CoreReads

\* So it is for the frames that the process takes and those that it has written.
LEMMA ProcessImplements ==
    ASSUME TypeInv, TypeInv', Silence, Silence', Turn, excess' = None,
           \/ \E f \in Decoded("process") : TakeFrame(f) \/ TakeAnswer(f)
           \/ ProcessWritten
           \/ Crash
    PROVE  Session!Next
<1>0. /\ "core" \in Ends /\ "process" \in Ends
      /\ Peer("core") = "process" /\ Peer("process") = "core"
      /\ io \in [Ends -> Io] /\ stream \in [Ends -> Seq(Piece)]
      /\ process = [pc |-> process.pc, id |-> process.id, callback |-> process.callback]
      /\ \A f : <<f>> # <<>> /\ Head(<<f>>) = f /\ Tail(<<f>>) = <<>>
      /\ \A f : Append(<<>>, f) = <<f>>
  BY PartsType DEF Ends, Peer, TypeInv, PlaceType
<1>1. /\ core' = core /\ Roundtrips' = Roundtrips
      /\ UNCHANGED <<requested, outcome>>
  BY DEF TakeFrame, TakeAnswer, ProcessWritten, ProcessHasWritten, Crash, Roundtrips, history
<1>2. ASSUME NEW f \in Decoded("process"), Received("process"), UNCHANGED stream
      PROVE  ToProcess' = <<>> /\ ToCore' = ToCore
  <2>1. stream["process"] = <<>> /\ io["core"].out = <<>>
    BY <1>2, ProcessReads
  <2>2. NoneFrom("core")'
    BY <1>0, <1>2, <2>1, FrameTaken
  <2>3. io'["core"] = io["core"]
    BY <1>0, <1>2 DEF Received
  <2>. QED
    BY <1>2, <2>2, <2>3, Queues DEF ToCore
<1>3. ASSUME NEW f \in Decoded("process"), TakeFrame(f)
      PROVE  Session!ReadLoop
  <2>1. process.pc = "reading"
    BY <1>3 DEF TakeFrame
  <2>2. PICK c \in Ids : Called(c) /\ f \in Call(c)
    BY <2>1, ProcessReads
  <2>3. f = [kind |-> "CALL", id |-> c]
    BY <2>2 DEF Call
  <2>4. /\ process' = [pc |-> "executing", id |-> f.id, callback |-> 0]
        /\ started' = started \cup {f.id} /\ Received("process")
        /\ UNCHANGED <<stream, issued, answered, result>>
    BY <1>3, <2>3 DEF TakeFrame
  <2>5. ~Gone /\ Sent("core", Call(c))
    BY <2>1, <2>2 DEF Called, Gone
  <2>6. ToProcess = <<f>>
    BY <2>3, <2>5, Queues DEF Call
  <2>7. ToProcess' = <<>> /\ ToCore' = ToCore
    BY <1>2, <2>4
  <2>8. ProcessState = process /\ ProcessState' = process'
    BY <2>1, <2>4 DEF ProcessState
  <2>9. Head(ToProcess) = f /\ ToProcess # <<>> /\ Tail(ToProcess) = <<>>
    BY <1>0, <2>6
  <2>10. Session!TakeCall
    BY <1>1, <2>1, <2>3, <2>4, <2>7, <2>8, <2>9
       DEF Session!TakeCall, Session!Takes, ToProcess, ToCore
  <2>. QED
    BY <2>3, <2>9, <2>10 DEF Session!ReadLoop, ToProcess
<1>4. ASSUME NEW f \in Decoded("process"), TakeAnswer(f)
      PROVE  Session!TakeAnswer
  <2>1. /\ process.pc = "waiting" /\ Received("process")
        /\ process' = [process EXCEPT !.pc = "executing", !.callback = 0]
        /\ answered' = [answered EXCEPT ![process.callback] =
               IF f.kind = "CALLBACK_RESULT" THEN f.id ELSE 0]
        /\ UNCHANGED <<stream, issued, started, result>>
    BY <1>4 DEF TakeAnswer
  <2>2. PICK c \in Ids, b \in Ids : Answered(c, b) /\ f \in Answers(b, Session!Statuses)
    BY <2>1, ProcessReads
  <2>3. ~Gone /\ Sent("core", Answers(b, Session!Statuses))
    BY <2>1, <2>2 DEF Answered, Gone
  <2>4. PICK g \in Answers(b, Session!Statuses) : ToProcess = <<g>>
    BY <2>3, Queues
  <2>5. f.kind = "CALLBACK_RESULT" /\ f.id = b /\ g.kind = "CALLBACK_RESULT" /\ g.id = b
    BY <2>2 DEF Answers
  <2>6. ToProcess' = <<>> /\ ToCore' = ToCore
    BY <1>2, <2>1
  <2>7. process' = [pc |-> "executing", id |-> process.id, callback |-> 0]
    BY <1>0, <2>1
  <2>8. ProcessState = process /\ ProcessState' = process'
    BY <2>1, <2>7 DEF ProcessState
  <2>9. Head(ToProcess) = g /\ ToProcess # <<>> /\ Tail(ToProcess) = <<>>
    BY <1>0, <2>4
  <2>. QED
    BY <1>1, <2>1, <2>5, <2>6, <2>7, <2>8, <2>9
       DEF Session!TakeAnswer, Session!Takes, Session!history, ToProcess, ToCore
<1>5. CASE ProcessWritten
  <2>1. /\ WritesLast("process") /\ process.pc \in {"request", "respond"}
        /\ UNCHANGED <<answered, started>>
    BY <1>5 DEF ProcessWritten, ProcessHasWritten
  <2>2. /\ io'["process"] = Silent /\ io'["core"] = io["core"]
        /\ stream'["process"] = stream["process"]
    BY <1>0, <2>1 DEF WritesLast
  <2>3. NoneFrom("core")
    BY <2>1, Phases DEF Requesting, Responding
  <2>4. ToProcess' = ToProcess
    <3>1. io'["process"].got = <<>> /\ io["process"].got = <<>>
      BY <1>0, <2>2, <2>3 DEF NoneFrom, Silent
    <3>. QED
      BY <2>2, <3>1 DEF ToProcess
  <2>5. ~Gone
    BY <2>1 DEF Gone
  <2>6. CASE process.pc = "request"
    <3>1. PICK c \in Ids, b \in Ids : Requesting(c, b)
      BY <2>6, Phases
    <3>2. /\ process = [pc |-> "request", id |-> c, callback |-> b]
          /\ b = issued + 1 /\ issued < MaxExchanges
          /\ Sending("process", Requests(b, Session!Targets))
      BY <3>1, TransportAssumption DEF Requesting, ProcessIs, Ids, TypeInv, PlaceType
    <3>3. process' = [process EXCEPT !.pc = "waiting"] /\ issued' = b /\ UNCHANGED result
      BY <1>5, <2>6, <3>2 DEF ProcessWritten, ProcessHasWritten
    <3>4. process' = [pc |-> "waiting", id |-> c, callback |-> b]
      BY <3>2, <3>3
    <3>5. ~Gone'
      BY <3>4 DEF Gone
    <3>6. Sent("process", Requests(b, Session!Targets))'
      BY <1>0, <2>1, <2>5, <3>2, <3>5, LastPiece
    <3>7. PICK f \in Requests(b, Session!Targets) : ToCore' = <<f>>
      BY <3>5, <3>6, Queues
    <3>8. ToCore = <<>>
      BY <3>2, Queues
    <3>9. f = [kind |-> "CALLBACK_CALL", id |-> b, target |-> f.target] /\ f.target \in Session!Targets
      BY DEF Requests
    <3>10. PICK t \in Session!Targets : t = f.target
      BY <3>9
    <3>11. ProcessState = [pc |-> "executing", id |-> c, callback |-> 0] /\ ProcessState' = process'
      BY <3>2, <3>4 DEF ProcessState
    <3>12. Session!SendCallback(t)
      BY <1>0, <1>1, <2>1, <2>4, <3>2, <3>3, <3>4, <3>7, <3>8, <3>9, <3>10, <3>11
         DEF Session!SendCallback, Session!history, ToProcess, ToCore
    <3>. QED
      BY <3>12 DEF Session!Next
  <2>7. CASE process.pc = "respond"
    <3>1. PICK c \in Ids : Responding(c)
      BY <2>7, Phases
    <3>2. /\ process = [pc |-> "respond", id |-> c, callback |-> 0]
          /\ Sending("process", Results(c))
      BY <3>1 DEF Responding, ProcessIs
    <3>3. PICK f \in Results(c), s \in Sizes, t \in Nat : Pipe("process", f, s, t)
      BY <2>5, <3>2 DEF Sending, Line
    <3>4. io["process"].out[1].frame = f
      <4>1. Len(io["process"].out) = 1 /\ io["process"].out \in Seq(Piece)
        BY <1>0, <2>1, PartsType DEF WritesLast
      <4>2. 1 \in DOMAIN io["process"].out
        BY <4>1
      <4>3. PICK n : Part(io["process"].out, f, s, n)
        BY <3>3 DEF Pipe
      <4>4. io["process"].out[1] = P(f, s, n + 1)
        BY <4>2, <4>3 DEF Part
      <4>. QED
        BY <4>4 DEF P
    <3>5. Sending("process", {f})
      BY <3>2, <3>3 DEF Sending, Line
    <3>6. /\ process' = [pc |-> "reading", id |-> 0, callback |-> 0]
          /\ result' = [result EXCEPT ![c] = f.status] /\ UNCHANGED issued
      BY <1>5, <2>7, <3>2, <3>4 DEF ProcessWritten, ProcessHasWritten
    <3>7. ~Gone'
      BY <3>6 DEF Gone
    <3>8. Sent("process", {f})'
      BY <1>0, <2>1, <2>5, <3>5, <3>7, LastPiece
    <3>9. ToCore' = <<f>> /\ ToCore = <<>>
      BY <3>5, <3>7, <3>8, Queues
    <3>10. f = [kind |-> "RESULT", id |-> c, status |-> f.status] /\ f.status \in Session!Statuses
      BY DEF Results
    <3>11. PICK st \in Session!Statuses : st = f.status
      BY <3>10
    <3>12. ProcessState = [pc |-> "executing", id |-> c, callback |-> 0] /\ ProcessState' = process'
      BY <3>2, <3>6 DEF ProcessState
    <3>13. Session!SendResult(st)
      BY <1>0, <1>1, <2>1, <2>4, <3>2, <3>6, <3>9, <3>10, <3>11, <3>12
         DEF Session!SendResult, ToProcess, ToCore
    <3>. QED
      BY <3>13 DEF Session!Next
  <2>. QED
    BY <2>1, <2>6, <2>7
<1>6. CASE Crash
  <2>1. /\ MayCrash /\ ~Gone /\ UNCHANGED <<issued, history>>
        /\ process' = [pc |-> "crashed", id |-> 0, callback |-> 0]
        /\ stream' = [stream EXCEPT !["process"] = <<>>]
        /\ io' = [io EXCEPT !["process"] = Silent]
    BY <1>6 DEF Crash, Closes
  <2>2. /\ io'["process"].got = <<>> /\ stream'["process"] = <<>>
        /\ io'["core"] = io["core"] /\ stream'["core"] = stream["core"]
    BY <1>0, <2>1 DEF Silent
  <2>3. ToProcess' = <<>> /\ ToCore' = ToCore
    BY <2>2, FramesOfNone DEF ToProcess, ToCore
  <2>4. ~Session!Gone /\ ProcessState' = process'
    BY <2>1, Mapped DEF ProcessState
  <2>5. Session!Crash
    BY <1>1, <2>1, <2>3, <2>4 DEF Session!Crash, Session!history, history, ToProcess, ToCore
  <2>. QED
    BY <2>5 DEF Session!Next
<1>. QED
  BY <1>3, <1>4, <1>5, <1>6 DEF Session!Next, Session!ProcessReads

\* Until a frame is over the limit, the pieces on the socket, whatever their sizes
\* and however they are cut, implement the session of whole frames: what an end
\* takes for a frame is one that the other end has sent, whole and once.
THEOREM BytesImplementSession == Spec => SessionSpec
<1>1. Init => Session!Init
  <2>1. SUFFICES ASSUME Init PROVE Session!Init
    OBVIOUS
  <2>2. /\ io["process"].got = <<>> /\ stream["process"] = <<>>
        /\ io["core"].got = <<>> /\ stream["core"] = <<>>
    BY <2>1 DEF Init, Ends, Silent
  <2>3. ToProcess = <<>> /\ ToCore = <<>>
    BY <2>2, FramesOfNone DEF ToProcess, ToCore
  <2>4. Roundtrips = <<>> /\ ProcessState = process
    BY <2>1 DEF Init, Idle, Roundtrips, ProcessState
  <2>. QED
    BY <2>1, <2>3, <2>4 DEF Init, Session!Init, ToProcess, ToCore, Ids, Session!Ids
<1>2. /\ TypeInv /\ TypeInv' /\ Silence /\ Silence' /\ TurnInv /\ [Next]_vars
      => [Session!Next \/ excess' # None]_(Session!vars)
  <2>1. SUFFICES ASSUME TypeInv, TypeInv', Silence, Silence', TurnInv, [Next]_vars, excess' = None
                 PROVE  Session!Next \/ UNCHANGED Session!vars
    OBVIOUS
  <2>2. Turn
    BY <2>1, ExcessStays DEF TurnInv
  <2>3. CASE Rest \/ UNCHANGED vars
    BY <2>3 DEF Rest, vars, history, Session!vars, Session!history, Roundtrips, ProcessState
  <2>4. ~ProcessGivesUp
    BY <2>1, NothingTooLarge DEF ProcessGivesUp, Ends
  <2>5. CASE \/ WritePiece("core") \/ ReadPiece("core") \/ ReadLength("core")
             \/ WritePiece("process") \/ ReadPiece("process") \/ ReadLength("process")
    BY <2>1, <2>2, <2>5, PiecesStutter DEF Ends
  <2>6. CASE \/ BeginCall
             \/ \E f : RefuseCallback(f)
             \/ \E s \in Session!Statuses : AnswerCallback(s) \/ SendResult(s)
             \/ \E t \in Session!Targets : SendCallback(t)
    BY <2>1, <2>2, <2>6, BeginningsStutter
  <2>7. CASE CoreWritten \/ CoreWriteFails
    BY <2>1, <2>2, <2>7, CoreWriteImplements
  <2>8. CASE (\E f : ReadResult(f) \/ DispatchCallback(f)) \/ CoreReadFails
    BY <2>1, <2>2, <2>8, CoreReadImplements
  <2>9. CASE \/ \E f \in Decoded("process") : TakeFrame(f) \/ TakeAnswer(f)
             \/ ProcessWritten
             \/ Crash
    BY <2>1, <2>2, <2>9, ProcessImplements
  <2>. QED
    BY <2>1, <2>3, <2>4, <2>5, <2>6, <2>7, <2>8, <2>9 DEF Next, CoreStep, ProcessStep
<1>. QED
  BY <1>1, <1>2, Typed, TurnHolds, PTL DEF Spec, SessionSpec

(* ------------------- calls over bytes are remote calls -------------------- *)

\* The session again, with what was proved about it; and what a call promises.
Calls == INSTANCE IpcSession_proof WITH
    toProcess <- Frames(io["process"].got \o stream["process"]),
    toCore <- Frames(io["core"].got \o stream["core"]),
    roundtrips <- Roundtrips, process <- ProcessState, Reentry <- FALSE
Remote == INSTANCE RemoteCall

\* The two are the same session.
LEMMA SameSession ==
    /\ Session!Init = Calls!Init
    /\ UNCHANGED Session!vars <=> UNCHANGED Calls!vars
    /\ Session!Next <=> Calls!Next
<1>1. (UNCHANGED Session!vars <=> UNCHANGED Calls!vars) /\ Session!Ids = Calls!Ids
  BY DEF Session!vars, Calls!vars, Session!history, Calls!history, Session!Ids, Calls!Ids
<1>2. Session!Init = Calls!Init
  BY <1>1 DEF Session!Init, Calls!Init
<1>. USE DEF Session!history, Calls!history, Session!Gone, Calls!Gone, Session!Last, Calls!Last,
             Session!Front, Calls!Front, Session!Current, Calls!Current,
             Session!SendToProcess, Calls!SendToProcess, Session!ReturnCall, Calls!ReturnCall,
             Session!OpenRoundtrip, Calls!OpenRoundtrip, Session!Statuses, Calls!Statuses,
             Session!Targets, Calls!Targets, Session!Reads, Calls!Reads, Session!Takes, Calls!Takes
<1>3. Session!BeginCall <=> Calls!BeginCall
  BY DEF Session!BeginCall, Calls!BeginCall
<1>4. Session!CoreReads <=> Calls!CoreReads
  BY DEF Session!CoreReads, Calls!CoreReads, Session!ReadResult, Calls!ReadResult,
         Session!RefuseCallback, Calls!RefuseCallback, Session!DispatchCallback,
         Calls!DispatchCallback, Session!ReadEnd, Calls!ReadEnd
<1>5. \A s : Session!AnswerCallback(s) <=> Calls!AnswerCallback(s)
  BY DEF Session!AnswerCallback, Calls!AnswerCallback
<1>6. Session!ProcessReads <=> Calls!ProcessReads
  BY DEF Session!ProcessReads, Calls!ProcessReads, Session!ReadLoop, Calls!ReadLoop,
         Session!LeaveLoop, Calls!LeaveLoop, Session!TakeCall, Calls!TakeCall,
         Session!TakeAnswer, Calls!TakeAnswer
<1>7. \A t : Session!SendCallback(t) <=> Calls!SendCallback(t)
  BY DEF Session!SendCallback, Calls!SendCallback
<1>8. \A s : Session!SendResult(s) <=> Calls!SendResult(s)
  BY DEF Session!SendResult, Calls!SendResult
<1>9. Session!Crash <=> Calls!Crash
  BY DEF Session!Crash, Calls!Crash
<1>10. Session!Rest <=> Calls!Rest
  BY <1>1 DEF Session!Rest, Calls!Rest
<1>. QED
  BY <1>1, <1>2, <1>3, <1>4, <1>5, <1>6, <1>7, <1>8, <1>9, <1>10 DEF Session!Next, Calls!Next


\* The phases of IpcSession_proof, as long as no frame was over the limit.
CallsInv == excess = None => Calls!Inv

\* A step of the session keeps them.
LEMMA CallsInvStep ==
    ASSUME TypeInv, CallsInv, [Next]_vars, excess' = None,
           [Session!Next \/ excess' # None]_(Session!vars)
    PROVE  /\ Calls!Inv
           /\ [Calls!Next]_(Calls!vars)
           /\ Calls!Inv'
<1>1. Calls!Inv
  BY ExcessStays DEF CallsInv
<1>2. [Calls!Next]_(Calls!vars)
  BY SameSession
<1>3. Calls!Inv'
  BY <1>1, <1>2, Calls!InvStep, TransportAssumption
<1>. QED
  BY <1>1, <1>2, <1>3

\* What the two ends do with the bytes keeps the session's invariant.
LEMMA CallsInvHolds == Spec => []CallsInv
<1>1. Session!Init => CallsInv
  BY SameSession, Calls!InvBegins, TransportAssumption DEF CallsInv
<1>2. TypeInv /\ CallsInv /\ [Next]_vars /\ [Session!Next \/ excess' # None]_(Session!vars)
      => CallsInv'
  BY CallsInvStep DEF CallsInv
<1>. QED
  BY <1>1, <1>2, Typed, BytesImplementSession, PTL DEF Spec, SessionSpec

\* Replies over bytes are one's own, in whatever pieces they come: a callback gets
\* its own answer, and a call returns what its function ended with, or the process
\* died, until a frame is over the limit.
THEOREM BytesKeepReplies ==
    Spec => [](excess = None => Session!AnswerIsOwn /\ Session!OutcomeIsOwn)
<1>1. CallsInv => (excess = None => Session!AnswerIsOwn /\ Session!OutcomeIsOwn)
  <2>. SUFFICES ASSUME Calls!Inv PROVE Session!AnswerIsOwn /\ Session!OutcomeIsOwn
    BY DEF CallsInv
  <2>1. Calls!AnswerIsOwn /\ Calls!OutcomeIsOwn
    BY Calls!RepliesAreOwn, TransportAssumption
  <2>. QED
    BY <2>1 DEF Session!AnswerIsOwn, Calls!AnswerIsOwn, Session!OutcomeIsOwn, Calls!OutcomeIsOwn,
                Session!Ids, Calls!Ids
<1>. QED
  BY <1>1, CallsInvHolds, PTL

\* From the bytes to the promise: whatever the socket does with the pieces and
\* wherever the process dies, a call of ipc_roundtrip executes its function at most
\* once, and is Ok only if that execution was, until a frame is over the limit.
THEOREM BytesImplementRemoteCall ==
    Spec => Remote!Init /\ [][Remote!Next \/ excess' # None]_(Remote!vars)
<1>1. Init => Remote!Init
  BY DEF Init, Remote!Init
<1>2. TypeInv /\ CallsInv /\ [Next]_vars /\ [Session!Next \/ excess' # None]_(Session!vars)
      => [Remote!Next \/ excess' # None]_(Remote!vars)
  <2>. SUFFICES ASSUME TypeInv, CallsInv, [Next]_vars, excess' = None,
                       [Session!Next \/ excess' # None]_(Session!vars)
                PROVE  Remote!Next \/ UNCHANGED Remote!vars
    OBVIOUS
  <2>1. Calls!Inv /\ [Calls!Next]_(Calls!vars)
    BY CallsInvStep
  <2>2. Calls!Remote!Next \/ UNCHANGED Calls!history
    BY <2>1, Calls!RemoteStep, TransportAssumption
  <2>. QED
    BY <2>2 DEF Calls!history, Remote!vars, Calls!Ids, Ids,
                Calls!Remote!Next, Calls!Remote!Request, Calls!Remote!Start, Calls!Remote!End,
                Calls!Remote!Return, Calls!Remote!Refuse,
                Remote!Next, Remote!Request, Remote!Start, Remote!End, Remote!Return, Remote!Refuse
<1>. QED
  BY <1>1, <1>2, Typed, CallsInvHolds, BytesImplementSession, PTL DEF Spec, SessionSpec
===============================================================================
