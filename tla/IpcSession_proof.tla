--------------------------- MODULE IpcSession_proof ---------------------------
(***************************************************************************)
(* Theorems about IpcSession, for every number of exchanges.  All but the  *)
(* first are about sessions to which no callback leads back (~Reentry):    *)
(* otherwise they are false, as TLC shows.                                 *)
(***************************************************************************)
EXTENDS IpcSession, SequenceTheorems, TLAPS

(* -------------------------- lemmas on sequences -------------------------- *)

\* What Front and Last return on a sequence with an element.
LEMMA FrontLast ==
    ASSUME NEW S, NEW s \in Seq(S), s # <<>>
    PROVE  Front(s) \in Seq(S) /\ Last(s) \in S
<1>1. Len(s) \in Nat /\ Len(s) # 0 /\ Last(s) = s[Len(s)] /\ s[Len(s)] \in S
  BY LenProperties DEF Last
<1>2. \A i \in 1 .. Len(s) - 1 : s[i] \in S
  BY <1>1, LenProperties
<1>. DEFINE n == Len(s) - 1
<1>3. n \in Int /\ 1 \in Int /\ \A i \in 1 .. n : s[i] \in S
  BY <1>1, <1>2
<1>. HIDE DEF n
<1>4. SubSeq(s, 1, n) \in Seq(S)
  BY <1>3, SubSeqProperties
<1>. QED
  BY <1>1, <1>4 DEF Front, n

\* What they return on a sequence of one element.
LEMMA FrontLastOne ==
    ASSUME NEW e
    PROVE  Front(<<e>>) = <<>> /\ Last(<<e>>) = e
<1>1. Len(<<e>>) = 1 /\ <<e>>[1] = e
  OBVIOUS
<1>2. SubSeq(<<e>>, 1, 0) = <<>>
  BY EmptySeq, SubSeqProperties
<1>. QED
  BY <1>1, <1>2 DEF Front, Last

(* ---------------------------- type correctness --------------------------- *)

\* The frame at the head of a queue is of the kind its direction carries, and
\* taking it leaves a queue of the same type.
LEMMA HeadOfQueue ==
    ASSUME NEW S, NEW q \in Seq(S), q # <<>>
    PROVE  Head(q) \in S /\ Tail(q) \in Seq(S)
  BY HeadTailProperties

\* A write leaves the queue to the process well typed.
LEMMA SendType ==
    ASSUME TypeOK, NEW frame \in CoreFrame, SendToProcess(frame)
    PROVE  toProcess' \in Seq(CoreFrame)
  BY AppendProperties DEF TypeOK, SendToProcess

\* The return of the innermost call leaves the stack and the histories well typed.
LEMMA ReturnType ==
    ASSUME TypeOK, roundtrips # <<>>, NEW s \in Statuses, ReturnCall(s)
    PROVE  /\ roundtrips' \in Seq(Roundtrip)
           /\ outcome' \in [Ids -> Statuses \cup {None}]
           /\ requested' \subseteq Ids
           /\ started' \subseteq Ids
           /\ result' \in [Ids -> Statuses \cup {None}]
<1>1. roundtrips' \in Seq(Roundtrip)
  BY FrontLast DEF TypeOK, ReturnCall
<1>. QED
  BY <1>1 DEF TypeOK, ReturnCall

\* The innermost call stays open with other fields.
LEMMA ReplaceType ==
    ASSUME TypeOK, roundtrips # <<>>, NEW r \in Roundtrip
    PROVE  Append(Front(roundtrips), r) \in Seq(Roundtrip)
  BY FrontLast, AppendProperties DEF TypeOK

\* Types are preserved by the core's side of the session.
LEMMA CoreType ==
    ASSUME TypeOK, BeginCall \/ CoreReads \/ \E s \in Statuses : AnswerCallback(s)
    PROVE  TypeOK'
<1>. USE IpcSessionAssumption
<1>1. CASE BeginCall
  <2>. DEFINE id == issued + 1
  <2>1. id \in Ids /\ id \in 0 .. MaxExchanges
    BY <1>1 DEF TypeOK, BeginCall, Ids
  <2>2. toProcess' \in Seq(CoreFrame)
    <3>1. [kind |-> "CALL", id |-> id] \in CoreFrame
      BY <2>1 DEF CoreFrame
    <3>. QED
      BY <1>1, <3>1, SendType DEF BeginCall
  <2>3. roundtrips' \in Seq(Roundtrip)
    <3>1. [id |-> id, pc |-> "read", callback |-> 0] \in Roundtrip
      BY <2>1 DEF Roundtrip
    <3>2. roundtrips \in Seq(Roundtrip)
      BY DEF TypeOK
    <3>3. Append(roundtrips, [id |-> id, pc |-> "read", callback |-> 0]) \in Seq(Roundtrip)
      BY <3>1, <3>2, AppendProperties
    <3>. QED
      BY <1>1, <3>2, <3>3 DEF BeginCall
  <2>4. outcome' \in [Ids -> Statuses \cup {None}]
    BY <1>1, <2>1 DEF BeginCall, TypeOK, Statuses
  <2>5. requested' \subseteq Ids /\ issued' \in 0 .. MaxExchanges
    BY <1>1, <2>1 DEF BeginCall, TypeOK
  <2>. QED
    BY <1>1, <2>2, <2>3, <2>4, <2>5 DEF BeginCall, TypeOK
<1>2. ASSUME NEW kind, Reads(kind)
      PROVE  /\ roundtrips # <<>>
             /\ Head(toCore) \in ProcessFrame
             /\ Head(toCore).kind = kind
             /\ toCore' \in Seq(ProcessFrame)
             /\ Current \in Roundtrip
             /\ Current.pc = "read"
  BY <1>2, HeadOfQueue, FrontLast DEF TypeOK, Reads, Current
<1>3. CASE ReadResult
  <2>1. Head(toCore).status \in Statuses /\ roundtrips # <<>> /\ toCore' \in Seq(ProcessFrame)
    BY <1>2, <1>3 DEF ReadResult, ProcessFrame
  <2>2. ReturnCall(Head(toCore).status)
    BY <1>3 DEF ReadResult
  <2>. QED
    BY <1>3, <2>1, <2>2, ReturnType DEF ReadResult, TypeOK
<1>4. CASE RefuseCallback
  <2>. DEFINE frame == [kind |-> "CALLBACK_RESULT", id |-> Head(toCore).id, status |-> "Runtime"]
  <2>1. frame \in CoreFrame /\ toCore' \in Seq(ProcessFrame)
    BY <1>2, <1>4 DEF RefuseCallback, ProcessFrame, CoreFrame, Statuses
  <2>2. SendToProcess(frame)
    BY <1>4 DEF RefuseCallback
  <2>3. toProcess' \in Seq(CoreFrame)
    BY <2>1, <2>2, SendType
  <2>. QED
    BY <1>4, <2>1, <2>3 DEF RefuseCallback, TypeOK, history
<1>5. CASE DispatchCallback
  <2>1. /\ Head(toCore).id \in Ids
        /\ toCore' \in Seq(ProcessFrame)
        /\ roundtrips # <<>>
        /\ Current \in Roundtrip
        /\ Current.pc = "read"
    BY <1>2, <1>5 DEF DispatchCallback, ProcessFrame
  <2>2. OpenRoundtrip("nested", Head(toCore).id) \in Roundtrip
    BY <2>1 DEF Roundtrip, OpenRoundtrip
  <2>3. roundtrips' \in Seq(Roundtrip)
    BY <1>5, <2>1, <2>2, ReplaceType DEF DispatchCallback
  <2>. QED
    BY <1>5, <2>1, <2>3 DEF DispatchCallback, TypeOK, history
<1>6. ASSUME NEW s \in Statuses, AnswerCallback(s)
      PROVE  TypeOK'
  <2>1. roundtrips # <<>> /\ Current \in Roundtrip /\ Current.pc = "nested"
    BY <1>6, FrontLast DEF AnswerCallback, TypeOK, Current
  <2>2. [kind |-> "CALLBACK_RESULT", id |-> Current.callback, status |-> s] \in CoreFrame
    BY <2>1 DEF Roundtrip, CoreFrame
  <2>3. toProcess' \in Seq(CoreFrame)
    BY <1>6, <2>2, SendType DEF AnswerCallback
  <2>4. CASE Gone /\ ReturnCall("Runtime")
    <3>1. "Runtime" \in Statuses
      BY DEF Statuses
    <3>. QED
      BY <1>6, <2>1, <2>3, <2>4, <3>1, ReturnType DEF AnswerCallback, TypeOK
  <2>5. CASE ~(Gone /\ ReturnCall("Runtime"))
    <3>1. OpenRoundtrip("read", 0) \in Roundtrip
      BY <2>1 DEF Roundtrip, OpenRoundtrip
    <3>2. roundtrips' \in Seq(Roundtrip) /\ UNCHANGED history
      BY <1>6, <2>1, <2>5, <3>1, ReplaceType DEF AnswerCallback
    <3>. QED
      BY <1>6, <2>3, <3>2 DEF AnswerCallback, TypeOK, history
  <2>. QED
    BY <2>4, <2>5
<1>7. CASE ReadEnd
  <2>1. "Runtime" \in Statuses
    BY DEF Statuses
  <2>. QED
    BY <1>7, <2>1, ReturnType DEF ReadEnd, TypeOK
<1>. QED
  BY <1>1, <1>3, <1>4, <1>5, <1>6, <1>7 DEF CoreReads

\* Types are preserved by the process's side.
LEMMA ProcessType ==
    ASSUME TypeOK,
           \/ ProcessReads
           \/ \E target \in Targets : SendCallback(target)
           \/ \E s \in Statuses : SendResult(s)
           \/ Crash
    PROVE  TypeOK'
<1>. USE IpcSessionAssumption
<1>1. CASE TakeCall
  <2>1. Head(toProcess) \in CoreFrame /\ toProcess' \in Seq(CoreFrame) /\ Head(toProcess).id \in Ids
    BY <1>1, HeadOfQueue DEF TakeCall, Takes, TypeOK, CoreFrame
  <2>2. process' \in Process
    BY <1>1, <2>1 DEF TakeCall, Process
  <2>. QED
    BY <1>1, <2>1, <2>2 DEF TakeCall, TypeOK
<1>2. CASE LeaveLoop
  BY <1>2 DEF LeaveLoop, TypeOK, Process, history
<1>3. CASE TakeAnswer
  <2>1. Head(toProcess) \in CoreFrame /\ toProcess' \in Seq(CoreFrame) /\ Head(toProcess).id \in Ids
    BY <1>3, HeadOfQueue DEF TakeAnswer, Takes, TypeOK, CoreFrame
  <2>2. process \in Process /\ process.pc = "waiting"
    BY <1>3 DEF TakeAnswer, TypeOK
  <2>3. process' \in Process
    BY <1>3, <2>2 DEF TakeAnswer, Process
  <2>4. answered' \in [Ids -> Ids \cup {None, 0}]
    BY <1>3, <2>1 DEF TakeAnswer, TypeOK
  <2>. QED
    BY <1>3, <2>1, <2>3, <2>4 DEF TakeAnswer, TypeOK, history
<1>4. ASSUME NEW target \in Targets, SendCallback(target)
      PROVE  TypeOK'
  <2>. DEFINE id == issued + 1
  <2>1. id \in Ids /\ id \in 0 .. MaxExchanges
    BY <1>4 DEF TypeOK, SendCallback, Ids
  <2>2. toCore' \in Seq(ProcessFrame)
    <3>1. [kind |-> "CALLBACK_CALL", id |-> id, target |-> target] \in ProcessFrame
      BY <2>1 DEF ProcessFrame
    <3>. QED
      BY <1>4, <3>1, AppendProperties DEF SendCallback, TypeOK
  <2>3. process \in Process /\ process.pc = "executing"
    BY <1>4 DEF SendCallback, TypeOK
  <2>4. process' \in Process
    BY <1>4, <2>1, <2>3 DEF SendCallback, Process
  <2>. QED
    BY <1>4, <2>1, <2>2, <2>4 DEF SendCallback, TypeOK, history
<1>5. ASSUME NEW s \in Statuses, SendResult(s)
      PROVE  TypeOK'
  <2>1. process.id \in Ids
    BY <1>5 DEF SendResult, TypeOK, Process
  <2>2. toCore' \in Seq(ProcessFrame)
    <3>1. [kind |-> "RESULT", id |-> process.id, status |-> s] \in ProcessFrame
      BY <2>1 DEF ProcessFrame
    <3>. QED
      BY <1>5, <3>1, AppendProperties DEF SendResult, TypeOK
  <2>3. process' \in Process /\ result' \in [Ids -> Statuses \cup {None}]
    BY <1>5 DEF SendResult, TypeOK, Process
  <2>. QED
    BY <1>5, <2>2, <2>3 DEF SendResult, TypeOK
<1>6. CASE Crash
  BY <1>6 DEF Crash, TypeOK, Process, history
<1>. QED
  BY <1>1, <1>2, <1>3, <1>4, <1>5, <1>6 DEF ProcessReads, ReadLoop

\* A step that changes nothing.
LEMMA StutterType == ASSUME TypeOK, UNCHANGED vars PROVE TypeOK'
  BY DEF TypeOK, vars, history

\* Every reachable state is well typed; in particular each end only ever puts
\* its own kinds of message on the wire.
THEOREM SessionTypeCorrect == Spec => []TypeOK
<1>1. Init => TypeOK
  BY IpcSessionAssumption DEF Init, TypeOK, Process
<1>2. TypeOK /\ [Next]_vars => TypeOK'
  BY CoreType, ProcessType, StutterType DEF Next, Rest
<1>. QED
  BY <1>1, <1>2, PTL DEF Spec

(* --------------------------- the two ends in step ------------------------ *)

\* The core's stack when one round trip is open.
LEMMA OpenStack ==
    ASSUME NEW pc, NEW c, NEW b, Open(pc, c, b)
    PROVE  /\ roundtrips # <<>>
           /\ Current = [id |-> c, pc |-> pc, callback |-> b]
           /\ Front(roundtrips) = <<>>
  BY FrontLastOne DEF Open, Current

\* The call that is open, when there is one.
LEMMA SomeOpenCall ==
    ASSUME Inv, roundtrips # <<>> \/ process.pc \in {"executing", "waiting"} \/ toProcess # <<>>
    PROVE  \E c \in requested : OpenCall(c)
  BY DEF Inv, InStep, Quiet, Silent, ProcessAt

\* Who holds the session, by where the core, the process and the wire are.
LEMMA PhaseOf ==
    ASSUME Inv, NEW c \in requested, OpenCall(c)
    PROVE  /\ c \in Ids
           /\ outcome[c] = None
           /\ Reads("RESULT") => Returned(c)
           /\ Reads("CALLBACK_CALL") => \E b \in 1 .. issued : Unfinished(c) /\ CallbackSent(c, b)
           /\ Current.pc = "nested" => \E b \in 1 .. issued : Unfinished(c) /\ Nested(c, b)
           /\ Current.pc = "read" /\ toCore = <<>> /\ Gone => Lost(c)
           /\ process.pc = "reading" /\ toProcess # <<>> => CallSent(c)
           /\ process.pc = "waiting" /\ toProcess # <<>> =>
                  \E b \in 1 .. issued : Unfinished(c) /\ Answered(c, b)
           /\ process.pc = "executing" => Unfinished(c) /\ Executing(c)
<1>1. c \in Ids /\ outcome[c] = None
  BY DEF Inv, TypeOK, OpenCall
<1>2. CASE CallSent(c)
  BY <1>1, <1>2, OpenStack DEF CallSent, ProcessAt, Reads, Gone
<1>3. CASE Returned(c)
  BY <1>1, <1>3, OpenStack DEF Returned, ProcessAt, Reads, Gone
<1>4. CASE Lost(c)
  BY <1>1, <1>4, OpenStack DEF Lost, ProcessAt, Reads, Gone, Silent
<1>5. CASE Unfinished(c) /\ Executing(c)
  BY <1>1, <1>5, OpenStack DEF Executing, ProcessAt, Reads, Gone, Silent
<1>6. ASSUME NEW b \in 1 .. issued, Unfinished(c), CallbackSent(c, b)
      PROVE  /\ toCore # <<>>
             /\ Head(toCore).kind = "CALLBACK_CALL"
             /\ toProcess = <<>>
             /\ Current.pc = "read"
             /\ process.pc \in {"waiting", "crashed"}
  BY <1>6, OpenStack DEF CallbackSent, ProcessAt
<1>7. ASSUME NEW b \in 1 .. issued, Unfinished(c), Nested(c, b)
      PROVE  /\ Silent
             /\ Current.pc = "nested"
             /\ process.pc \in {"waiting", "crashed"}
  BY <1>7, OpenStack DEF Nested, ProcessAt
<1>8. ASSUME NEW b \in 1 .. issued, Unfinished(c), Answered(c, b)
      PROVE  /\ toCore = <<>>
             /\ Current.pc = "read"
             /\ process.pc = "waiting"
  BY <1>8, OpenStack DEF Answered, ProcessAt
<1>9. CASE \E b \in 1 .. issued :
               Unfinished(c) /\ (CallbackSent(c, b) \/ Nested(c, b) \/ Answered(c, b))
  <2>1. PICK b \in 1 .. issued :
               Unfinished(c) /\ (CallbackSent(c, b) \/ Nested(c, b) \/ Answered(c, b))
    BY <1>9
  <2>2. CASE CallbackSent(c, b)
    BY <1>1, <1>6, <2>1, <2>2 DEF Reads, Gone
  <2>3. CASE Nested(c, b)
    BY <1>1, <1>7, <2>1, <2>3 DEF Reads, Gone, Silent
  <2>4. CASE Answered(c, b)
    BY <1>1, <1>8, <2>1, <2>4 DEF Reads, Gone
  <2>. QED
    BY <2>1, <2>2, <2>3, <2>4
<1>. QED
  BY <1>2, <1>3, <1>4, <1>5, <1>9 DEF OpenCall

\* A frame is alone on the wire: taking it empties the queue, writing it fills it.
LEMMA OneFrame ==
    ASSUME NEW frame
    PROVE  /\ <<frame>> # <<>>
           /\ Head(<<frame>>) = frame
           /\ Tail(<<frame>>) = <<>>
           /\ Append(<<>>, frame) = <<frame>>
  OBVIOUS

\* A new call goes out to an idle process, or fails if the process is dead.
LEMMA BeginCallInStep ==
    ASSUME Inv, ~Reentry, BeginCall
    PROVE  InStep' /\ HistoryOK'
<1>0. PICK id \in Ids : id = issued + 1
  BY IpcSessionAssumption DEF Inv, TypeOK, BeginCall, Ids
<1>1. roundtrips = <<>>
  BY DEF BeginCall
<1>2. Quiet
  <2>1. ASSUME NEW c \in requested, OpenCall(c)
        PROVE  FALSE
    BY <1>1, <2>1, OpenStack DEF OpenCall, CallSent, Returned, Lost, Executing, CallbackSent, Nested, Answered
  <2>. QED
    BY <2>1 DEF Inv, InStep
<1>3. /\ id \in Ids
      /\ id \notin 1 .. issued
      /\ 1 .. issued \subseteq 1 .. id
      /\ id \in 1 .. id
      /\ None \notin Statuses
  BY <1>0, IpcSessionAssumption DEF Inv, TypeOK, Statuses
<1>4. id \notin requested /\ id \notin started /\ outcome[id] = None /\ result[id] = None
  BY <1>3 DEF Inv, HistoryOK
<1>5. /\ requested' = requested \cup {id}
      /\ issued' = id
      /\ UNCHANGED <<toCore, process, answered, started, result>>
  BY <1>0 DEF BeginCall
<1>6. CASE Gone
  <2>1. /\ process.pc = "crashed"
        /\ outcome' = [outcome EXCEPT ![id] = "Runtime"]
        /\ UNCHANGED <<roundtrips, toProcess>>
    BY <1>0, <1>2, <1>6 DEF BeginCall, SendToProcess, Quiet, ProcessAt, Gone
  <2>2. Quiet'
    BY <1>2, <1>5, <2>1 DEF Quiet, Silent, ProcessAt
  <2>3. HistoryOK'
    BY <1>3, <1>4, <1>5, <2>1 DEF Inv, TypeOK, HistoryOK
  <2>. QED
    BY <2>2, <2>3 DEF InStep
<1>7. CASE ~Gone
  <2>1. /\ ProcessAt("reading", 0, 0)
        /\ roundtrips' = <<[id |-> id, pc |-> "read", callback |-> 0]>>
        /\ toProcess' = <<[kind |-> "CALL", id |-> id]>>
        /\ toCore' = <<>>
        /\ UNCHANGED outcome
    <3>1. /\ roundtrips' = Append(roundtrips, [id |-> id, pc |-> "read", callback |-> 0])
          /\ toProcess' = Append(toProcess, [kind |-> "CALL", id |-> id])
          /\ UNCHANGED outcome
      BY <1>0, <1>7 DEF BeginCall, SendToProcess
    <3>2. ProcessAt("reading", 0, 0) /\ toProcess = <<>> /\ toCore = <<>>
      BY <1>2, <1>7 DEF Quiet, Silent, ProcessAt, Gone
    <3>3. roundtrips' = <<[id |-> id, pc |-> "read", callback |-> 0]>>
      BY <1>1, <3>1, OneFrame
    <3>4. toProcess' = <<[kind |-> "CALL", id |-> id]>>
      BY <3>1, <3>2, OneFrame
    <3>. QED
      BY <1>5, <3>1, <3>2, <3>3, <3>4
  <2>2. CallSent(id)'
    BY <1>4, <1>5, <2>1 DEF CallSent, Open, ProcessAt
  <2>3. requested' \subseteq 1 .. issued' /\ started' \subseteq requested'
    BY <1>3, <1>5 DEF Inv, HistoryOK
  <2>4. ASSUME NEW c \in Ids
        PROVE  /\ outcome'[c] # None => process'.pc = "crashed" \/ outcome'[c] = result'[c]
               /\ c \notin requested' => outcome'[c] = None
               /\ c \notin started' => result'[c] = None
               /\ answered'[c] \in {None, c}
    BY <1>5, <2>1 DEF Inv, HistoryOK
  <2>5. HistoryOK'
    BY <2>3, <2>4 DEF HistoryOK
  <2>. QED
    BY <1>4, <1>5, <2>1, <2>2, <2>5 DEF InStep, OpenCall
<1>. QED
  BY <1>6, <1>7

\* The innermost round trip returns what its function ended with, or fails
\* because the process is dead: the session is quiet again.
LEMMA ReturnInStep ==
    ASSUME Inv, NEW c \in requested, OpenCall(c), Current.id = c,
           NEW s, ReturnCall(s), Front(roundtrips) = <<>>,
           s = result[c] \/ process.pc = "crashed",
           ProcessAt("reading", 0, 0) \/ ProcessAt("crashed", 0, 0),
           toProcess' = <<>>, toCore' = <<>>, UNCHANGED <<process, issued, answered>>
    PROVE  InStep' /\ HistoryOK'
<1>1. c \in Ids /\ outcome \in [Ids -> Statuses \cup {None}]
  BY DEF Inv, TypeOK
<1>2. /\ outcome' = [outcome EXCEPT ![c] = s]
      /\ roundtrips' = <<>>
      /\ UNCHANGED <<requested, started, result>>
  BY DEF ReturnCall
<1>3. Quiet'
  BY <1>2 DEF Quiet, Silent, ProcessAt
<1>4. HistoryOK'
  BY <1>1, <1>2 DEF Inv, HistoryOK
<1>. QED
  BY <1>3, <1>4 DEF InStep

\* The core's reads and its answers keep the two ends in step.
LEMMA CoreInStep ==
    ASSUME Inv, CoreReads \/ \E s \in Statuses : AnswerCallback(s)
    PROVE  InStep' /\ HistoryOK'
<1>1. PICK c \in requested : OpenCall(c)
  BY SomeOpenCall DEF CoreReads, ReadResult, RefuseCallback, DispatchCallback, ReadEnd, Reads, AnswerCallback
<1>2. ASSUME UNCHANGED <<process, issued, answered, history>>
      PROVE  HistoryOK'
  BY <1>2 DEF Inv, HistoryOK, history
<1>3. CASE ReadResult
  <2>1. Returned(c)
    BY <1>1, <1>3, PhaseOf DEF ReadResult
  <2>2. /\ Current.id = c
        /\ Front(roundtrips) = <<>>
        /\ Head(toCore).status = result[c]
        /\ toProcess' = <<>>
        /\ toCore' = <<>>
        /\ ProcessAt("reading", 0, 0) \/ ProcessAt("crashed", 0, 0)
    BY <1>3, <2>1, OpenStack, OneFrame DEF Returned, ReadResult, Reads
  <2>3. ReturnCall(Head(toCore).status) /\ UNCHANGED <<process, issued, answered>>
    BY <1>3 DEF ReadResult
  <2>. QED
    BY <1>1, <2>2, <2>3, ReturnInStep
<1>4. CASE RefuseCallback
  <2>1. PICK b \in 1 .. issued : Unfinished(c) /\ CallbackSent(c, b)
    BY <1>1, <1>4, PhaseOf DEF RefuseCallback
  <2>2. /\ Head(toCore).id = b
        /\ toCore' = <<>>
        /\ toProcess = <<>>
        /\ Open("read", c, 0)
        /\ UNCHANGED <<roundtrips, process, issued, answered, history>>
    BY <1>4, <2>1, OneFrame DEF CallbackSent, RefuseCallback, Reads
  <2>3. CASE ProcessAt("crashed", 0, 0)
    <3>1. toProcess' = <<>>
      BY <1>4, <2>2, <2>3 DEF RefuseCallback, SendToProcess, Gone, ProcessAt
    <3>2. Lost(c)'
      BY <2>2, <2>3, <3>1 DEF Lost, Open, ProcessAt, Silent
    <3>. QED
      BY <1>1, <1>2, <2>2, <3>2, PhaseOf DEF InStep, OpenCall, history
  <2>4. CASE ProcessAt("waiting", c, b)
    <3>1. toProcess' = <<[kind |-> "CALLBACK_RESULT", id |-> b, status |-> "Runtime"]>>
      BY <1>4, <2>2, <2>4 DEF RefuseCallback, SendToProcess, Gone, ProcessAt
    <3>2. Answered(c, b)'
      BY <2>2, <2>4, <3>1 DEF Answered, Open, ProcessAt, Statuses
    <3>3. Unfinished(c)' /\ b \in 1 .. issued' /\ outcome'[c] = None /\ c \in requested'
      BY <1>1, <2>1, <2>2, PhaseOf DEF Unfinished, history
    <3>. QED
      BY <1>2, <2>2, <3>2, <3>3 DEF InStep, OpenCall
  <2>. QED
    BY <2>1, <2>3, <2>4 DEF CallbackSent
<1>5. CASE DispatchCallback
  <2>1. PICK b \in 1 .. issued : Unfinished(c) /\ CallbackSent(c, b)
    BY <1>1, <1>5, PhaseOf DEF DispatchCallback
  <2>2. /\ Head(toCore).id = b
        /\ toCore' = <<>>
        /\ toProcess' = <<>>
        /\ ProcessAt("waiting", c, b) \/ ProcessAt("crashed", 0, 0)
        /\ UNCHANGED <<process, issued, answered, history>>
    BY <1>5, <2>1, OneFrame DEF CallbackSent, DispatchCallback, Reads
  <2>3. roundtrips' = <<[id |-> c, pc |-> "nested", callback |-> b]>>
    <3>1. Front(roundtrips) = <<>> /\ Current = [id |-> c, pc |-> "read", callback |-> 0]
      BY <2>1, OpenStack DEF CallbackSent
    <3>2. OpenRoundtrip("nested", b) = [id |-> c, pc |-> "nested", callback |-> b]
      BY <3>1 DEF OpenRoundtrip
    <3>3. roundtrips' = Append(Front(roundtrips), OpenRoundtrip("nested", b))
      BY <1>5, <2>2 DEF DispatchCallback
    <3>. QED
      BY <3>1, <3>2, <3>3, OneFrame
  <2>4. Nested(c, b)'
    BY <2>2, <2>3 DEF Nested, Open, ProcessAt, Silent
  <2>5. Unfinished(c)' /\ b \in 1 .. issued' /\ outcome'[c] = None /\ c \in requested'
    BY <1>1, <2>1, <2>2, PhaseOf DEF Unfinished, history
  <2>. QED
    BY <1>2, <2>2, <2>4, <2>5 DEF InStep, OpenCall
<1>6. ASSUME NEW s \in Statuses, AnswerCallback(s)
      PROVE  InStep' /\ HistoryOK'
  <2>1. PICK b \in 1 .. issued : Unfinished(c) /\ Nested(c, b)
    BY <1>1, <1>6, PhaseOf DEF AnswerCallback
  <2>2. /\ Current = [id |-> c, pc |-> "nested", callback |-> b]
        /\ Front(roundtrips) = <<>>
        /\ toCore' = <<>>
        /\ toProcess = <<>>
        /\ UNCHANGED <<process, issued, answered>>
    BY <1>6, <2>1, OpenStack DEF AnswerCallback, Nested, Silent
  <2>3. CASE ProcessAt("crashed", 0, 0)
    <3>1. ReturnCall("Runtime") /\ toProcess' = <<>>
      BY <1>6, <2>2, <2>3 DEF AnswerCallback, SendToProcess, Gone, ProcessAt
    <3>2. process.pc = "crashed"
      BY <2>3 DEF ProcessAt
    <3>. QED
      BY <1>1, <2>2, <2>3, <3>1, <3>2, ReturnInStep
  <2>4. CASE ProcessAt("waiting", c, b)
    <3>1. /\ toProcess' = <<[kind |-> "CALLBACK_RESULT", id |-> b, status |-> s]>>
          /\ roundtrips' = <<[id |-> c, pc |-> "read", callback |-> 0]>>
          /\ UNCHANGED history
      <4>1. OpenRoundtrip("read", 0) = [id |-> c, pc |-> "read", callback |-> 0]
        BY <2>2 DEF OpenRoundtrip
      <4>2. ~Gone /\ Current.callback = b
        BY <2>2, <2>4 DEF ProcessAt, Gone
      <4>3. /\ roundtrips' = Append(Front(roundtrips), OpenRoundtrip("read", 0))
            /\ toProcess' = Append(toProcess, [kind |-> "CALLBACK_RESULT", id |-> b, status |-> s])
            /\ UNCHANGED history
        BY <1>6, <4>2 DEF AnswerCallback, SendToProcess
      <4>. QED
        BY <2>2, <4>1, <4>3, OneFrame
    <3>2. Answered(c, b)'
      BY <2>2, <2>4, <3>1 DEF Answered, Open, ProcessAt
    <3>3. Unfinished(c)' /\ b \in 1 .. issued' /\ outcome'[c] = None /\ c \in requested'
      BY <1>1, <2>1, <2>2, <3>1, PhaseOf DEF Unfinished, history
    <3>. QED
      BY <1>2, <2>2, <3>1, <3>2, <3>3 DEF InStep, OpenCall
  <2>. QED
    BY <2>1, <2>3, <2>4 DEF Nested
<1>7. CASE ReadEnd
  <2>1. Lost(c)
    BY <1>1, <1>7, PhaseOf DEF ReadEnd
  <2>2. /\ Current.id = c
        /\ Front(roundtrips) = <<>>
        /\ toProcess' = <<>>
        /\ toCore' = <<>>
        /\ ProcessAt("crashed", 0, 0)
        /\ process.pc = "crashed"
        /\ ReturnCall("Runtime")
        /\ UNCHANGED <<process, issued, answered>>
    BY <1>7, <2>1, OpenStack DEF Lost, ReadEnd, Silent, ProcessAt
  <2>. QED
    BY <1>1, <2>2, ReturnInStep
<1>. QED
  BY <1>3, <1>4, <1>5, <1>6, <1>7 DEF CoreReads

\* The process's side does too.
LEMMA ProcessInStep ==
    ASSUME Inv,
           \/ ProcessReads
           \/ \E target \in Targets : SendCallback(target)
           \/ \E s \in Statuses : SendResult(s)
    PROVE  InStep' /\ HistoryOK'
<1>1. PICK c \in requested : OpenCall(c)
  BY SomeOpenCall DEF ProcessReads, ReadLoop, TakeCall, LeaveLoop, TakeAnswer, Takes, SendCallback, SendResult
<1>2. /\ c \in Ids
      /\ outcome[c] = None
      /\ None \notin Statuses
  BY <1>1, PhaseOf, IpcSessionAssumption DEF Statuses
<1>3. CASE TakeCall
  <2>1. CallSent(c)
    BY <1>1, <1>3, PhaseOf DEF TakeCall, Takes
  <2>2. /\ Head(toProcess).id = c
        /\ toProcess' = <<>>
        /\ toCore' = <<>>
        /\ c \notin started
        /\ Open("read", c, 0)
    BY <1>3, <2>1, OneFrame DEF CallSent, TakeCall, Takes
  <2>3. /\ process' = [pc |-> "executing", id |-> c, callback |-> 0]
        /\ started' = started \cup {c}
        /\ UNCHANGED <<roundtrips, issued, answered, requested, result, outcome>>
    BY <1>3, <2>2 DEF TakeCall
  <2>4. Unfinished(c)' /\ Executing(c)'
    BY <1>2, <2>2, <2>3 DEF Inv, HistoryOK, Unfinished, Executing, Open, ProcessAt, Silent
  <2>5. HistoryOK'
    <3>1. requested' \subseteq 1 .. issued' /\ started' \subseteq requested'
      BY <2>3 DEF Inv, HistoryOK
    <3>2. process.pc # "crashed"
      BY <1>3 DEF TakeCall
    <3>. QED
      BY <2>3, <3>1, <3>2 DEF Inv, HistoryOK
  <2>. QED
    BY <1>2, <2>3, <2>4, <2>5 DEF InStep, OpenCall
<1>4. CASE LeaveLoop
  <2>1. CallSent(c)
    BY <1>1, <1>4, PhaseOf DEF LeaveLoop
  <2>. QED
    BY <1>4, <2>1, OneFrame DEF LeaveLoop, CallSent
<1>5. CASE TakeAnswer
  <2>1. PICK b \in 1 .. issued : Unfinished(c) /\ Answered(c, b)
    BY <1>1, <1>5, PhaseOf DEF TakeAnswer, Takes
  <2>2. /\ Head(toProcess).kind = "CALLBACK_RESULT"
        /\ Head(toProcess).id = b
        /\ toProcess' = <<>>
        /\ toCore' = <<>>
        /\ process.id = c
        /\ process.callback = b
        /\ process.pc = "waiting"
        /\ Open("read", c, 0)
    BY <1>5, <2>1, OneFrame DEF Answered, TakeAnswer, Takes, ProcessAt
  <2>3. /\ answered' = [answered EXCEPT ![b] = b]
        /\ process' = [pc |-> "executing", id |-> c, callback |-> 0]
        /\ UNCHANGED <<roundtrips, issued, requested, started, result, outcome>>
    BY <1>5, <2>2 DEF TakeAnswer, history
  <2>4. Unfinished(c)' /\ Executing(c)'
    BY <2>1, <2>2, <2>3 DEF Unfinished, Executing, Open, ProcessAt, Silent
  <2>5. HistoryOK'
    BY <2>2, <2>3 DEF Inv, TypeOK, HistoryOK
  <2>. QED
    BY <1>2, <2>3, <2>4, <2>5 DEF InStep, OpenCall
<1>6. ASSUME NEW target \in Targets, SendCallback(target)
      PROVE  InStep' /\ HistoryOK'
  <2>0. PICK b \in Ids : b = issued + 1
    BY <1>6, IpcSessionAssumption DEF Inv, TypeOK, SendCallback, Ids
  <2>1. Unfinished(c) /\ Executing(c)
    BY <1>1, <1>6, PhaseOf DEF SendCallback
  <2>2. /\ issued' = b
        /\ process' = [pc |-> "waiting", id |-> process.id, callback |-> b]
        /\ toCore' = Append(toCore, [kind |-> "CALLBACK_CALL", id |-> b, target |-> target])
        /\ UNCHANGED <<toProcess, roundtrips, answered, requested, started, result, outcome>>
    BY <1>6, <2>0 DEF SendCallback, history
  <2>3. issued \in Nat /\ b \in 1 .. issued' /\ 1 .. issued \subseteq 1 .. issued'
    BY <2>0, <2>2 DEF Inv, TypeOK
  <2>4. toCore' = <<[kind |-> "CALLBACK_CALL", id |-> b, target |-> target]>>
    BY <2>1, <2>2, OneFrame DEF Executing, Silent
  <2>5. CallbackSent(c, b)'
    BY <2>1, <2>2, <2>4 DEF Executing, Silent, CallbackSent, Open, ProcessAt
  <2>6. Unfinished(c)'
    BY <2>1, <2>2 DEF Unfinished
  <2>7. HistoryOK'
    <3>1. process.pc # "crashed"
      BY <1>6 DEF SendCallback
    <3>2. requested' \subseteq 1 .. issued' /\ started' \subseteq requested'
      BY <2>2, <2>3 DEF Inv, HistoryOK
    <3>3. ASSUME NEW d \in Ids
          PROVE  /\ outcome'[d] # None => process'.pc = "crashed" \/ outcome'[d] = result'[d]
                 /\ d \notin requested' => outcome'[d] = None
                 /\ d \notin started' => result'[d] = None
                 /\ answered'[d] \in {None, d}
      BY <2>2, <3>1 DEF Inv, HistoryOK
    <3>. QED
      BY <3>2, <3>3 DEF HistoryOK
  <2>. QED
    BY <1>2, <2>2, <2>3, <2>5, <2>6, <2>7 DEF InStep, OpenCall
<1>7. ASSUME NEW s \in Statuses, SendResult(s)
      PROVE  InStep' /\ HistoryOK'
  <2>1. Unfinished(c) /\ Executing(c)
    BY <1>1, <1>7, PhaseOf DEF SendResult
  <2>2. /\ process.id = c
        /\ toProcess = <<>>
        /\ Open("read", c, 0)
        /\ toCore = <<>>
    BY <2>1 DEF Executing, ProcessAt, Silent
  <2>3. /\ toCore' = Append(toCore, [kind |-> "RESULT", id |-> c, status |-> s])
        /\ result' = [result EXCEPT ![c] = s]
        /\ process' = [pc |-> "reading", id |-> 0, callback |-> 0]
        /\ UNCHANGED <<toProcess, roundtrips, issued, answered, requested, started, outcome>>
    BY <1>7, <2>2 DEF SendResult
  <2>4. result'[c] = s
    BY <1>2, <2>3 DEF Inv, TypeOK
  <2>5. toCore' = <<[kind |-> "RESULT", id |-> c, status |-> s]>>
    BY <2>2, <2>3, OneFrame
  <2>6. Returned(c)'
    BY <2>2, <2>3, <2>4, <2>5 DEF Returned, Open, ProcessAt
  <2>7. HistoryOK'
    <3>1. process.pc # "crashed"
      BY <1>7 DEF SendResult
    <3>2. c \in started
      BY <2>1 DEF Unfinished
    <3>3. ASSUME NEW d \in Ids
          PROVE  /\ outcome'[d] # None => process'.pc = "crashed" \/ outcome'[d] = result'[d]
                 /\ d \notin requested' => outcome'[d] = None
                 /\ d \notin started' => result'[d] = None
                 /\ answered'[d] \in {None, d}
      <4>1. CASE d = c
        BY <1>2, <2>3, <3>1, <3>2, <4>1 DEF Inv, TypeOK, HistoryOK
      <4>2. CASE d # c
        BY <2>3, <3>1, <4>2 DEF Inv, TypeOK, HistoryOK
      <4>. QED
        BY <4>1, <4>2
    <3>. QED
      BY <2>3, <3>3 DEF Inv, HistoryOK
  <2>. QED
    BY <1>2, <2>3, <2>6, <2>7 DEF InStep, OpenCall
<1>. QED
  BY <1>3, <1>4, <1>5, <1>6, <1>7 DEF ProcessReads, ReadLoop

\* The death of the process loses what was on its way to it; what it has written
\* can still be read.
LEMMA CrashInStep ==
    ASSUME Inv, Crash
    PROVE  InStep' /\ HistoryOK'
<1>1. /\ ProcessAt("crashed", 0, 0)'
      /\ process'.pc = "crashed"
      /\ toProcess' = <<>>
      /\ UNCHANGED <<toCore, roundtrips, issued, answered, requested, started, result, outcome>>
  BY DEF Crash, ProcessAt, history
<1>2. HistoryOK'
  BY <1>1 DEF Inv, HistoryOK
<1>3. CASE Quiet
  BY <1>1, <1>2, <1>3 DEF Quiet, Silent, InStep
<1>4. CASE ~Quiet
  <2>1. PICK c \in requested : OpenCall(c)
    BY <1>4 DEF Inv, InStep
  <2>2. CASE CallSent(c) \/ Lost(c) \/ (Unfinished(c) /\ Executing(c))
    <3>1. Lost(c)'
      BY <1>1, <2>2 DEF CallSent, Lost, Executing, Open, Silent
    <3>. QED
      BY <1>1, <1>2, <2>1, <3>1 DEF InStep, OpenCall
  <2>3. CASE Returned(c)
    <3>1. Returned(c)'
      BY <1>1, <2>3 DEF Returned, Open
    <3>. QED
      BY <1>1, <1>2, <2>1, <3>1 DEF InStep, OpenCall
  <2>4. CASE \E b \in 1 .. issued :
                 Unfinished(c) /\ (CallbackSent(c, b) \/ Nested(c, b) \/ Answered(c, b))
    <3>1. PICK b \in 1 .. issued :
                 Unfinished(c) /\ (CallbackSent(c, b) \/ Nested(c, b) \/ Answered(c, b))
      BY <2>4
    <3>2. CASE CallbackSent(c, b)
      <4>1. CallbackSent(c, b)' /\ Unfinished(c)'
        BY <1>1, <3>1, <3>2 DEF CallbackSent, Open, Unfinished
      <4>. QED
        BY <1>1, <1>2, <2>1, <4>1 DEF InStep, OpenCall
    <3>3. CASE Nested(c, b)
      <4>1. Nested(c, b)' /\ Unfinished(c)'
        BY <1>1, <3>1, <3>3 DEF Nested, Open, Silent, Unfinished
      <4>. QED
        BY <1>1, <1>2, <2>1, <4>1 DEF InStep, OpenCall
    <3>4. CASE Answered(c, b)
      <4>1. Lost(c)'
        BY <1>1, <3>4 DEF Answered, Lost, Open, Silent
      <4>. QED
        BY <1>1, <1>2, <2>1, <4>1 DEF InStep, OpenCall
    <3>. QED
      BY <3>1, <3>2, <3>3, <3>4
  <2>. QED
    BY <2>1, <2>2, <2>3, <2>4 DEF OpenCall
<1>. QED
  BY <1>3, <1>4

\* A step that changes nothing.
LEMMA StutterInStep ==
    ASSUME Inv, UNCHANGED vars
    PROVE  InStep' /\ HistoryOK'
<1>1. UNCHANGED <<toProcess, toCore, roundtrips, process, issued, answered, requested, started, result, outcome>>
  BY DEF vars, history
<1>2. HistoryOK'
  BY <1>1 DEF Inv, HistoryOK
<1>3. InStep'
  BY <1>1 DEF Inv, InStep, Quiet, OpenCall, CallSent, Returned, Lost, Unfinished, Executing,
              CallbackSent, Nested, Answered, Silent, Open, ProcessAt
<1>. QED
  BY <1>2, <1>3

\* Before the first call all is quiet.
LEMMA InvBegins ==
    ASSUME Init
    PROVE  Inv
<1>1. TypeOK
  BY IpcSessionAssumption DEF Init, TypeOK, Process
<1>2. InStep /\ HistoryOK
  BY DEF Init, InStep, Quiet, Silent, ProcessAt, HistoryOK
<1>. QED
  BY <1>1, <1>2 DEF Inv

\* Every step leads from phase to phase.
LEMMA InvStep ==
    ASSUME ~Reentry, Inv, [Next]_vars
    PROVE  Inv'
<1>1. TypeOK'
  BY CoreType, ProcessType, StutterType DEF Inv, Next, Rest
<1>2. CASE BeginCall
  BY <1>1, <1>2, BeginCallInStep DEF Inv
<1>3. CASE CoreReads \/ \E s \in Statuses : AnswerCallback(s)
  BY <1>1, <1>3, CoreInStep DEF Inv
<1>4. CASE ProcessReads \/ (\E target \in Targets : SendCallback(target))
                        \/ (\E s \in Statuses : SendResult(s))
  BY <1>1, <1>4, ProcessInStep DEF Inv
<1>5. CASE Crash
  BY <1>1, <1>5, CrashInStep DEF Inv
<1>6. CASE UNCHANGED vars
  BY <1>1, <1>6, StutterInStep DEF Inv
<1>. QED
  BY <1>2, <1>3, <1>4, <1>5, <1>6 DEF Next, Rest

\* As long as no callback leads back to the process, the core and the process
\* move in step: at every moment one phase of the open call (sent, executing,
\* calling back, answered, returned, lost) says where both ends and both
\* directions of the socket are (ipc_roundtrip and GluAdapter.run with
\* glucoreCall).
THEOREM SessionInStep == ~Reentry => (Spec => []Inv)
<1>. SUFFICES ASSUME ~Reentry
              PROVE  Spec => []Inv
  OBVIOUS
<1>1. Init => Inv
  BY InvBegins
<1>2. Inv /\ [Next]_vars => Inv'
  BY InvStep
<1>. QED
  BY <1>1, <1>2, PTL DEF Spec

\* As long as no callback leads back to the process, at most one frame is on its
\* way on the socket of ipc_roundtrip and GluAdapter.
THEOREM AtMostOneFrame == ~Reentry => (Spec => []OneFrameInFlight)
<1>1. ASSUME NEW q
      PROVE  (q = <<>> => Len(q) = 0) /\ ((\E frame : q = <<frame>>) => Len(q) = 1)
  OBVIOUS
<1>2. ASSUME NEW c \in requested, OpenCall(c)
      PROVE  \/ toProcess = <<>> /\ toCore = <<>>
             \/ (\E frame : toProcess = <<frame>>) /\ toCore = <<>>
             \/ toProcess = <<>> /\ \E frame : toCore = <<frame>>
  <2>1. CASE CallSent(c) \/ Returned(c) \/ Lost(c) \/ Executing(c)
    BY <2>1 DEF CallSent, Returned, Lost, Executing, Silent
  <2>2. CASE \E b \in 1 .. issued : CallbackSent(c, b) \/ Nested(c, b) \/ Answered(c, b)
    BY <2>2 DEF CallbackSent, Nested, Answered, Silent
  <2>. QED
    BY <1>2, <2>1, <2>2 DEF OpenCall
<1>3. ASSUME Inv
      PROVE  \/ Len(toProcess) = 0 /\ Len(toCore) = 0
             \/ Len(toProcess) = 1 /\ Len(toCore) = 0
             \/ Len(toProcess) = 0 /\ Len(toCore) = 1
  <2>1. CASE Quiet
    BY <1>1, <2>1 DEF Quiet, Silent
  <2>2. CASE \E c \in requested : OpenCall(c)
    <3>1. PICK c \in requested : OpenCall(c)
      BY <2>2
    <3>. QED
      BY <1>1, <1>2, <3>1
  <2>. QED
    BY <1>3, <2>1, <2>2 DEF Inv, InStep
<1>4. Inv => OneFrameInFlight
  <2>. SUFFICES ASSUME Inv
                PROVE  OneFrameInFlight
    OBVIOUS
  <2>1. CASE Len(toProcess) = 0 /\ Len(toCore) = 0
    <3>1. Len(toProcess) + Len(toCore) = 0 + 0
      BY <2>1
    <3>. QED
      BY <3>1 DEF OneFrameInFlight
  <2>2. CASE Len(toProcess) = 1 /\ Len(toCore) = 0
    <3>1. Len(toProcess) + Len(toCore) = 1 + 0
      BY <2>2
    <3>. QED
      BY <3>1 DEF OneFrameInFlight
  <2>3. CASE Len(toProcess) = 0 /\ Len(toCore) = 1
    <3>1. Len(toProcess) + Len(toCore) = 0 + 1
      BY <2>3
    <3>. QED
      BY <3>1 DEF OneFrameInFlight
  <2>. QED
    BY <1>3, <2>1, <2>2, <2>3
<1>. QED
  BY <1>4, SessionInStep, PTL

\* Answers and outcomes go to the exchange they belong to.
LEMMA RepliesAreOwn ==
    ASSUME Inv
    PROVE  AnswerIsOwn /\ OutcomeIsOwn
BY DEF Inv, HistoryOK, AnswerIsOwn, OutcomeIsOwn

\* As long as no callback leads back to the process, glucoreCall never takes
\* anything but the answer to its own callback for that answer.
THEOREM AnswersMatchCallbacks == ~Reentry => (Spec => []AnswerIsOwn)
<1>1. Inv => AnswerIsOwn
  BY RepliesAreOwn
<1>. QED
  BY <1>1, SessionInStep, PTL

\* As long as no callback leads back to the process, ipc_roundtrip returns what
\* the function executed for this very call ended with, unless the process died.
THEOREM OutcomesMatchCalls == ~Reentry => (Spec => []OutcomeIsOwn)
<1>1. Inv => OutcomeIsOwn
  BY RepliesAreOwn
<1>. QED
  BY <1>1, SessionInStep, PTL

\* As long as no callback leads back to the process, GluAdapter.run never leaves
\* its loop because of a frame it does not expect.
THEOREM SessionKeepsServing == ~Reentry => (Spec => []SessionSurvives)
<1>1. Inv => SessionSurvives
  <2>1. Quiet => SessionSurvives
    BY DEF Quiet, ProcessAt, SessionSurvives
  <2>2. ASSUME NEW c \in requested, OpenCall(c)
        PROVE  SessionSurvives
    BY <2>2 DEF OpenCall, CallSent, Returned, Lost, Executing, CallbackSent, Nested, Answered,
                ProcessAt, SessionSurvives
  <2>. QED
    BY <2>1, <2>2 DEF Inv, InStep
<1>. QED
  BY <1>1, SessionInStep, PTL

(* ------------------ the session implements RemoteCall -------------------- *)

\* The initial states of the session are initial states of the remote call.
LEMMA RemoteInit == ASSUME Init PROVE Remote!Init
  BY DEF Init, Remote!Init

\* The return of the innermost call is a return of the remote call: an Ok is what
\* the function ended with.
LEMMA RemoteReturn ==
    ASSUME NEW c \in requested, c \in Ids, outcome[c] = None, Current.id = c,
           NEW s \in Statuses, ReturnCall(s), s = "Ok" => result[c] = "Ok"
    PROVE  Remote!Next
<1>1. Remote!Return(c, s)
  BY DEF ReturnCall, Remote!Return
<1>. QED
  BY <1>1 DEF Remote!Next, Statuses

\* Every step of the session is a step of the remote call or changes nothing of
\* what it shows.
LEMMA RemoteStep ==
    ASSUME ~Reentry, Inv, [Next]_vars
    PROVE  Remote!Next \/ UNCHANGED history
<1>1. ASSUME NEW c \in requested, OpenCall(c)
      PROVE  c \in Ids /\ outcome[c] = None
  BY <1>1, PhaseOf
<1>2. CASE BeginCall
  <2>1. PICK id \in Ids : id = issued + 1
    BY <1>2, IpcSessionAssumption DEF Inv, TypeOK, BeginCall, Ids
  <2>2. id \notin requested
    BY <2>1 DEF Inv, TypeOK, HistoryOK
  <2>3. Remote!Request(id) \/ Remote!Refuse(id)
    BY <1>2, <2>1, <2>2 DEF BeginCall, Remote!Request, Remote!Refuse
  <2>. QED
    BY <2>3 DEF Remote!Next
<1>3. CASE ReadResult
  <2>1. PICK c \in requested : OpenCall(c)
    BY <1>3, SomeOpenCall DEF ReadResult, Reads
  <2>2. Returned(c)
    BY <1>3, <2>1, PhaseOf DEF ReadResult
  <2>3. Current.id = c /\ Head(toCore).status = result[c] /\ result[c] \in Statuses
    BY <2>2, OpenStack, OneFrame DEF Returned
  <2>. QED
    BY <1>1, <1>3, <2>1, <2>3, RemoteReturn DEF ReadResult
<1>4. CASE ReadEnd
  <2>1. PICK c \in requested : OpenCall(c)
    BY <1>4, SomeOpenCall DEF ReadEnd
  <2>2. Lost(c)
    BY <1>4, <2>1, PhaseOf DEF ReadEnd
  <2>3. Current.id = c
    BY <2>2, OpenStack DEF Lost
  <2>. QED
    BY <1>1, <1>4, <2>1, <2>3, RemoteReturn DEF ReadEnd, Statuses
<1>5. ASSUME NEW s \in Statuses, AnswerCallback(s)
      PROVE  Remote!Next \/ UNCHANGED history
  <2>1. PICK c \in requested : OpenCall(c)
    BY <1>5, SomeOpenCall DEF AnswerCallback
  <2>2. PICK b \in 1 .. issued : Nested(c, b)
    BY <1>5, <2>1, PhaseOf DEF AnswerCallback
  <2>3. Current.id = c
    BY <2>2, OpenStack DEF Nested
  <2>4. CASE ReturnCall("Runtime")
    BY <1>1, <2>1, <2>3, <2>4, RemoteReturn DEF Statuses
  <2>5. CASE UNCHANGED history
    BY <2>5
  <2>. QED
    BY <1>5, <2>4, <2>5 DEF AnswerCallback
<1>6. CASE TakeCall
  <2>1. PICK c \in requested : OpenCall(c)
    BY <1>6, SomeOpenCall DEF TakeCall, Takes
  <2>2. CallSent(c)
    BY <1>6, <2>1, PhaseOf DEF TakeCall, Takes
  <2>3. Head(toProcess).id = c /\ c \notin started
    BY <2>2, OneFrame DEF CallSent
  <2>4. Remote!Start(c)
    BY <1>6, <2>1, <2>3 DEF TakeCall, Remote!Start
  <2>. QED
    BY <1>1, <2>1, <2>4 DEF Remote!Next
<1>7. ASSUME NEW s \in Statuses, SendResult(s)
      PROVE  Remote!Next
  <2>1. PICK c \in requested : OpenCall(c)
    BY <1>7, SomeOpenCall DEF SendResult
  <2>2. Unfinished(c) /\ process.id = c
    BY <1>7, <2>1, PhaseOf DEF SendResult, Executing, ProcessAt
  <2>3. Remote!End(c, s)
    BY <1>7, <2>2 DEF SendResult, Unfinished, Remote!End
  <2>. QED
    BY <1>1, <2>1, <2>3 DEF Remote!Next, Statuses
<1>8. CASE RefuseCallback \/ DispatchCallback \/ LeaveLoop \/ TakeAnswer \/ Crash \/ UNCHANGED vars
           \/ \E target \in Targets : SendCallback(target)
  BY <1>8 DEF RefuseCallback, DispatchCallback, LeaveLoop, TakeAnswer, Crash, SendCallback, vars
<1>. QED
  BY <1>2, <1>3, <1>4, <1>5, <1>6, <1>7, <1>8 DEF Next, CoreReads, ProcessReads, ReadLoop, Rest

\* As long as no callback leads back to the process, a session (ipc_roundtrip and
\* GluAdapter) is a remote call: the function runs at most once for a call, and a
\* call returns Ok only if the function, run for this very call, did.
THEOREM ImplementsRemoteCall == ~Reentry => (Spec => RemoteCallSpec)
<1>. SUFFICES ASSUME ~Reentry
              PROVE  Spec => RemoteCallSpec
  OBVIOUS
<1>1. Init => Remote!Init
  BY RemoteInit
<1>2. Inv /\ [Next]_vars => [Remote!Next]_(Remote!vars)
  BY RemoteStep DEF Remote!vars, history
<1>3. Spec => []Inv
  BY SessionInStep
<1>. QED
  BY <1>1, <1>2, <1>3, PTL DEF Spec, RemoteCallSpec, Remote!Spec
===============================================================================
