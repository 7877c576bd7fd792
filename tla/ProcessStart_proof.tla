-------------------------- MODULE ProcessStart_proof --------------------------
(***************************************************************************)
(* Theorems about ProcessStart, for every number of attempts, with and     *)
(* without crashes.                                                        *)
(***************************************************************************)
EXTENDS ProcessStart, TLAPS

(* ------------------------------- the steps -------------------------------- *)

\* The current attempt ends without a module, with the code c: what is known of
\* its process then.  The connection may be closed with it.
Fails(c) ==
    /\ Fail(c)
    /\ closed' \subseteq closed \cup {attempt}
    /\ \/ c = -2 /\ pc = "spawn"
       \/ c = -3 /\ pc = "connect"
       \/ /\ c \in {-4, -5, -6, -7}
          /\ pc \in {"readLen", "readBody"}
          /\ AtEnd \/ accepted[Peer] = attempt

\* The process is started.
Starts ==
    /\ pc = "spawn"
    /\ stage' = [stage EXCEPT ![attempt] = "starting"]
    /\ pc' = "connect"
    /\ UNCHANGED <<attempt, path, code, peer, closed, socket, backlog, accepted, message>>

\* The length is there.
GoesOn ==
    /\ pc = "readLen"
    /\ pc' = "readBody"
    /\ UNCHANGED <<attempt, path, code, peer, closed, socket, processVars>>

\* The body is there.
Publishes ==
    /\ pc = "readBody"
    /\ accepted[Peer] = attempt
    /\ message[Peer] = "body"
    /\ Publish

\* The process binds the socket.
Binds(p) ==
    /\ stage[p] = "unlinked"
    /\ path = 0
    /\ path' = p
    /\ stage' = [stage EXCEPT ![p] = "listening"]
    /\ UNCHANGED <<coreVars, backlog, accepted, message>>

\* The process writes the length or the body.
Writes(p) ==
    /\ stage[p] = "registering"
    /\ \/ /\ message[p] = "none"
          /\ \E m \in {"len", "hugeLen"} : message' = [message EXCEPT ![p] = m]
          /\ stage' = stage
       \/ /\ message[p] = "hugeLen"
          /\ message' = message
          /\ stage' = [stage EXCEPT ![p] = "serving"]
       \/ /\ message[p] = "len"
          /\ \E m \in {"body", "badBody", "cutBody"} : message' = [message EXCEPT ![p] = m]
          /\ stage' = [stage EXCEPT ![p] = "serving"]
    /\ UNCHANGED <<coreVars, path, backlog, accepted>>

\* What a step does to the core ...
CoreDoes ==
    \/ RemoveStale
    \/ Starts
    \/ Connect
    \/ \E c \in Codes \ {0} : Fails(c)
    \/ GoesOn
    \/ Publishes
    \/ HostEnds

\* ... or to the process p.
ProcessDoes(p) ==
    \/ DeletePath(p)
    \/ Binds(p)
    \/ Accept(p)
    \/ Writes(p)
    \/ Alive(p) /\ End(p)

\* Type correctness; an attempt that runs has a number, and a process when the core
\* reads from one.
Running == {"spawn", "connect", "readLen", "readBody"}
TypeInv ==
    /\ TypeOK
    /\ pc \in Running => attempt \in Attempts
    /\ pc \in {"readLen", "readBody"} => Peer \in Attempts

\* Every step is one of these or changes nothing.
LEMMA Steps ==
    ASSUME TypeInv, [Next]_vars
    PROVE  CoreDoes \/ (\E p \in Attempts : ProcessDoes(p)) \/ UNCHANGED vars
<1>1. CASE RemoveStale
  BY <1>1 DEF CoreDoes
<1>2. CASE Spawn
  <2>1. CASE Starts
    BY <2>1 DEF CoreDoes
  <2>2. CASE pc = "spawn" /\ Fail(-2) /\ UNCHANGED closed
    BY <2>2 DEF CoreDoes, Fails, Codes
  <2>. QED
    BY <1>2, <2>1, <2>2 DEF Spawn, Starts
<1>3. CASE Connect
  BY <1>3 DEF CoreDoes
<1>4. CASE ConnectTimesOut
  BY <1>4 DEF ConnectTimesOut, GivesUp, CoreDoes, Fails, Codes
<1>5. CASE ReadLen
  <2>1. CASE GoesOn
    BY <2>1 DEF CoreDoes
  <2>2. CASE Received = "hugeLen" /\ Fail(-5) /\ UNCHANGED closed
    <3>1. accepted[Peer] = attempt
      BY <2>2 DEF Received
    <3>2. Fails(-5)
      BY <1>5, <2>2, <3>1 DEF Fails, ReadLen
    <3>. QED
      BY <3>2 DEF CoreDoes, Codes
  <2>3. CASE Received = "none" /\ AtEnd /\ Fail(-4) /\ closed' = closed \cup {attempt}
    <3>1. Fails(-4)
      BY <1>5, <2>3 DEF Fails, ReadLen
    <3>. QED
      BY <3>1 DEF CoreDoes, Codes
  <2>. QED
    BY <1>5, <2>1, <2>2, <2>3 DEF ReadLen, GoesOn
<1>6. CASE ReadBody
  <2>1. CASE Received = "body" /\ Publish
    BY <1>6, <2>1 DEF CoreDoes, Publishes, ReadBody, Received
  <2>2. CASE Received = "badBody" /\ Fail(-7) /\ UNCHANGED closed
    <3>1. accepted[Peer] = attempt
      BY <2>2 DEF Received
    <3>2. Fails(-7)
      BY <1>6, <2>2, <3>1 DEF Fails, ReadBody
    <3>. QED
      BY <3>2 DEF CoreDoes, Codes
  <2>3. CASE Received = "cutBody" /\ HostEnds
    BY <2>3 DEF CoreDoes
  <2>4. CASE Received = "len" /\ AtEnd /\ Fail(-6) /\ closed' = closed \cup {attempt}
    <3>1. Fails(-6)
      BY <1>6, <2>4 DEF Fails, ReadBody
    <3>. QED
      BY <3>1 DEF CoreDoes, Codes
  <2>. QED
    BY <1>6, <2>1, <2>2, <2>3, <2>4 DEF ReadBody
<1>7. CASE HostExits
  BY <1>7 DEF HostExits, CoreDoes
<1>8. ASSUME NEW p \in Attempts, ProcessStep(p) \/ Crash(p)
      PROVE  ProcessDoes(p)
  <2>1. CASE DeletePath(p)
    BY <2>1 DEF ProcessDoes
  <2>2. CASE Bind(p)
    BY <2>2 DEF ProcessDoes, Bind, Binds, Alive
  <2>3. CASE Accept(p)
    BY <2>3 DEF ProcessDoes
  <2>4. CASE Register(p)
    <3>1. CASE accepted[p] \in closed /\ End(p)
      BY <2>4, <3>1 DEF Register, ProcessDoes, Alive
    <3>2. CASE accepted[p] \notin closed
      BY <2>4, <3>2 DEF Register, Writes, ProcessDoes
    <3>. QED
      BY <2>4, <3>1, <3>2 DEF Register
  <2>5. CASE ServeUntilEnd(p)
    BY <2>5 DEF ServeUntilEnd, ProcessDoes, Alive
  <2>6. CASE Crash(p)
    BY <2>6 DEF Crash, ProcessDoes
  <2>. QED
    BY <1>8, <2>1, <2>2, <2>3, <2>4, <2>5, <2>6 DEF ProcessStep
<1>9. CASE Rest \/ UNCHANGED vars
  BY <1>9 DEF Rest
<1>. QED
  BY <1>1, <1>2, <1>3, <1>4, <1>5, <1>6, <1>7, <1>8, <1>9 DEF Next, CoreStep

(* ---------------------------- type correctness ---------------------------- *)

\* The types hold at the start and are kept by every step.
LEMMA Typed == Spec => []TypeInv
<1>1. Init => TypeInv
  BY ProcessStartAssumption
     DEF Init, TypeInv, TypeOK, CorePcs, Codes, Stages, Messages, Attempts, Running
<1>2. TypeInv /\ [Next]_vars => TypeInv'
  <2>. SUFFICES ASSUME TypeInv, [Next]_vars
                PROVE  TypeInv'
    OBVIOUS
  <2>. USE ProcessStartAssumption DEF TypeInv, TypeOK, Peer, Running
  <2>1. CASE RemoveStale
    BY <2>1 DEF RemoveStale, Begin, processVars, CorePcs, Attempts
  <2>2. CASE Starts
    <3>1. stage' \in [Attempts -> Stages]
      BY <2>2 DEF Starts, Stages
    <3>. QED
      BY <2>2, <3>1 DEF Starts, CorePcs
  <2>3. CASE Connect
    <3>1. path \in Attempts
      BY <2>3 DEF Connect, Listening, Attempts
    <3>2. backlog' \in [Attempts -> Seq(Attempts)]
      <4>1. Append(backlog[path], attempt) \in Seq(Attempts)
        BY <2>3, <3>1 DEF Connect
      <4>. QED
        BY <2>3, <4>1 DEF Connect
    <3>. QED
      BY <2>3, <3>1, <3>2 DEF Connect, CorePcs, Attempts
  <2>4. ASSUME NEW c \in Codes \ {0}, Fails(c)
        PROVE  TypeInv'
    <3>1. closed' \subseteq Attempts
      BY <2>4 DEF Fails
    <3>. QED
      BY <2>4, <3>1 DEF Fails, Fail, processVars, CorePcs
  <2>5. CASE GoesOn
    BY <2>5 DEF GoesOn, processVars, CorePcs
  <2>6. CASE Publishes
    BY <2>6 DEF Publishes, Publish, processVars, CorePcs, Codes
  <2>7. CASE HostEnds
    BY <2>7 DEF HostEnds, processVars, CorePcs
  <2>8. ASSUME NEW p \in Attempts, ProcessDoes(p)
        PROVE  TypeInv'
    <3>1. /\ UNCHANGED coreVars
          /\ path' \in {path, 0, p}
          /\ stage' \in [Attempts -> Stages]
          /\ message' \in [Attempts -> Messages]
      BY <2>8 DEF ProcessDoes, DeletePath, Binds, Accept, Writes, End, coreVars, Stages, Messages
    <3>2. /\ backlog' \in [Attempts -> Seq(Attempts)]
          /\ accepted' \in [Attempts -> 0 .. MaxAttempts]
      <4>1. CASE Accept(p)
        <5>1. /\ Head(backlog[p]) \in Attempts
              /\ Tail(backlog[p]) \in Seq(Attempts)
          BY <4>1 DEF Accept
        <5>2. Head(backlog[p]) \in 0 .. MaxAttempts
          BY <5>1 DEF Attempts
        <5>. QED
          BY <4>1, <5>1, <5>2 DEF Accept
      <4>2. CASE UNCHANGED <<backlog, accepted>>
        BY <4>2
      <4>. QED
        BY <2>8, <4>1, <4>2 DEF ProcessDoes, DeletePath, Binds, Writes, End
    <3>3. path' \in 0 .. MaxAttempts
      BY <3>1 DEF Attempts
    <3>. QED
      BY <3>1, <3>2, <3>3 DEF coreVars
  <2>9. CASE UNCHANGED vars
    BY <2>9 DEF vars, coreVars, processVars
  <2>. QED
    BY <2>1, <2>2, <2>3, <2>4, <2>5, <2>6, <2>7, <2>8, <2>9, Steps DEF CoreDoes
<1>. QED
  BY <1>1, <1>2, PTL DEF Spec

\* Every variable keeps its type.
THEOREM TypeCorrect == Spec => []TypeOK
<1>1. TypeInv => TypeOK
  BY DEF TypeInv
<1>. QED
  BY <1>1, Typed, PTL

(* ------------------------------- attempts --------------------------------- *)

\* What an attempt has done so far: the ones before the current one have returned,
\* the ones after it have done nothing, and the current one has what its place in
\* the code says.
Attempted ==
    /\ \A a \in Attempts :
        /\ a < attempt => code[a] # Pending
        /\ a > attempt => code[a] = Pending /\ peer[a] = 0 /\ stage[a] = "unborn"
    /\ pc \in Running => code[attempt] = Pending
    /\ pc = "idle" /\ attempt # 0 => code[attempt] # Pending
    /\ pc = "spawn" => stage[attempt] = "unborn"
    /\ pc \in {"spawn", "connect"} => peer[attempt] = 0

\* Every step keeps it.
LEMMA AttemptStep ==
    ASSUME TypeInv, Attempted, [Next]_vars
    PROVE  Attempted'
<1>. USE ProcessStartAssumption DEF TypeInv, TypeOK, Attempted, Attempts, Running, Pending
<1>1. CASE RemoveStale
  BY <1>1 DEF RemoveStale, Begin, processVars
<1>2. CASE Starts
  BY <1>2 DEF Starts
<1>3. CASE Connect
  BY <1>3 DEF Connect
<1>4. ASSUME NEW c \in Codes \ {0}, Fails(c)
      PROVE  Attempted'
  <2>1. c # Pending /\ pc \in Running
    BY <1>4 DEF Codes, Fails
  <2>. QED
    BY <1>4, <2>1 DEF Fails, Fail, processVars
<1>5. CASE GoesOn
  BY <1>5 DEF GoesOn, processVars
<1>6. CASE Publishes
  BY <1>6 DEF Publishes, Publish, processVars
<1>7. CASE HostEnds
  BY <1>7 DEF HostEnds, processVars
<1>8. ASSUME NEW p \in Attempts, ProcessDoes(p)
      PROVE  Attempted'
  <2>1. /\ UNCHANGED coreVars
        /\ stage[p] # "unborn"
        /\ \A q \in Attempts : q # p => stage'[q] = stage[q]
    BY <1>8 DEF ProcessDoes, DeletePath, Binds, Accept, Writes, End, coreVars, Alive
  <2>. QED
    BY <2>1 DEF coreVars
<1>9. CASE UNCHANGED vars
  BY <1>9 DEF vars, coreVars, processVars
<1>. QED
  BY <1>1, <1>2, <1>3, <1>4, <1>5, <1>6, <1>7, <1>8, <1>9, Steps DEF CoreDoes

(* ------------------------------ connections ------------------------------- *)

\* Nobody has connected to the process p.
Unconnected(p) ==
    /\ backlog[p] = <<>>
    /\ accepted[p] = 0
    /\ \A a \in Attempts : peer[a] # p

\* Attempt a has connected to the process p, and no other attempt has.
ConnectedTo(p, a) ==
    /\ \A b \in Attempts : peer[b] = p <=> b = a
    /\ \/ backlog[p] = <<a>> /\ accepted[p] = 0
       \/ backlog[p] = <<>> /\ accepted[p] = a

\* At most one attempt ever connects to a process.
Connected ==
    \A p \in Attempts : Unconnected(p) \/ \E a \in Attempts : ConnectedTo(p, a)

\* What the stage of a process says about its connection and what it has written.
Staged ==
    \A p \in Attempts :
        /\ stage[p] \in {"unborn", "starting", "unlinked"} => Unconnected(p)
        /\ stage[p] = "listening" => accepted[p] = 0
        /\ stage[p] \in {"registering", "serving"} => accepted[p] # 0
        /\ accepted[p] = 0 => message[p] = "none"
        /\ stage[p] = "registering" => message[p] \in {"none", "len", "hugeLen"}
        /\ message[p] \in {"body", "badBody", "cutBody"} => stage[p] \in {"serving", "ended"}

\* The socket file leads to a process that has bound it; to one that nobody has
\* connected to as long as the attempt has not: the file is no older than the attempt.
Fresh ==
    path # 0 =>
        /\ stage[path] \notin {"unborn", "starting", "unlinked"}
        /\ pc \in {"spawn", "connect"} => Unconnected(path)

\* The processes of the modules that are registered.
Served ==
    \A a \in Attempts : code[a] = 0 =>
        /\ peer[a] \in Attempts
        /\ accepted[peer[a]] = a
        /\ message[peer[a]] = "body"

ConnectInv == Attempted /\ Connected /\ Staged /\ Fresh /\ Served

\* Every step of the core keeps it.
LEMMA CoreConnects ==
    ASSUME TypeInv, ConnectInv, CoreDoes
    PROVE  Connected' /\ Staged' /\ Fresh' /\ Served'
<1>. USE ProcessStartAssumption DEF TypeInv, ConnectInv
<1>1. CASE Connect
  <2>1. /\ path \in Attempts
        /\ attempt \in Attempts
        /\ Unconnected(path)
        /\ stage[path] \in {"listening", "registering", "serving"}
        /\ pc' = "readLen"
        /\ UNCHANGED <<attempt, path, code, stage, accepted, message>>
    BY <1>1 DEF Connect, Listening, Fresh, TypeOK, Attempts, Running
  <2>2. /\ peer' = [peer EXCEPT ![attempt] = path]
        /\ peer[attempt] = 0
        /\ code[attempt] = Pending
    BY <1>1 DEF Connect, Attempted, Running
  <2>3. /\ backlog'[path] = <<attempt>>
        /\ \A q \in Attempts \ {path} : backlog'[q] = backlog[q]
    BY <1>1, <2>1 DEF Connect, Unconnected, TypeOK
  <2>4. ConnectedTo(path, attempt)'
    BY <2>1, <2>2, <2>3 DEF ConnectedTo, Unconnected, TypeOK
  <2>5. ASSUME NEW q \in Attempts \ {path}
        PROVE  /\ Unconnected(q) => Unconnected(q)'
               /\ \A a \in Attempts : ConnectedTo(q, a) => ConnectedTo(q, a)'
    <3>1. /\ backlog'[q] = backlog[q] /\ accepted'[q] = accepted[q]
          /\ \A b \in Attempts : peer'[b] = q <=> peer[b] = q
      BY <2>1, <2>2, <2>3 DEF TypeOK, Attempts
    <3>. QED
      BY <3>1 DEF Unconnected, ConnectedTo
  <2>6. Connected'
    BY <2>1, <2>4, <2>5 DEF Connected
  <2>7. Staged'
    BY <2>1, <2>5 DEF Staged
  <2>8. Fresh'
    BY <2>1 DEF Fresh
  <2>9. Served'
    BY <2>1, <2>2 DEF Served, Pending, TypeOK
  <2>. QED
    BY <2>6, <2>7, <2>8, <2>9
<1>2. CASE Publishes
  <2>1. UNCHANGED <<attempt, path, peer, processVars>> /\ pc' = "idle"
    BY <1>2 DEF Publishes, Publish
  <2>2. /\ code' = [code EXCEPT ![attempt] = 0]
        /\ attempt \in Attempts /\ peer[attempt] \in Attempts
        /\ accepted[peer[attempt]] = attempt /\ message[peer[attempt]] = "body"
    BY <1>2 DEF Publishes, Publish, Peer, Running
  <2>3. Connected' /\ Staged' /\ Fresh'
    BY <2>1 DEF Connected, Staged, Fresh, Unconnected, ConnectedTo, processVars
  <2>4. Served'
    BY <2>1, <2>2 DEF Served, processVars, TypeOK
  <2>. QED
    BY <2>3, <2>4
<1>3. CASE Starts
  <2>1. attempt \in Attempts /\ stage[attempt] = "unborn" /\ attempt # path
    <3>1. attempt \in Attempts /\ attempt # 0 /\ stage[attempt] = "unborn"
      BY <1>3 DEF Starts, Attempted, Running, Attempts
    <3>. QED
      BY <3>1 DEF Fresh
  <2>2. Unconnected(attempt)
    BY <2>1 DEF Staged
  <2>3. /\ stage' = [stage EXCEPT ![attempt] = "starting"]
        /\ pc = "spawn"
        /\ UNCHANGED <<path, code, peer, backlog, accepted, message>>
    BY <1>3 DEF Starts
  <2>4. /\ \A p \in Attempts : Unconnected(p)' <=> Unconnected(p)
        /\ \A p, a \in Attempts : ConnectedTo(p, a)' <=> ConnectedTo(p, a)
    BY <2>3 DEF Unconnected, ConnectedTo
  <2>5. Connected' /\ Served'
    BY <2>3, <2>4 DEF Connected, Served
  <2>6. Staged'
    BY <2>1, <2>2, <2>3, <2>4 DEF Staged, TypeOK
  <2>7. Fresh'
    BY <2>1, <2>3, <2>4 DEF Fresh, TypeOK, Attempts
  <2>. QED
    BY <2>5, <2>6, <2>7
<1>4. CASE RemoveStale \/ (\E c \in Codes \ {0} : Fails(c)) \/ GoesOn \/ HostEnds
  <2>1. /\ UNCHANGED <<peer, processVars>>
        /\ path' = 0 \/ (path' = path /\ pc' \notin {"spawn", "connect"})
        /\ \A a \in Attempts : code'[a] = 0 => code[a] = 0
    BY <1>4 DEF RemoveStale, Begin, Fails, Fail, GoesOn, HostEnds, TypeOK
  <2>2. Connected' /\ Staged' /\ Served'
    BY <2>1 DEF Connected, Staged, Served, Unconnected, ConnectedTo, processVars
  <2>3. Fresh'
    BY <2>1 DEF Fresh, processVars
  <2>. QED
    BY <2>2, <2>3
<1>. QED
  BY <1>1, <1>2, <1>3, <1>4 DEF CoreDoes

\* Every step of a process keeps it.
LEMMA ProcessConnects ==
    ASSUME TypeInv, ConnectInv, NEW p \in Attempts, ProcessDoes(p)
    PROVE  Connected' /\ Staged' /\ Fresh' /\ Served'
<1>. USE ProcessStartAssumption DEF TypeInv, ConnectInv
<1>1. CASE Accept(p)
  <2>1. PICK a \in Attempts : ConnectedTo(p, a)
    BY <1>1 DEF Connected, Accept, Unconnected
  <2>2. backlog[p] = <<a>> /\ accepted[p] = 0
    BY <1>1, <2>1 DEF Accept, ConnectedTo
  <2>3. /\ accepted' = [accepted EXCEPT ![p] = a]
        /\ backlog' = [backlog EXCEPT ![p] = <<>>]
        /\ stage' = [stage EXCEPT ![p] = "registering"]
        /\ UNCHANGED <<coreVars, path, message>>
    <3>1. Head(backlog[p]) = a /\ Tail(backlog[p]) = <<>>
      BY <2>2
    <3>. QED
      BY <1>1, <3>1 DEF Accept
  <2>4. ConnectedTo(p, a)'
    BY <2>1, <2>3 DEF ConnectedTo, TypeOK, coreVars
  <2>5. ASSUME NEW q \in Attempts \ {p}
        PROVE  /\ Unconnected(q) <=> Unconnected(q)'
               /\ \A b \in Attempts : ConnectedTo(q, b) => ConnectedTo(q, b)'
    BY <2>3 DEF Unconnected, ConnectedTo, TypeOK, coreVars
  <2>6. Connected'
    BY <2>4, <2>5 DEF Connected
  <2>7. message[p] = "none"
    BY <2>2 DEF Staged
  <2>8. Staged'
    <3>. SUFFICES ASSUME NEW q \in Attempts
                  PROVE  (/\ stage[q] \in {"unborn", "starting", "unlinked"} => Unconnected(q)
                          /\ stage[q] = "listening" => accepted[q] = 0
                          /\ stage[q] \in {"registering", "serving"} => accepted[q] # 0
                          /\ accepted[q] = 0 => message[q] = "none"
                          /\ stage[q] = "registering" => message[q] \in {"none", "len", "hugeLen"}
                          /\ message[q] \in {"body", "badBody", "cutBody"}
                                 => stage[q] \in {"serving", "ended"})'
      BY DEF Staged
    <3>1. CASE q = p
      BY <2>3, <2>7, <3>1 DEF TypeOK, Attempts
    <3>2. CASE q # p
      BY <2>3, <2>5, <3>2 DEF TypeOK, Staged
    <3>. QED
      BY <3>1, <3>2
  <2>9. Fresh'
    <3>1. path # p \/ pc \notin {"spawn", "connect"}
      <4>1. peer[a] = p /\ p # 0
        BY <2>1 DEF ConnectedTo, Attempts
      <4>. QED
        BY <4>1 DEF Fresh, Unconnected
    <3>2. path # 0 => path \in Attempts
      BY DEF TypeOK, Attempts
    <3>. QED
      BY <2>3, <2>5, <3>1, <3>2 DEF Fresh, TypeOK, coreVars
  <2>10. Served'
    BY <2>2, <2>3 DEF Served, TypeOK, coreVars, Attempts
  <2>. QED
    BY <2>6, <2>8, <2>9, <2>10
<1>2. CASE DeletePath(p) \/ Binds(p) \/ Writes(p) \/ (Alive(p) /\ End(p))
  <2>1. UNCHANGED <<coreVars, backlog, accepted>>
    BY <1>2 DEF DeletePath, Binds, Writes, End
  <2>2. /\ \A q \in Attempts : Unconnected(q)' <=> Unconnected(q)
        /\ \A q, a \in Attempts : ConnectedTo(q, a)' <=> ConnectedTo(q, a)
    BY <2>1 DEF Unconnected, ConnectedTo, coreVars
  <2>3. Connected'
    BY <2>2 DEF Connected
  <2>4. \A q \in Attempts \ {p} : stage'[q] = stage[q] /\ message'[q] = message[q]
    BY <1>2 DEF DeletePath, Binds, Writes, End, TypeOK
  <2>5. (/\ stage[p] \in {"unborn", "starting", "unlinked"} => Unconnected(p)
         /\ stage[p] = "listening" => accepted[p] = 0
         /\ stage[p] \in {"registering", "serving"} => accepted[p] # 0
         /\ accepted[p] = 0 => message[p] = "none"
         /\ stage[p] = "registering" => message[p] \in {"none", "len", "hugeLen"}
         /\ message[p] \in {"body", "badBody", "cutBody"} => stage[p] \in {"serving", "ended"})'
    <3>1. CASE DeletePath(p)
      BY <2>1, <2>2, <3>1 DEF Staged, DeletePath, TypeOK
    <3>2. CASE Binds(p)
      BY <2>1, <2>2, <3>2 DEF Staged, Binds, TypeOK, Unconnected
    <3>3. CASE Writes(p)
      BY <2>1, <2>2, <3>3 DEF Staged, Writes, TypeOK
    <3>4. CASE Alive(p) /\ End(p)
      BY <2>1, <2>2, <3>4 DEF Staged, End, TypeOK
    <3>. QED
      BY <1>2, <3>1, <3>2, <3>3, <3>4
  <2>6. Staged'
    BY <2>1, <2>2, <2>4, <2>5 DEF Staged
  <2>7. path' # 0 => path' \in Attempts
    BY <1>2 DEF DeletePath, Binds, Writes, End, TypeOK, Attempts
  <2>8. Fresh'
    <3>1. CASE DeletePath(p)
      BY <3>1 DEF DeletePath, Fresh
    <3>2. CASE Binds(p)
      BY <2>1, <2>2, <3>2 DEF Binds, Fresh, Staged, TypeOK, coreVars
    <3>3. CASE path' = path /\ stage'[p] \notin {"unborn", "starting", "unlinked"}
      BY <2>1, <2>2, <2>4, <2>7, <3>3 DEF Fresh, coreVars
    <3>4. Writes(p) \/ End(p) => path' = path /\ stage'[p] \notin {"unborn", "starting", "unlinked"}
      BY DEF Writes, End, TypeOK
    <3>. QED
      BY <1>2, <3>1, <3>2, <3>3, <3>4
  <2>9. message[p] = "body" => message'[p] = "body"
    BY <1>2 DEF DeletePath, Binds, Writes, End, TypeOK
  <2>10. Served'
    BY <2>1, <2>4, <2>9 DEF Served, coreVars
  <2>. QED
    BY <2>3, <2>6, <2>8, <2>10
<1>. QED
  BY <1>1, <1>2 DEF ProcessDoes

\* The connections hold at the start and are kept by every step.
LEMMA ConnectionsHold == Spec => []ConnectInv
<1>1. Init => ConnectInv
  BY ProcessStartAssumption
     DEF Init, ConnectInv, Attempted, Connected, Staged, Fresh, Served, Unconnected,
         Attempts, Pending, Running
<1>2. TypeInv /\ ConnectInv /\ [Next]_vars => ConnectInv'
  <2>. SUFFICES ASSUME TypeInv, ConnectInv, [Next]_vars
                PROVE  ConnectInv'
    OBVIOUS
  <2>1. Attempted'
    BY AttemptStep DEF ConnectInv
  <2>2. Connected' /\ Staged' /\ Fresh' /\ Served'
    <3>1. CASE UNCHANGED vars
      BY <3>1
         DEF vars, coreVars, processVars, ConnectInv, Connected, Staged, Fresh, Served,
             Unconnected, ConnectedTo
    <3>. QED
      BY <3>1, Steps, CoreConnects, ProcessConnects
  <2>. QED
    BY <2>1, <2>2 DEF ConnectInv
<1>. QED
  BY <1>1, <1>2, Typed, PTL DEF Spec

\* Nobody connects to a process that is taken, however the attempts, the processes
\* that are late and the deletions of the socket file interleave.
THEOREM ProcessesAreFree == Spec => []PeerIsFree
<1>1. TypeInv /\ ConnectInv => PeerIsFree
  <2>. SUFFICES ASSUME TypeInv, ConnectInv, NEW p \in Attempts
                PROVE  Len(backlog[p]) + (IF accepted[p] = 0 THEN 0 ELSE 1) <= 1
    BY DEF PeerIsFree
  <2>1. CASE backlog[p] = <<>>
    <3>1. Len(backlog[p]) = 0
      BY <2>1
    <3>. QED
      BY <3>1
  <2>2. CASE \E a \in Attempts : backlog[p] = <<a>> /\ accepted[p] = 0
    <3>1. Len(backlog[p]) = 1 /\ accepted[p] = 0
      BY <2>2
    <3>. QED
      BY <3>1
  <2>. QED
    BY <2>1, <2>2 DEF ConnectInv, Connected, Unconnected, ConnectedTo
<1>. QED
  BY <1>1, Typed, ConnectionsHold, PTL

\* The socket of a module leads to the process that registered it.
THEOREM SocketsAreServed == Spec => []PublishedIsServed
<1>1. ConnectInv => PublishedIsServed
  BY DEF ConnectInv, Served, Staged, PublishedIsServed
<1>. QED
  BY <1>1, ConnectionsHold, PTL

(* ------------------------- processes left behind -------------------------- *)

\* As long as no attempt timed out: the socket file is the one of the current
\* attempt's process, attempts have connected to their own processes only, and the
\* processes of attempts that returned are connected or ended.
NoTimeOut == \A a \in Attempts : code[a] # -3
Own ==
    NoTimeOut =>
        /\ path \in {0, attempt}
        /\ \A a \in Attempts : peer[a] \in {0, a}
        /\ \A p \in Attempts : code[p] # Pending /\ Alive(p) => accepted[p] = p

\* Every step keeps it.
LEMMA OwnStep ==
    ASSUME TypeInv, ConnectInv, Own, [Next]_vars
    PROVE  Own'
<1>. SUFFICES ASSUME NoTimeOut'
              PROVE  (/\ path \in {0, attempt}
                      /\ \A a \in Attempts : peer[a] \in {0, a}
                      /\ \A p \in Attempts : code[p] # Pending /\ Alive(p) => accepted[p] = p)'
  BY DEF Own
<1>. USE ProcessStartAssumption DEF TypeInv, TypeOK
<1>1. ASSUME NEW a \in Attempts, code[a] # Pending
      PROVE  code'[a] = code[a]
  <2>1. attempt = a => pc \notin Running
    BY <1>1 DEF ConnectInv, Attempted
  <2>. QED
    BY <1>1, <2>1, Steps
       DEF CoreDoes, ProcessDoes, RemoveStale, Begin, Starts, Connect, Fails, Fail, GoesOn,
           Publishes, Publish, HostEnds, DeletePath, Binds, Accept, Writes, End, vars,
           coreVars, Running
<1>2. NoTimeOut
  <2>. SUFFICES ASSUME NEW a \in Attempts, code[a] = -3
                PROVE  FALSE
    BY DEF NoTimeOut
  <2>1. code'[a] = -3
    BY <1>1 DEF Pending
  <2>. QED
    BY <2>1 DEF NoTimeOut
<1>3. /\ path \in {0, attempt}
      /\ \A a \in Attempts : peer[a] \in {0, a}
      /\ \A p \in Attempts : code[p] # Pending /\ Alive(p) => accepted[p] = p
  BY <1>2 DEF Own
<1>4. CASE RemoveStale
  BY <1>3, <1>4 DEF RemoveStale, Begin, processVars, Alive
<1>5. CASE Starts
  <2>1. code[attempt] = Pending
    BY <1>5 DEF Starts, ConnectInv, Attempted, Running
  <2>. QED
    BY <1>3, <1>5, <2>1 DEF Starts, Alive
<1>6. CASE Connect
  BY <1>3, <1>6 DEF Connect, Listening, Alive, Attempts
<1>7. ASSUME NEW c \in Codes \ {0}, Fails(c)
      PROVE  (/\ path \in {0, attempt}
              /\ \A a \in Attempts : peer[a] \in {0, a}
              /\ \A p \in Attempts : code[p] # Pending /\ Alive(p) => accepted[p] = p)'
  <2>1. /\ attempt \in Attempts
        /\ UNCHANGED <<attempt, path, peer, processVars>>
        /\ code' = [code EXCEPT ![attempt] = c]
    BY <1>7 DEF Fails, Fail, Running
  <2>2. c # -3
    BY <2>1 DEF NoTimeOut
  <2>3. CASE pc = "spawn"
    <3>1. ~Alive(attempt)
      BY <2>3 DEF ConnectInv, Attempted, Alive
    <3>. QED
      BY <1>3, <2>1, <3>1 DEF Alive, processVars
  <2>4. CASE pc \in {"readLen", "readBody"} /\ (AtEnd \/ accepted[Peer] = attempt)
    <3>1. Peer = attempt
      BY <1>3, <2>1, <2>4 DEF Peer, Attempts
    <3>2. Alive(attempt) => accepted[attempt] = attempt
      BY <2>4, <3>1 DEF AtEnd, Alive
    <3>. QED
      BY <1>3, <2>1, <3>2 DEF Alive, processVars
  <2>. QED
    BY <1>7, <2>2, <2>3, <2>4 DEF Fails
<1>8. CASE GoesOn
  BY <1>3, <1>8 DEF GoesOn, processVars, Alive
<1>9. CASE Publishes
  <2>1. attempt \in Attempts /\ Peer = attempt /\ accepted[attempt] = attempt
    BY <1>3, <1>9 DEF Publishes, Peer, Attempts, Running
  <2>. QED
    BY <1>3, <1>9, <2>1 DEF Publishes, Publish, processVars, Alive
<1>10. CASE HostEnds
  BY <1>3, <1>10 DEF HostEnds, processVars, Alive
<1>11. ASSUME NEW p \in Attempts, ProcessDoes(p)
       PROVE  (/\ path \in {0, attempt}
               /\ \A a \in Attempts : peer[a] \in {0, a}
               /\ \A q \in Attempts : code[q] # Pending /\ Alive(q) => accepted[q] = q)'
  <2>1. UNCHANGED coreVars /\ Alive(p)
    BY <1>11 DEF ProcessDoes, DeletePath, Binds, Accept, Writes, End, coreVars, Alive
  <2>2. \A q \in Attempts \ {p} : stage'[q] = stage[q] /\ accepted'[q] = accepted[q]
    BY <1>11 DEF ProcessDoes, DeletePath, Binds, Accept, Writes, End
  <2>3. CASE code[p] # Pending
    <3>1. accepted[p] = p /\ accepted[p] # 0
      BY <1>3, <2>1, <2>3 DEF Attempts
    <3>2. stage[p] \notin {"starting", "unlinked", "listening"}
      BY <3>1 DEF ConnectInv, Staged, Unconnected
    <3>3. accepted'[p] = p /\ path' = path
      BY <1>11, <3>1, <3>2 DEF ProcessDoes, DeletePath, Binds, Accept, Writes, End
    <3>. QED
      BY <1>3, <2>1, <2>2, <3>3 DEF coreVars, Alive
  <2>4. CASE code[p] = Pending
    <3>1. p = attempt
      <4>1. ~(p < attempt) /\ ~(p > attempt)
        BY <2>1, <2>4 DEF ConnectInv, Attempted, Alive
      <4>. QED
        BY <4>1 DEF Attempts
    <3>2. path' \in {0, attempt}
      BY <1>3, <1>11, <3>1 DEF ProcessDoes, DeletePath, Binds, Accept, Writes, End
    <3>. QED
      BY <1>3, <2>1, <2>2, <2>4, <3>2 DEF coreVars, Alive
  <2>. QED
    BY <2>3, <2>4
<1>12. CASE UNCHANGED vars
  BY <1>3, <1>12 DEF vars, coreVars, processVars, Alive
<1>. QED
  BY <1>4, <1>5, <1>6, <1>7, <1>8, <1>9, <1>10, <1>11, <1>12, Steps DEF CoreDoes

\* Only an attempt that timed out leaves a process behind.
THEOREM NobodyLeftBehind == Spec => []NoneLeftBehind
<1>1. Init => Own
  BY DEF Init, Own, Alive
<1>2. TypeInv /\ ConnectInv /\ Own /\ [Next]_vars => Own'
  BY OwnStep
<1>3. Own => NoneLeftBehind
  BY DEF Own, NoTimeOut, NoneLeftBehind
<1>. QED
  BY <1>1, <1>2, <1>3, Typed, ConnectionsHold, PTL DEF Spec
===============================================================================
