----------------------------- MODULE ProcessStart -----------------------------
(***************************************************************************)
(* How a PROCESS module is started: glucore_register_process_module with   *)
(* connect_with_retry (core/src/runtime.rs) on one side, the first half of *)
(* GluAdapter.run with sendRegistration (adapters/java, java_renderer) on  *)
(* the other, and the socket file between them.                            *)
(*                                                                         *)
(* One thread of the host starts one module, on one socket path, as often  *)
(* as it likes: after a failure (load_process_module raises) or to load it *)
(* again.  Attempt a spawns process a.  A process that is slow to start    *)
(* may go through its steps during a later attempt.  The tables a          *)
(* successful attempt fills are IpcDispatch's subject.                     *)
(***************************************************************************)
EXTENDS Integers, Sequences

CONSTANTS MaxAttempts,  (* bound on the attempts                             *)
          MayCrash      (* processes may die                                 *)

ASSUME ProcessStartAssumption == MaxAttempts \in Nat /\ MayCrash \in BOOLEAN

VARIABLES pc,          (* where the core is in the current attempt           *)
          attempt,     (* the current attempt, 0 before the first            *)
          path,        (* whose listener the socket file is, 0 for no file   *)
          code,        (* what each attempt returned                         *)
          peer,        (* the process each attempt connected to, 0 for none  *)
          closed,      (* the connections whose end in the core is closed    *)
          socket,      (* module_sockets, as the attempt it comes from       *)
          stage,       (* where each process is in GluAdapter.run            *)
          backlog,     (* the connections that wait in each listener         *)
          accepted,    (* the connection each process accepted, 0 for none   *)
          message      (* what of its registration a process has written     *)

coreVars == <<pc, attempt, code, peer, closed, socket>>
processVars == <<stage, backlog, accepted, message>>
vars == <<coreVars, path, processVars>>

Attempts == 1 .. MaxAttempts
CorePcs == {"idle", "spawn", "connect", "readLen", "readBody", "gone"}
Pending == 1                      \* no code yet
Codes == {0, -2, -3, -4, -5, -6, -7}
Stages == {"unborn", "starting", "unlinked", "listening", "registering", "serving", "ended"}
Messages == {"none", "len", "hugeLen", "body", "badBody", "cutBody"}

Alive(p) == stage[p] \notin {"unborn", "ended"}
Listening(p) == p # 0 /\ stage[p] \in {"listening", "registering", "serving"}

\* The process at the other end of the current attempt's connection, and what
\* can be read from it: what it has written, or the end of the stream.
Peer == peer[attempt]
Received == IF accepted[Peer] = attempt THEN message[Peer] ELSE "none"
AtEnd == stage[Peer] = "ended"

Init ==
    /\ pc = "idle"
    /\ attempt = 0
    /\ path = 0
    /\ code = [a \in Attempts |-> Pending]
    /\ peer = [a \in Attempts |-> 0]
    /\ closed = {}
    /\ socket = 0
    /\ stage = [p \in Attempts |-> "unborn"]
    /\ backlog = [p \in Attempts |-> <<>>]
    /\ accepted = [p \in Attempts |-> 0]
    /\ message = [p \in Attempts |-> "none"]

(* ------------- the core: glucore_register_process_module ----------------- *)

\* The next attempt, with this socket file.
Begin(file) ==
    /\ pc = "idle"
    /\ attempt < MaxAttempts
    /\ attempt' = attempt + 1
    /\ path' = file
    /\ pc' = "spawn"
    /\ UNCHANGED <<code, peer, closed, socket, processVars>>

\* Mutant of RemoveStale: a socket file that is there is kept.
RemoveStaleNot == Begin(path)

\* remove_file(socket_path)
RemoveStale == Begin(0)

\* The attempt ends with the code c; load_process_module raises unless it is 0.
Fail(c) ==
    /\ code' = [code EXCEPT ![attempt] = c]
    /\ pc' = "idle"
    /\ UNCHANGED <<attempt, path, peer, socket, processVars>>

\* Command::spawn
Spawn ==
    /\ pc = "spawn"
    /\ \/ /\ stage' = [stage EXCEPT ![attempt] = "starting"]
          /\ pc' = "connect"
          /\ UNCHANGED <<attempt, path, code, peer, closed, socket, backlog, accepted, message>>
       \/ Fail(-2) /\ UNCHANGED closed

\* connect_with_retry: UnixStream::connect succeeds when somebody listens.  It
\* does not wait for the accept.
Connect ==
    /\ pc = "connect"
    /\ Listening(path)
    /\ peer' = [peer EXCEPT ![attempt] = path]
    /\ backlog' = [backlog EXCEPT ![path] = Append(@, attempt)]
    /\ pc' = "readLen"
    /\ UNCHANGED <<attempt, path, code, closed, socket, stage, accepted, message>>

\* connect_with_retry gives up, and the attempt ends with the code c.
GivesUp(c) ==
    /\ pc = "connect"
    /\ ~Listening(path)
    /\ Fail(c)
    /\ UNCHANGED closed

\* Mutants of ConnectTimesOut: what connect_with_retry returned is passed on;
\* the time-out is reported as a read error.
ConnectTimesOutRaw == GivesUp(-1)
ConnectTimesOutAsRead == GivesUp(-4)

\* connect_with_retry: another connect failed and the five seconds are over.
\* The Child is dropped, which leaves the process alone.
ConnectTimesOut == GivesUp(-3)

\* read_exact of the length.  Only at the end of the stream is the IpcStream
\* dropped, and with it the socket closed; a huge length leaves it open.
ReadLen ==
    /\ pc = "readLen"
    /\ \/ /\ Received \in {"len", "body", "badBody", "cutBody"}
          /\ pc' = "readBody"
          /\ UNCHANGED <<attempt, path, code, peer, closed, socket, processVars>>
       \/ Received = "hugeLen" /\ Fail(-5) /\ UNCHANGED closed
       \/ /\ Received = "none" /\ AtEnd
          /\ Fail(-4)
          /\ closed' = closed \cup {attempt}

\* The host ends; the system closes its sockets.
HostEnds ==
    /\ pc' = "gone"
    /\ closed' = Attempts
    /\ UNCHANGED <<attempt, path, code, peer, socket, processVars>>

HostExits == pc # "gone" /\ HostEnds

\* The attempt succeeds; the new socket replaces the one of the name.
Publish ==
    /\ code' = [code EXCEPT ![attempt] = 0]
    /\ socket' = attempt
    /\ pc' = "idle"
    /\ UNCHANGED <<attempt, path, peer, closed, processVars>>

\* Mutant of ReadBody: the module is published once the length is there.
ReadBodyEarly == pc = "readBody" /\ Publish

\* read_exact of the body and parse_registration.  An unknown tag leaves the socket
\* open; a body that ends early, or a name with a NUL byte, is a panic that cannot
\* leave an extern "C" function: the host aborts.
ReadBody ==
    /\ pc = "readBody"
    /\ \/ Received = "body" /\ Publish
       \/ Received = "badBody" /\ Fail(-7) /\ UNCHANGED closed
       \/ Received = "cutBody" /\ HostEnds
       \/ /\ Received = "len" /\ AtEnd
          /\ Fail(-6)
          /\ closed' = closed \cup {attempt}

(* ---------------- the process: GluAdapter.run and Renderer --------------- *)

\* The process ends.  Its listener stays behind as a file nobody listens on.
End(p) ==
    /\ stage' = [stage EXCEPT ![p] = "ended"]
    /\ UNCHANGED <<coreVars, path, backlog, accepted, message>>

\* Files.deleteIfExists, whoever bound the socket.
DeletePath(p) ==
    /\ stage[p] = "starting"
    /\ path' = 0
    /\ stage' = [stage EXCEPT ![p] = "unlinked"]
    /\ UNCHANGED <<coreVars, backlog, accepted, message>>

\* bind, which throws when the file is there again.
Bind(p) ==
    /\ stage[p] = "unlinked"
    /\ \/ /\ path = 0
          /\ path' = p
          /\ stage' = [stage EXCEPT ![p] = "listening"]
          /\ UNCHANGED <<coreVars, backlog, accepted, message>>
       \/ path # 0 /\ End(p)

\* server.accept(), once: the listener stays open, no other connection is taken.
Accept(p) ==
    /\ stage[p] = "listening"
    /\ backlog[p] # <<>>
    /\ accepted' = [accepted EXCEPT ![p] = Head(backlog[p])]
    /\ backlog' = [backlog EXCEPT ![p] = Tail(@)]
    /\ stage' = [stage EXCEPT ![p] = "registering"]
    /\ UNCHANGED <<coreVars, path, message>>

\* sendRegistration: a length, then a body.  Other modules than java_renderer
\* may send a length over 1 MiB, a body with an unknown tag or one that ends early.
Register(p) ==
    /\ stage[p] = "registering"
    /\ \/ accepted[p] \in closed /\ End(p)
       \/ /\ accepted[p] \notin closed
          /\ message[p] = "none"
          /\ \E m \in {"len", "hugeLen"} : message' = [message EXCEPT ![p] = m]
          /\ UNCHANGED <<coreVars, path, stage, backlog, accepted>>
       \/ /\ accepted[p] \notin closed
          /\ message[p] = "hugeLen"
          /\ stage' = [stage EXCEPT ![p] = "serving"]
          /\ UNCHANGED <<coreVars, path, backlog, accepted, message>>
       \/ /\ accepted[p] \notin closed
          /\ message[p] = "len"
          /\ \E m \in {"body", "badBody", "cutBody"} : message' = [message EXCEPT ![p] = m]
          /\ stage' = [stage EXCEPT ![p] = "serving"]
          /\ UNCHANGED <<coreVars, path, backlog, accepted>>

\* Mutant of ServeUntilEnd: a short read does not leave the loop.
ServeForEver(p) == /\ stage[p] = "serving"
                   /\ accepted[p] \in closed
                   /\ UNCHANGED vars

\* The loop of run reads the end of the stream and leaves; the process exits.
ServeUntilEnd(p) ==
    /\ stage[p] = "serving"
    /\ accepted[p] \in closed
    /\ End(p)

\* The JVM does not start, an exception leaves main, the process is killed.
Crash(p) == MayCrash /\ Alive(p) /\ End(p)

(* ----------------------------- specification ----------------------------- *)

CoreStep == Spawn \/ Connect \/ ConnectTimesOut \/ ReadLen \/ ReadBody
ProcessStep(p) == DeletePath(p) \/ Bind(p) \/ Accept(p) \/ Register(p) \/ ServeUntilEnd(p)

\* The host is gone, and its processes have seen it or will.
Rest == pc = "gone" /\ UNCHANGED vars

Next ==
    \/ RemoveStale
    \/ CoreStep
    \/ HostExits
    \/ \E p \in Attempts : ProcessStep(p) \/ Crash(p)
    \/ Rest

Spec == Init /\ [][Next]_vars

\* The core and every process take the steps they can take.
FairSpec ==
    /\ Spec
    /\ WF_vars(CoreStep)
    /\ \A p \in Attempts : WF_vars(ProcessStep(p))

(* ------------------------------- properties ------------------------------ *)

\* Type invariant.
TypeOK ==
    /\ pc \in CorePcs
    /\ attempt \in 0 .. MaxAttempts
    /\ path \in 0 .. MaxAttempts
    /\ code \in [Attempts -> Codes \cup {Pending}]
    /\ peer \in [Attempts -> 0 .. MaxAttempts]
    /\ closed \subseteq Attempts
    /\ socket \in 0 .. MaxAttempts
    /\ stage \in [Attempts -> Stages]
    /\ backlog \in [Attempts -> Seq(Attempts)]
    /\ accepted \in [Attempts -> 0 .. MaxAttempts]
    /\ message \in [Attempts -> Messages]

\* Nobody connects to a process that has taken its one connection or will take
\* another before this one: the connection would never be accepted, and the
\* read of the registration, which has no time-out, would never return.
PeerIsFree ==
    \A p \in Attempts : Alive(p) =>
        Len(backlog[p]) + (IF accepted[p] = 0 THEN 0 ELSE 1) <= 1

\* The socket of the module leads to a process that serves it, and to no
\* process that another attempt registered before, however late processes of
\* earlier attempts get to the socket path.
PublishedIsServed ==
    \A a \in Attempts : code[a] = 0 =>
        LET p == peer[a]
        IN  /\ accepted[p] = a
            /\ message[p] = "body"
            /\ stage[p] \in {"serving", "ended"}

\* As long as no attempt timed out, no process is left behind that the core has
\* no connection to: each one is connected to its own attempt, or ended.
NoneLeftBehind ==
    (\A a \in Attempts : code[a] # -3) =>
        \A p \in Attempts : code[p] # Pending /\ Alive(p) => accepted[p] = p

\* A load that was begun returns (or the host exits).
AttemptsReturn == \A a \in Attempts : attempt = a ~> code[a] # Pending \/ pc = "gone"

\* A process with a connection does not outlive it (docs/06-ipc-transport.md:
\* "The Java process exits when the socket closes").
ExitsWithSocket ==
    \A p \in Attempts : accepted[p] # 0 /\ accepted[p] \in closed ~> stage[p] = "ended"
===============================================================================
