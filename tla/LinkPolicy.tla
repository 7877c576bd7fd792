------------------------------ MODULE LinkPolicy ------------------------------
(***************************************************************************)
(* What glucore.toml promises, with no identity stack and no lookup: code  *)
(* of one module starts running in another only over a link the topology   *)
(* declares between these two.  Router implements this specification.      *)
(***************************************************************************)
EXTENDS Naturals, Sequences, SequencesExt

CONSTANTS Threads,   (* the threads of the host process                    *)
          Modules,   (* the modules that can be registered                 *)
          Host,      (* the code that is at the bottom of every thread     *)
          Topology   (* the (caller, callee) pairs of glucore.toml [links] *)

VARIABLES links,     (* the pairs pushed into the core so far              *)
          running    (* per thread, the modules whose code is on its stack *)

vars == <<links, running>>

\* The code that thread t is executing now.
RunningCode(t) == IF running[t] = <<>> THEN Host ELSE Last(running[t])

Init == /\ links = {}
        /\ running = [t \in Threads |-> <<>>]

Declare(link) == /\ link \in Topology
                 /\ links' = links \cup {link}
                 /\ UNCHANGED running

Start(t, m) == /\ <<RunningCode(t), m>> \in links
               /\ running' = [running EXCEPT ![t] = Append(@, m)]
               /\ UNCHANGED links

Return(t) == /\ running[t] # <<>>
             /\ running' = [running EXCEPT ![t] = Front(@)]
             /\ UNCHANGED links

Next == \/ \E link \in Topology : Declare(link)
        \/ \E t \in Threads, m \in Modules : Start(t, m)
        \/ \E t \in Threads : Return(t)

Spec == Init /\ [][Next]_vars
===============================================================================
