------------------------------ MODULE RemoteCall ------------------------------
(***************************************************************************)
(* What a call of a function of a PROCESS module promises, without wire,   *)
(* frames or callbacks: the function is executed at most once for a call,  *)
(* and the call returns Ok only if the function, executed for this very    *)
(* call, did.  IpcSession implements this specification.                   *)
(***************************************************************************)
CONSTANTS Ids,     (* identifiers of calls                     *)
          None     (* neither result nor outcome yet           *)

VARIABLES requested,  (* the calls made                                      *)
          started,    (* the calls whose function was entered                *)
          result,     (* what the function executed for a call ended with    *)
          outcome     (* what the caller of a call got                       *)

vars == <<requested, started, result, outcome>>

Init == /\ requested = {}
        /\ started = {}
        /\ result = [c \in Ids |-> None]
        /\ outcome = [c \in Ids |-> None]

Request(c) == /\ c \notin requested
              /\ requested' = requested \cup {c}
              /\ UNCHANGED <<started, result, outcome>>

Start(c) == /\ c \in requested \ started
            /\ started' = started \cup {c}
            /\ UNCHANGED <<requested, result, outcome>>

End(c, s) == /\ c \in started
             /\ result[c] = None
             /\ result' = [result EXCEPT ![c] = s]
             /\ UNCHANGED <<requested, started, outcome>>

Return(c, s) == /\ c \in requested
                /\ outcome[c] = None
                /\ s = "Ok" => result[c] = "Ok"
                /\ outcome' = [outcome EXCEPT ![c] = s]
                /\ UNCHANGED <<requested, started, result>>

\* The call cannot be sent.
Refuse(c) == /\ c \notin requested
             /\ requested' = requested \cup {c}
             /\ outcome' = [outcome EXCEPT ![c] = "Runtime"]
             /\ UNCHANGED <<started, result>>

Next == \E c \in Ids :
    \/ Request(c)
    \/ Start(c)
    \/ \E s \in {"Ok", "Runtime"} : End(c, s) \/ Return(c, s)
    \/ Refuse(c)

Spec == Init /\ [][Next]_vars
===============================================================================
