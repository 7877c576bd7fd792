---------------------------- MODULE MCIpcDispatch ----------------------------
(* Instances of IpcDispatch. *)
EXTENDS IpcDispatch

CONSTANTS p, f, g

\* p comes with a table in which a name occurs twice or, changed, with another;
\* and the smallest table.
MCTables == [m \in Modules |-> IF m = p THEN {<<f, g, f>>, <<g>>} ELSE {<<f>>}]
MCOne == [m \in Modules |-> {<<f>>}]
===============================================================================
