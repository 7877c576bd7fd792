------------------------------- MODULE MCRouter -------------------------------
(* Instances of Router: the modules and the topology of the repository's    *)
(* glucore.toml, whose links physics -> cpp_engine -> java_renderer ->      *)
(* physics close a cycle.                                                   *)
EXTENDS Router, TLC

CONSTANTS physics, cpp_engine, java_renderer

MCTopology == {<<Host, physics>>, <<Host, cpp_engine>>, <<Host, java_renderer>>,
               <<physics, cpp_engine>>, <<cpp_engine, java_renderer>>,
               <<java_renderer, physics>>}

MCSymmetry == Permutations(Threads)
===============================================================================
