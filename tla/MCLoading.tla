------------------------------ MODULE MCLoading ------------------------------
(* An instance of Loading with a module of each kind. *)
EXTENDS Loading, TLC

CONSTANTS t1, t2, physics, cpp_engine, java_renderer

Fn(name, params, returns) == [name |-> name, params |-> params, returns |-> returns]

\* java_renderer comes in three programs, one of which exports a name twice.
MCPrograms ==
    (physics :> {<<Fn("shout", <<"&str">>, "String"), Fn("echo", <<"Vec<u8>">>, "Vec<u8>")>>})
    @@ (cpp_engine :> {<<Fn("accelerate", <<"double">>, "double"), Fn("drag", <<"double">>, "double")>>})
    @@ (java_renderer :> {<<Fn("scale", <<"Float", "Float">>, "Float"), Fn("count", <<>>, "Int")>>,
                          <<Fn("scale", <<"Buffer">>, "Float"), Fn("scale", <<"Int">>, "Float")>>,
                          <<Fn("count", <<>>, "Void")>>})
==============================================================================
