------------------------------ MODULE MCCallData ------------------------------
(* Instances of CallData: a function of each kind of module. *)
EXTENDS CallData, TLC

CONSTANTS label, resize, render

\* render is a function of a PROCESS module, label of a Rust and resize of a
\* C++ one.
MCParams == (label :> <<"String", "Buffer">>) @@ (resize :> <<"Buffer">>)
            @@ (render :> <<"Float", "String">>)
MCReturns == (label :> "Buffer") @@ (resize :> "String") @@ (render :> "Buffer")

Number(tag) == [tag |-> tag, len |-> 0]
Text(len) == [tag |-> "String", len |-> len]

\* What the callbacks of the java_renderer send, numbers, and the one text that is
\* as long: arguments of nine bytes.
MCNineBytes == {<<Number("Float"), Number("Float")>>, <<Number("Int"), Text(4)>>}
\* The lists the comment of glucoreCall allows, with texts of several lengths.
MCTexts == {<<Text(n)>> : n \in {3, 4, 13}} \cup {<<Number("Int"), Text(4)>>}
===============================================================================
