-------------------------- MODULE MCCompileService --------------------------
\* A small instance of CompileService: two programs that differ in what is the
\* argument and what is the input, and two more with one text for both.
EXTENDS CompileService

MCPayloads == {[code |-> <<"x">>, args |-> <<"y">>, stdin |-> <<>>],
               [code |-> <<"x">>, args |-> <<>>, stdin |-> <<"y">>],
               [code |-> <<"x">>, args |-> <<"y">>, stdin |-> Absent],
               [code |-> <<"x">>, args |-> Absent, stdin |-> <<"y">>]}

\* Two compilations at once; questions for the version next to
\* each other; shares that are repeated or replaced, and opened before and after.
MCMixes == {<<"stream", "wasm">>, <<"wasm", "wasm">>, <<"version", "version">>,
            <<"share", "share", "open", "open">>, <<"share", "open", "share", "open">>}
=============================================================================
