----------------------------- MODULE MCHttpServer -----------------------------
(* HttpServer with scripts in which each rule of the parser matters.         *)
EXTENDS HttpServer

Names == DOMAIN Text

\* Every script of at most two lines, and some longer ones.
MCScripts ==
    {<<x>> : x \in Names} \cup {<<x, y>> : x, y \in Names}
    \cup {<<"get", "empty", "get", "host", "empty">>,
          <<"get", "close", "empty", "get", "empty">>,
          <<"get", "close", "keep", "empty", "missing", "empty">>,
          <<"get", "keep", "close", "empty">>,
          <<"missing", "empty", "get", "empty">>,
          <<"get", "empty", "words">>,      \* a body is read as a request line
          <<"get", "words", "get", "empty">>,
          <<"get", "empty", "old", "empty">>,
          <<"old", "host", "empty">>,
          <<"empty", "get", "empty">>}
==============================================================================
