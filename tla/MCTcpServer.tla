----------------------------- MODULE MCTcpServer -----------------------------
(* TcpServer on one or two connections, in the setups of interest.         *)
EXTENDS TcpServer

Use(n, cs, resets, other, early, dies) ==
    [numThreads |-> n, peers |-> cs, resets |-> resets, otherThread |-> other,
     earlySends |-> early, serverDies |-> dies, asserts |-> FALSE]
WithAsserts(s) == [s EXCEPT !.asserts = TRUE]

One == {CHOOSE c \in Conns : TRUE}

\* Without a pool: with resets, and with two connections.  With one loop and
\* two connections.  With two loops and one connection: resets, another
\* thread, early sends and the end of the server, some of them at a time.  Two
\* of them in a build with asserts, which ends with the first that fails.
AllSetups ==
    {Use(0, One, TRUE, FALSE, FALSE, FALSE),
     Use(0, Conns, FALSE, FALSE, FALSE, FALSE),
     Use(1, Conns, FALSE, FALSE, FALSE, FALSE),
     Use(1, One, FALSE, TRUE, FALSE, TRUE),
     Use(2, One, TRUE, TRUE, TRUE, FALSE),
     Use(2, One, TRUE, FALSE, TRUE, TRUE),
     WithAsserts(Use(0, Conns, FALSE, FALSE, FALSE, FALSE)),
     WithAsserts(Use(2, One, FALSE, FALSE, FALSE, TRUE))}

ResetSetups == {Use(1, Conns, TRUE, FALSE, FALSE, FALSE)}
==============================================================================
