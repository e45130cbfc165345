---------------------------- MODULE MCProbestore ----------------------------
(***************************************************************************)
(* Two posts of run r1 (a request and its retry) race with run r2, which   *)
(* reports the same two new nodes in the opposite order and one of them    *)
(* twice; h4 has no token and h5 carries a batch the schema refuses.       *)
(***************************************************************************)
EXTENDS ProbestoreRefinement, TLC

CONSTANTS h1, h2, h3, h4, h5, r1, r2, r3, k1, k2, n1, n2

Entry(k, n) == [key |-> k, name |-> n, fits |-> TRUE,
                ts |-> 1, tcp_ok |-> TRUE, tls_ok |-> TRUE]

MCRunOf == (h1 :> r1) @@ (h2 :> r1) @@ (h3 :> r2) @@ (h4 :> r2) @@ (h5 :> r3)

MCPayload ==
    (r1 :> [source_fits |-> TRUE, results |-> <<Entry(k1, n1), Entry(k2, n2)>>])
    @@ (r2 :> [source_fits |-> TRUE,
               results |-> <<Entry(k2, n2), Entry(k1, n1), Entry(k2, n1)>>])
    @@ (r3 :> [source_fits |-> TRUE, results |-> <<>>])
=============================================================================
