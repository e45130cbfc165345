------------------------- MODULE MCProbestoreViews -------------------------
(***************************************************************************)
(* Three runs of two nodes: the second is the older one, arrives in any    *)
(* order and names k1 otherwise; the third ties with the first but saw k1  *)
(* down, and gives k2 the name of k1.                                      *)
(***************************************************************************)
EXTENDS ProbestoreViews, TLC

CONSTANTS h1, h2, h3, r1, r2, r3, k1, k2, n1, n2

Entry(k, n, t, tls) == [key |-> k, name |-> n, fits |-> TRUE,
                        ts |-> t, tcp_ok |-> TRUE, tls_ok |-> tls]

Body(entries) == [source_fits |-> TRUE, results |-> entries]

MCRunOf == (h1 :> r1) @@ (h2 :> r2) @@ (h3 :> r3)

MCPayload == (r1 :> Body(<<Entry(k1, n1, 2, TRUE)>>))
          @@ (r2 :> Body(<<Entry(k1, n2, 1, TRUE)>>))
          @@ (r3 :> Body(<<Entry(k1, n1, 2, FALSE), Entry(k2, n1, 3, TRUE)>>))
=============================================================================
