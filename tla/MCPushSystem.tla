---------------------------- MODULE MCPushSystem ----------------------------
(***************************************************************************)
(* The agents: a1 has an acceptable run; a2 has no token; a3 probed UDP    *)
(* nodes only, so buildPayload left its batch empty; a4 reports a1's two   *)
(* nodes in the opposite order; a5 has one name that is too long among     *)
(* its results.                                                            *)
(***************************************************************************)
EXTENDS PushSystem, TLC

CONSTANTS a1, a2, a3, a4, a5, k1, k2, n1

Entry(k) == [key |-> k, name |-> n1, fits |-> TRUE,
             ts |-> 1, tcp_ok |-> TRUE, tls_ok |-> TRUE]

MCRequests == Agents \X (1 .. MaxAttempts)

MCRunOf == [h \in MCRequests |-> h[1]]

MCBatch(a) == CASE a = a3 -> <<>>
                [] a = a5 -> <<Entry(k1), [Entry(k2) EXCEPT !.fits = FALSE]>>
                [] a = a4 -> <<Entry(k2), Entry(k1)>>
                [] OTHER  -> <<Entry(k1), Entry(k2)>>

MCPayload == [a \in Agents |-> [source_fits |-> TRUE, results |-> MCBatch(a)]]

MCAuthorized == {h \in MCRequests : h[1] # a2}

\* Two faults and the 500 of a replay can use up all of a1's attempts; with
\* a rival on the same nodes there are deadlocks besides.
MCScenarios == {a1 :> 2, a2 :> 1, a5 :> 1, a1 :> 1 @@ a4 :> 0}

MCEmptyBatch == {a3 :> 0}
=============================================================================
