------------------------ MODULE ProbestoreRefinement ------------------------
(***************************************************************************)
(* The ingest path implements RunStore.  A stored entry is an index of the *)
(* batch with the key of the node row its result hangs on, so a result     *)
(* attached to the wrong node, a missing result or a second copy of a run  *)
(* is a step RunStore does not have.                                       *)
(***************************************************************************)
EXTENDS Probestore

ContentsOf == [r \in Runs |->
                 {<<i, Payload[r].results[i].key>> : i \in DOMAIN Payload[r].results}]

\* The results of run r as a reader of the committed tables finds them.
StoredOf(r) == {<<x.run_id, <<x.idx, x.node_id[2]>> >> :
                  x \in {y \in probe_result : RunOf[y.run_id] = r}}

StoredRuns == [r \in Runs |-> StoredOf(r)]

\* The runs some caller holds a 201 for.
AckedRuns == {RunOf[h] : h \in {g \in Requests :
                                   answer[g] \in {"created", "duplicate"}}}

Abstract == INSTANCE RunStore WITH
              Ids <- Requests,
              Contents <- ContentsOf,
              history <- StoredRuns,
              acked <- AckedRuns

\* Every behaviour of the ingest handlers, failures and deadlocks included,
\* is a behaviour of the run store the README promises.
ImplementsRunStore == Abstract!RSpec

\* What the refinement needs beyond IndInv: a handler is answered once, at
\* its end, and whatever gets past Receive or into the table was validated,
\* so a stored run is never empty.
AnsweredOnce ==
    \A h \in Requests :
        /\ answer[h] # "none" => pc[h] = "done"
        /\ pc[h] \notin {"new", "done"} \/ h \in probe_run => Valid(h)
=============================================================================
