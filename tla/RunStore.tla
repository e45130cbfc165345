------------------------------ MODULE RunStore ------------------------------
(***************************************************************************)
(* What probestore promises a probe agent (src/probestore/README.md:43-50  *)
(* and the docstring of ingest_run): a run is stored completely or not at  *)
(* all, at most once however often it is posted, and a run that has been   *)
(* acknowledged is stored for good.  Tables, transactions, requests and    *)
(* replays are not visible at this level.                                  *)
(***************************************************************************)
CONSTANTS
    Runs,      \* the run ids
    Ids,       \* the identities under which a run may be stored
    Contents   \* what storing a run means: its set of entries

VARIABLES
    history,   \* history[r] is {} or one copy {<<id, e>> : e \in Contents[r]}
    acked      \* the runs some caller was told are stored

RInit == history = [r \in Runs |-> {}] /\ acked = {}

Store(r) == /\ history[r] = {}
            /\ \E id \in Ids : history' = [history EXCEPT ![r] = {id} \X Contents[r]]
            /\ UNCHANGED acked

Acknowledge(r) == /\ history[r] # {}
                  /\ acked' = acked \cup {r}
                  /\ UNCHANGED history

RNext == \E r \in Runs : Store(r) \/ Acknowledge(r)

RSpec == RInit /\ [][RNext]_<<history, acked>>
=============================================================================
