----------------------------- MODULE Probestore -----------------------------
(***************************************************************************)
(* The ingest path of probestore: POST /v1/runs on a PostgreSQL database   *)
(* shared by every handler (src/probestore/app).                           *)
(*                                                                         *)
(* Each request is one asyncio handler with one session and one            *)
(* transaction.  Every `await` of ingest_run is a point where other        *)
(* handlers run, so every SQL statement is an action of its own.           *)
(*                                                                         *)
(* Row identities.  The probe_run row that request h inserts is called h,  *)
(* the node row it inserts for key k is called <<h, k>>: a request inserts *)
(* one run and each node key at most once.  The columns of a row that no   *)
(* statement ever updates are read back from the payload of h.             *)
(*                                                                         *)
(* PostgreSQL itself is external and modelled from how ingest.py uses it:  *)
(* READ COMMITTED (the engine sets no other level, db.py:24), a unique     *)
(* index that makes an insert WAIT for an uncommitted rival row, and a     *)
(* deadlock detector that aborts one transaction of a cycle of waits.      *)
(***************************************************************************)
EXTENDS Integers, Sequences, FiniteSets

CONSTANTS
    Requests,    \* the POST /v1/runs calls, replays included
    Runs,        \* the run_id values (uuid)
    Keys,        \* the (addr, sni) pairs
    Names,       \* the values of node.name
    RunOf,       \* the run_id each request carries
    Payload,     \* the body posted under a run_id (a replay is byte-identical)
    Authorized   \* the requests that carry the configured bearer token

ResultIn == [key : Keys, name : Names, fits : BOOLEAN,
             ts : Nat, tcp_ok : BOOLEAN, tls_ok : BOOLEAN]

RunIn == [source_fits : BOOLEAN, results : Seq(ResultIn)]

ASSUME PayloadAssumption == /\ RunOf \in [Requests -> Runs]
                            /\ Payload \in [Runs -> RunIn]

ASSUME AuthorizedAssumption == Authorized \subseteq Requests

VARIABLES
    probe_run,     \* committed rows of table probe_run
    node,          \* committed rows of table node
    probe_result,  \* committed rows of table probe_result
    pc,            \* where each handler is
    existing,      \* the row its first SELECT returned, if any
    pos,           \* the next row of its multi-row node INSERT
    inserted,      \* the node keys its transaction has inserted
    node_ids,      \* the node rows _resolve_nodes returned to it
    answer,        \* what the caller was told
    stored         \* stored_results of that answer

tables == <<probe_run, node, probe_result>>
locals == <<existing, pos, inserted, node_ids>>
vars == <<tables, pc, locals, answer, stored>>

-----------------------------------------------------------------------------
Results(h) == Payload[RunOf[h]].results

Batch(h) == 1 .. Len(Results(h))

KeyAt(h, i) == Results(h)[i].key

BatchKeys(h) == {KeyAt(h, i) : i \in Batch(h)}

\* Field constraints of RunIn and NodeRef, and results: min_length=1.
Valid(h) == /\ Payload[RunOf[h]].source_fits
            /\ Results(h) # <<>>
            /\ \A i \in Batch(h) : Results(h)[i].fits

\* The program counters at which a transaction holds an uncommitted
\* probe_run row, so that its unique-index entries block its rivals.
Open == {"insert_nodes", "select_nodes", "insert_results"}

Stages == {"new", "select", "count", "insert_run", "reply", "done"} \cup Open

Failures == {"unauthorized", "unprocessable", "integrity_error",
             "deadlock", "key_error", "lost"}

Answers == {"none", "created", "duplicate"} \cup Failures

ResultRow == [run_id : Requests, idx : Nat, node_id : Requests \X Keys]

\* The status the caller reads; 0 is a connection that dies unanswered.
StatusCode(a) == CASE a \in {"created", "duplicate"} -> 201
                   [] a = "unauthorized" -> 401
                   [] a = "unprocessable" -> 422
                   [] a = "lost" -> 0
                   [] OTHER -> 500

TypeOK == /\ probe_run \subseteq Requests
          /\ node \subseteq Requests \X Keys
          /\ probe_result \subseteq ResultRow
          /\ pc \in [Requests -> Stages]
          /\ existing \in [Requests -> SUBSET Requests]
          /\ pos \in [Requests -> Nat \ {0}]
          /\ inserted \in [Requests -> SUBSET Keys]
          /\ node_ids \in [Requests -> SUBSET (Requests \X Keys)]
          /\ answer \in [Requests -> Answers]
          /\ stored \in [Requests -> Nat]

Init == /\ probe_run = {}
        /\ node = {}
        /\ probe_result = {}
        /\ pc = [h \in Requests |-> "new"]
        /\ existing = [h \in Requests |-> {}]
        /\ pos = [h \in Requests |-> 1]
        /\ inserted = [h \in Requests |-> {}]
        /\ node_ids = [h \in Requests |-> {}]
        /\ answer = [h \in Requests |-> "none"]
        /\ stored = [h \in Requests |-> 0]

-----------------------------------------------------------------------------
(* Helpers of the actions.                                                 *)

Goto(h, stage) == pc' = [pc EXCEPT ![h] = stage]

\* An exception leaves ingest_run: get_session rolls back, and because the
\* tables hold committed rows only, a rollback leaves them as they are.
Abort(h, why) == /\ Goto(h, "done")
                 /\ answer' = [answer EXCEPT ![h] = why]
                 /\ UNCHANGED <<tables, locals, stored>>

OwnNodes(h) == {h} \X inserted[h]

\* Mutant: no uq_node_addr_sni, so ON CONFLICT never meets a conflict.
MutNodeKeys == {}

NodeKeys == {n[2] : n \in node}

\* g's uncommitted entry in a unique index is the one h has to insert.
WaitsForRun(h, g) == /\ pc[h] = "insert_run"
                     /\ g # h
                     /\ pc[g] \in Open
                     /\ RunOf[g] = RunOf[h]

\* Mutant: get_session without its rollback.  A handler that failed keeps its
\* transaction, and the index entries of it, for ever.
MutWaitsForNode(h, g) == /\ pc[h] = "insert_nodes"
                         /\ g \notin probe_run \cup {h}
                         /\ pos[h] \in Batch(h)
                         /\ KeyAt(h, pos[h]) \in inserted[g]

WaitsForNode(h, g) == /\ pc[h] = "insert_nodes"
                      /\ g # h
                      /\ pc[g] \in Open
                      /\ pos[h] \in Batch(h)
                      /\ KeyAt(h, pos[h]) \in inserted[g]

WaitsFor(h, g) == WaitsForRun(h, g) \/ WaitsForNode(h, g)

Blocked(h) == \E g \in Requests : WaitsFor(h, g)

-----------------------------------------------------------------------------
(* Actions, one per statement of ingest_run.                               *)

\* require_token runs before the body is validated; both refuse the request
\* before a statement is sent.
Receive(h) ==
    /\ pc[h] = "new"
    /\ \/ h \notin Authorized /\ Abort(h, "unauthorized")
       \/ h \in Authorized /\ ~Valid(h) /\ Abort(h, "unprocessable")
       \/ /\ h \in Authorized /\ Valid(h)
          /\ Goto(h, "select")
          /\ UNCHANGED <<tables, locals, answer, stored>>

\* SELECT ... WHERE external_id = run_id: committed rows only.
SelectExisting(h) ==
    /\ pc[h] = "select"
    /\ existing' = [existing EXCEPT
                      ![h] = {x \in probe_run : RunOf[x] = RunOf[h]}]
    /\ Goto(h, IF existing'[h] = {} THEN "insert_run" ELSE "count")
    /\ UNCHANGED <<tables, pos, inserted, node_ids, answer, stored>>

\* Mutant: the count lost its WHERE clause.
MutCountStored(h) ==
    /\ pc[h] = "count"
    /\ stored' = [stored EXCEPT ![h] = Cardinality(probe_result)]
    /\ answer' = [answer EXCEPT ![h] = "duplicate"]
    /\ Goto(h, "done")
    /\ UNCHANGED <<tables, locals>>

\* SELECT count(*) of the run's results; the answer is a duplicate.
CountStored(h) ==
    /\ pc[h] = "count"
    /\ stored' = [stored EXCEPT
                    ![h] = Cardinality({x \in probe_result :
                                          x.run_id \in existing[h]})]
    /\ answer' = [answer EXCEPT ![h] = "duplicate"]
    /\ Goto(h, "done")
    /\ UNCHANGED <<tables, locals>>

\* Mutant: external_id without unique=True; nothing waits and nothing fails.
MutInsertRun(h) ==
    /\ pc[h] = "insert_run"
    /\ Goto(h, "insert_nodes")
    /\ UNCHANGED <<tables, locals, answer, stored>>

\* flush() of the new ProbeRun.  The unique index on external_id makes it
\* wait for a rival transaction and fail once a rival has committed.
InsertRun(h) ==
    /\ pc[h] = "insert_run"
    /\ ~Blocked(h)
    /\ IF \E x \in probe_run : RunOf[x] = RunOf[h]
         THEN Abort(h, "integrity_error")
         ELSE /\ Goto(h, "insert_nodes")
              /\ UNCHANGED <<tables, locals, answer, stored>>

\* One row of INSERT INTO node ... ON CONFLICT DO NOTHING.  The rows are
\* those of `seen`, in the order of first occurrence, so a key met again in
\* the batch, like one that is already in the table, inserts nothing.
InsertNode(h) ==
    /\ pc[h] = "insert_nodes"
    /\ pos[h] \in Batch(h)
    /\ ~Blocked(h)
    /\ inserted' = [inserted EXCEPT
                      ![h] = @ \cup ({KeyAt(h, pos[h])} \ NodeKeys)]
    /\ pos' = [pos EXCEPT ![h] = @ + 1]
    /\ UNCHANGED <<tables, pc, existing, node_ids, answer, stored>>

\* Mutant: _resolve_nodes commits its upsert.
MutNodesInserted(h) ==
    /\ pc[h] = "insert_nodes"
    /\ pos[h] \notin Batch(h)
    /\ node' = node \cup OwnNodes(h)
    /\ Goto(h, "select_nodes")
    /\ UNCHANGED <<probe_run, probe_result, locals, answer, stored>>

NodesInserted(h) ==
    /\ pc[h] = "insert_nodes"
    /\ pos[h] \notin Batch(h)
    /\ Goto(h, "select_nodes")
    /\ UNCHANGED <<tables, locals, answer, stored>>

\* Mutant: the ids come from INSERT ... RETURNING instead of a second SELECT,
\* which returns only the rows this transaction inserted itself.
MutVisibleNodes(h) == OwnNodes(h)

\* The rows a statement sees under READ COMMITTED: what is committed when
\* the statement starts, and what its own transaction has inserted.
VisibleNodes(h) == node \cup OwnNodes(h)

\* SELECT addr, sni, id of every key of the batch.
SelectNodes(h) ==
    /\ pc[h] = "select_nodes"
    /\ node_ids' = [node_ids EXCEPT
                      ![h] = {n \in VisibleNodes(h) : n[2] \in BatchKeys(h)}]
    /\ Goto(h, "insert_results")
    /\ UNCHANGED <<tables, existing, pos, inserted, answer, stored>>

\* Mutant: the rows are built from `seen`, one per node of the batch.
MutNewResultsSeen(h) ==
    {x \in [run_id : {h}, idx : Batch(h), node_id : node_ids[h]] :
        /\ x.node_id[2] = KeyAt(h, x.idx)
        /\ \A j \in Batch(h) : KeyAt(h, j) = KeyAt(h, x.idx) => j <= x.idx}

\* Mutant: node_id is filled with the lookup's key instead of its value.
MutNewResultsKey(h) ==
    {x \in [run_id : {h}, idx : Batch(h), node_id : BatchKeys(h)] :
        x.node_id = KeyAt(h, x.idx)}

\* The result rows of the batch, each attached to the node id that the
\* lookup holds for its key.
NewResults(h) == {x \in [run_id : {h}, idx : Batch(h), node_id : node_ids[h]] :
                     x.node_id[2] = KeyAt(h, x.idx)}

\* add_all() and commit(): everything the transaction wrote becomes visible
\* at once.  A key missing from the lookup raises KeyError before any of it.
Commit(h) ==
    /\ pc[h] = "insert_results"
    /\ IF BatchKeys(h) \subseteq {n[2] : n \in node_ids[h]}
         THEN /\ probe_run' = probe_run \cup {h}
              /\ node' = node \cup OwnNodes(h)
              /\ probe_result' = probe_result \cup NewResults(h)
              /\ Goto(h, "reply")
              /\ UNCHANGED <<locals, answer, stored>>
         ELSE Abort(h, "key_error")

\* return RunAccepted(...).
Respond(h) ==
    /\ pc[h] = "reply"
    /\ answer' = [answer EXCEPT ![h] = "created"]
    /\ stored' = [stored EXCEPT ![h] = Len(Results(h))]
    /\ Goto(h, "done")
    /\ UNCHANGED <<tables, locals>>

\* The server process, the database connection or the reply is lost.  An
\* open transaction is rolled back; a committed one stays, unacknowledged.
Fail(h) == pc[h] \notin {"new", "done"} /\ Abort(h, "lost")

\* PostgreSQL aborts one member of a cycle of waiting transactions.
DeadlockVictim(h) ==
    /\ \E C \in SUBSET {g \in Requests : Blocked(g)} :
          /\ h \in C
          /\ \A c \in C : /\ \E d \in C : WaitsFor(c, d)
                          /\ \E d \in C : WaitsFor(d, c)
    /\ Abort(h, "deadlock")

\* What a handler does by itself; Fail and DeadlockVictim happen to it.
Step(h) == \/ SelectExisting(h) \/ CountStored(h) \/ InsertRun(h)
           \/ InsertNode(h) \/ NodesInserted(h) \/ SelectNodes(h)
           \/ Commit(h) \/ Respond(h)

Next == \E h \in Requests : Receive(h) \/ Step(h) \/ Fail(h) \/ DeadlockVictim(h)

\* The event loop keeps running handlers and PostgreSQL keeps serving
\* statements and resolving deadlocks (deadlock_timeout); it is under no
\* obligation to fail.
Fairness == /\ \A h \in Requests : WF_vars(Receive(h)) /\ WF_vars(Step(h))
            /\ WF_vars(\E h \in Requests : DeadlockVictim(h))

SafeSpec == Init /\ [][Next]_vars

Spec == SafeSpec /\ Fairness

-----------------------------------------------------------------------------
(* Properties.                                                             *)

\* A run_id is stored at most once however its requests interleave: two
\* handlers that both pass the `existing` SELECT never both commit.
OneRowPerRun == \A g, h \in probe_run : RunOf[g] = RunOf[h] => g = h

\* (addr, sni) names one node row, although two handlers may insert the
\* same new key at the same time.
NodeUnique == \A m, n \in node : m[2] = n[2] => m = n

\* A stored run has, for every entry of its batch, exactly one result, and
\* it hangs on a committed node row of that entry's own key.
HistoryExact ==
    \A h \in probe_run : \A i \in Batch(h) :
       \E n \in node :
          /\ n[2] = KeyAt(h, i)
          /\ {x \in probe_result : x.run_id = h /\ x.idx = i}
                = {[run_id |-> h, idx |-> i, node_id |-> n]}

\* Nothing is stored in part: no result without its run row, and no node row
\* without a result (/metrics and /v1/nodes inner-join the two, so a bare
\* node would be invisible).
NothingPartial ==
    /\ \A x \in probe_result : x.run_id \in probe_run /\ x.idx \in Batch(x.run_id)
    /\ \A n \in node : \E x \in probe_result : x.node_id = n

\* _resolve_nodes returns an id for every key of the batch, also for the
\* keys ON CONFLICT skipped because a concurrent handler had just committed
\* them: no handler dies of a KeyError.
NoKeyError == \A h \in Requests : answer[h] # "key_error"

\* Every 201 is true when it is sent and stays true: the run is stored and
\* stored_results is the size of its batch, for the original and a replay.
AckTruthful ==
    \A h \in Requests : answer[h] \in {"created", "duplicate"} =>
        /\ \E x \in probe_run : RunOf[x] = RunOf[h]
        /\ stored[h] = Len(Results(h))

\* Every request is answered, waits for rivals and deadlocks included.
EveryRequestAnswered == \A h \in Requests : <>(pc[h] = "done")

\* A replay of a run that is being stored is answered `duplicate`, never
\* with an error: "the second call returns `duplicate: true` and stores
\* nothing" (src/probestore/README.md:48-50).
ReplayAnswersDuplicate == \A h \in Requests : answer[h] # "integrity_error"

-----------------------------------------------------------------------------
(* The inductive invariant: what a handler may rely on between two awaits. *)

\* From the flush of its run row to its commit a handler is alone with its
\* run_id: no committed row has it and no other open transaction does.
RunLock ==
    \A h \in Requests : pc[h] \in Open =>
        /\ \A x \in probe_run : RunOf[x] # RunOf[h]
        /\ \A g \in Requests : pc[g] \in Open /\ RunOf[g] = RunOf[h] => g = h

\* The keys a transaction has inserted are its own until it commits.
NodeLock ==
    \A h \in Requests : pc[h] \in Open =>
        /\ inserted[h] \cap NodeKeys = {}
        /\ \A g \in Requests : pc[g] \in Open /\ g # h =>
              inserted[g] \cap inserted[h] = {}

\* How far _resolve_nodes has got: every key it has passed is visible to it,
\* and the lookup it returns covers the batch with visible rows only.
LookupProgress ==
    \A h \in Requests :
        /\ inserted[h] \subseteq BatchKeys(h)
        /\ pc[h] \in {"new", "select", "count", "insert_run"} =>
              inserted[h] = {} /\ pos[h] = 1
        /\ pc[h] = "insert_nodes" =>
              \A i \in Batch(h) : i < pos[h] =>
                  KeyAt(h, i) \in NodeKeys \cup inserted[h]
        /\ pc[h] = "select_nodes" => BatchKeys(h) \subseteq NodeKeys \cup inserted[h]
        /\ pc[h] = "insert_results" =>
              /\ node_ids[h] \subseteq VisibleNodes(h)
              /\ BatchKeys(h) \subseteq {n[2] : n \in node_ids[h]}

\* Where a handler stands tells whether its run, or the one it found, is in
\* the table; an answered 201 is always about a stored run.
CommitPoint ==
    /\ \A h \in probe_run : pc[h] \in {"reply", "done"}
    /\ \A h \in Requests :
          /\ pc[h] = "reply" => h \in probe_run
          /\ pc[h] = "count" => /\ existing[h] # {}
                                /\ \A x \in existing[h] : /\ x \in probe_run
                                                          /\ RunOf[x] = RunOf[h]
          /\ answer[h] \in {"created", "duplicate"} =>
                \E x \in probe_run : RunOf[x] = RunOf[h]

IndInv == /\ TypeOK
          /\ RunLock
          /\ NodeLock
          /\ LookupProgress
          /\ CommitPoint
          /\ OneRowPerRun
          /\ NodeUnique
          /\ HistoryExact
          /\ NothingPartial
          /\ NoKeyError
=============================================================================
