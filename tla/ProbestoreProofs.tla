-------------------------- MODULE ProbestoreProofs --------------------------
(***************************************************************************)
(* Proofs about the ingest path, for every set of requests, every payload  *)
(* and every interleaving.                                                 *)
(***************************************************************************)
EXTENDS Probestore, FiniteSetTheorems, FunctionTheorems, TLAPS

\* The batch of a request is a sequence of entries with keys.
LEMMA BatchType ==
    ASSUME NEW h \in Requests
    PROVE  /\ Results(h) \in Seq(ResultIn)
           /\ Len(Results(h)) \in Nat
           /\ \A i \in Batch(h) : i \in Nat /\ KeyAt(h, i) \in Keys
           /\ BatchKeys(h) \subseteq Keys
  <1>1. Payload[RunOf[h]] \in RunIn
    BY PayloadAssumption
  <1>2. Results(h) \in Seq(ResultIn)
    BY <1>1 DEF Results, RunIn
  <1>3. Len(Results(h)) \in Nat
    BY <1>2
  <1>4. \A i \in Batch(h) : i \in Nat /\ Results(h)[i] \in ResultIn
    BY <1>2, <1>3 DEF Batch
  <1>5. \A i \in Batch(h) : KeyAt(h, i) \in Keys
    BY <1>4 DEF KeyAt, ResultIn
  <1> QED
    BY <1>2, <1>3, <1>4, <1>5 DEF BatchKeys

\* Initially nothing is stored and no handler has begun.
LEMMA InitIndInv == Init => IndInv
  <1> SUFFICES ASSUME Init PROVE IndInv
    OBVIOUS
  <1>1. TypeOK
    BY DEF Init, TypeOK, Stages, Answers
  <1>2. RunLock /\ NodeLock /\ LookupProgress /\ CommitPoint
    BY DEF Init, RunLock, NodeLock, LookupProgress, CommitPoint, Open
  <1>3. OneRowPerRun /\ NodeUnique /\ HistoryExact /\ NothingPartial /\ NoKeyError
    BY DEF Init, OneRowPerRun, NodeUnique, HistoryExact, NothingPartial, NoKeyError
  <1> QED
    BY <1>1, <1>2, <1>3 DEF IndInv

\* A handler that ends with an error and writes nothing preserves the
\* invariant, whatever it was doing.
LEMMA AbortIndInv ==
    ASSUME IndInv, NEW h \in Requests, NEW why \in Failures \ {"key_error"},
           Abort(h, why)
    PROVE  IndInv'
  <1> USE DEF IndInv
  <1>1. /\ pc' = [pc EXCEPT ![h] = "done"]
        /\ answer' = [answer EXCEPT ![h] = why]
        /\ UNCHANGED <<probe_run, node, probe_result, existing, pos, inserted,
                       node_ids, stored>>
    BY DEF Abort, Goto, tables, locals
  <1>2. TypeOK'
    BY <1>1 DEF TypeOK, Stages, Answers, Failures
  <1>3. \A g \in Requests : /\ pc'[g] # "done" => pc'[g] = pc[g]
                            /\ pc'[g] \in Open => pc[g] \in Open
                            /\ pc[g] = "done" => pc'[g] = "done"
                            /\ pc'[g] = pc[g] \/ pc'[g] = "done"
    BY <1>1 DEF TypeOK, Open
  <1>4. RunLock'
    BY <1>1, <1>3 DEF RunLock
  <1>5. NodeLock'
    BY <1>1, <1>3 DEF NodeLock, NodeKeys
  <1>6. LookupProgress'
    BY <1>1, <1>3 DEF LookupProgress, NodeKeys, VisibleNodes, OwnNodes, TypeOK
  <1>7. CommitPoint'
    BY <1>1, <1>3 DEF CommitPoint, TypeOK, Failures
  <1>8. OneRowPerRun' /\ NodeUnique' /\ HistoryExact' /\ NothingPartial'
    BY <1>1 DEF OneRowPerRun, NodeUnique, HistoryExact, NothingPartial
  <1>9. NoKeyError'
    BY <1>1 DEF NoKeyError, TypeOK
  <1> QED
    BY <1>2, <1>4, <1>5, <1>6, <1>7, <1>8, <1>9

\* A handler that only moves its program counter, outside the two places
\* where that alone claims something, is covered action by action below; in
\* each the tables are unchanged and one handler moves.

\* Authentication and validation: a request is refused or begins.
LEMMA ReceiveIndInv ==
    ASSUME IndInv, NEW h \in Requests, Receive(h)
    PROVE  IndInv'
  <1> USE DEF IndInv
  <1>1. CASE \E why \in Failures \ {"key_error"} : Abort(h, why)
    BY <1>1, AbortIndInv
  <1>2. CASE /\ pc[h] = "new" /\ pc' = [pc EXCEPT ![h] = "select"]
             /\ UNCHANGED <<tables, locals, answer, stored>>
    <2>1. UNCHANGED <<probe_run, node, probe_result, existing, pos, inserted,
                      node_ids, answer, stored>>
      BY <1>2 DEF tables, locals
    <2>2. TypeOK'
      BY <1>2, <2>1 DEF TypeOK, Stages
    <2>3. \A g \in Requests : /\ pc'[g] \in Open => pc[g] \in Open /\ pc'[g] = pc[g]
                              /\ g # h => pc'[g] = pc[g]
      BY <1>2 DEF TypeOK, Open
    <2>4. RunLock' /\ NodeLock'
      BY <1>2, <2>1, <2>3 DEF RunLock, NodeLock, NodeKeys
    <2>5. LookupProgress'
      BY <1>2, <2>1, <2>3 DEF LookupProgress, NodeKeys, VisibleNodes, OwnNodes, TypeOK
    <2>6. CommitPoint'
      BY <1>2, <2>1, <2>3 DEF CommitPoint, TypeOK
    <2>7. OneRowPerRun' /\ NodeUnique' /\ HistoryExact' /\ NothingPartial' /\ NoKeyError'
      BY <2>1 DEF OneRowPerRun, NodeUnique, HistoryExact, NothingPartial, NoKeyError
    <2> QED
      BY <2>2, <2>4, <2>5, <2>6, <2>7
  <1> QED
    BY <1>1, <1>2 DEF Receive, Goto, Failures

\* The first SELECT only remembers committed rows of its own run_id.
LEMMA SelectExistingIndInv ==
    ASSUME IndInv, NEW h \in Requests, SelectExisting(h)
    PROVE  IndInv'
  <1> USE DEF IndInv
  <1> DEFINE found == {x \in probe_run : RunOf[x] = RunOf[h]}
  <1>1. /\ pc[h] = "select"
        /\ existing' = [existing EXCEPT ![h] = found]
        /\ UNCHANGED <<probe_run, node, probe_result, pos, inserted, node_ids,
                       answer, stored>>
    BY DEF SelectExisting, tables
  <1>2. existing'[h] = found /\ found \subseteq Requests
    BY <1>1 DEF TypeOK
  <1>3. pc' = [pc EXCEPT ![h] = IF found = {} THEN "insert_run" ELSE "count"]
    BY <1>2 DEF SelectExisting, Goto
  <1>4. TypeOK'
    BY <1>1, <1>2, <1>3 DEF TypeOK, Stages
  <1>5. \A g \in Requests : /\ pc'[g] \in Open => pc[g] \in Open /\ pc'[g] = pc[g]
                            /\ g # h => pc'[g] = pc[g] /\ existing'[g] = existing[g]
    BY <1>1, <1>3 DEF TypeOK, Open
  <1>6. pc'[h] \in {"insert_run", "count"} /\ (pc'[h] = "count" => found # {})
    BY <1>3 DEF TypeOK
  <1>7. RunLock' /\ NodeLock'
    BY <1>1, <1>5 DEF RunLock, NodeLock, NodeKeys
  <1>8. LookupProgress'
    BY <1>1, <1>5, <1>6 DEF LookupProgress, NodeKeys, VisibleNodes, OwnNodes
  <1>9. CommitPoint'
    BY <1>1, <1>2, <1>5, <1>6 DEF CommitPoint, TypeOK
  <1>10. OneRowPerRun' /\ NodeUnique' /\ HistoryExact' /\ NothingPartial' /\ NoKeyError'
    BY <1>1 DEF OneRowPerRun, NodeUnique, HistoryExact, NothingPartial, NoKeyError
  <1> QED
    BY <1>4, <1>7, <1>8, <1>9, <1>10

\* Both answers of the 201 kind: the run in question is in the table.
LEMMA AnswerIndInv ==
    ASSUME IndInv, NEW h \in Requests, CountStored(h) \/ Respond(h),
           stored' \in [Requests -> Nat]
    PROVE  IndInv'
  <1> USE DEF IndInv
  <1>1. /\ pc[h] \in {"count", "reply"}
        /\ pc' = [pc EXCEPT ![h] = "done"]
        /\ \E a \in {"created", "duplicate"} : answer' = [answer EXCEPT ![h] = a]
        /\ UNCHANGED <<probe_run, node, probe_result, existing, pos, inserted, node_ids>>
    BY DEF CountStored, Respond, Goto, tables, locals
  <1>2. TypeOK'
    BY <1>1 DEF TypeOK, Stages, Answers
  <1>3. \A g \in Requests : /\ pc'[g] \in Open => pc[g] \in Open /\ pc'[g] = pc[g]
                            /\ g # h => pc'[g] = pc[g] /\ answer'[g] = answer[g]
    BY <1>1 DEF TypeOK, Open
  <1>4. pc'[h] = "done" /\ answer'[h] \in {"created", "duplicate"}
    BY <1>1 DEF TypeOK
  <1>5. RunLock' /\ NodeLock'
    BY <1>1, <1>3 DEF RunLock, NodeLock, NodeKeys
  <1>6. LookupProgress'
    BY <1>1, <1>3, <1>4 DEF LookupProgress, NodeKeys, VisibleNodes, OwnNodes
  <1>7. \E x \in probe_run : RunOf[x] = RunOf[h]
    BY <1>1 DEF CommitPoint
  <1>8. CommitPoint'
    BY <1>1, <1>3, <1>4, <1>7 DEF CommitPoint, TypeOK
  <1>9. OneRowPerRun' /\ NodeUnique' /\ HistoryExact' /\ NothingPartial'
    BY <1>1 DEF OneRowPerRun, NodeUnique, HistoryExact, NothingPartial
  <1>10. NoKeyError'
    BY <1>3, <1>4 DEF NoKeyError
  <1> QED
    BY <1>2, <1>5, <1>6, <1>8, <1>9, <1>10

\* The flush of the run row: whoever gets past it is alone with its run_id, in
\* the table and among the open transactions.
LEMMA InsertRunIndInv ==
    ASSUME IndInv, NEW h \in Requests, InsertRun(h)
    PROVE  IndInv'
  <1> USE DEF IndInv
  <1>1. CASE \E x \in probe_run : RunOf[x] = RunOf[h]
    BY <1>1, AbortIndInv DEF InsertRun, Failures
  <1>2. CASE ~\E x \in probe_run : RunOf[x] = RunOf[h]
    <2>1. /\ pc[h] = "insert_run"
          /\ pc' = [pc EXCEPT ![h] = "insert_nodes"]
          /\ ~Blocked(h)
          /\ UNCHANGED <<probe_run, node, probe_result, existing, pos, inserted,
                         node_ids, answer, stored>>
      BY <1>2 DEF InsertRun, Goto, tables, locals
    <2>2. TypeOK'
      BY <2>1 DEF TypeOK, Stages, Open
    <2>3. /\ pc'[h] = "insert_nodes"
          /\ \A g \in Requests : g # h => pc'[g] = pc[g]
      BY <2>1 DEF TypeOK
    \* ~Blocked is what makes the run_id exclusive.
    <2>4. \A g \in Requests : g # h /\ pc[g] \in Open => RunOf[g] # RunOf[h]
      BY <2>1 DEF Blocked, WaitsFor, WaitsForRun
    <2>5. RunLock'
      BY <1>2, <2>1, <2>3, <2>4 DEF RunLock
    <2>6. inserted[h] = {} /\ pos[h] = 1
      BY <2>1 DEF LookupProgress
    <2>7. NodeLock'
      BY <2>1, <2>3, <2>6 DEF NodeLock, NodeKeys
    <2>8. \A i \in Batch(h) : ~(i < 1)
      BY BatchType DEF Batch
    <2>9. LookupProgress'
      BY <2>1, <2>3, <2>6, <2>8 DEF LookupProgress, NodeKeys, VisibleNodes, OwnNodes
    <2>10. CommitPoint'
      BY <2>1, <2>3 DEF CommitPoint, TypeOK
    <2>11. OneRowPerRun' /\ NodeUnique' /\ HistoryExact' /\ NothingPartial' /\ NoKeyError'
      BY <2>1 DEF OneRowPerRun, NodeUnique, HistoryExact, NothingPartial, NoKeyError
    <2> QED
      BY <2>2, <2>5, <2>7, <2>9, <2>10, <2>11
  <1> QED
    BY <1>1, <1>2

\* One row of the upsert: the key is new to the table and to every other open
\* transaction, or it is visible already.
LEMMA InsertNodeIndInv ==
    ASSUME IndInv, NEW h \in Requests, InsertNode(h)
    PROVE  IndInv'
  <1> USE DEF IndInv
  <1> DEFINE k == KeyAt(h, pos[h])
  <1>1. /\ pc[h] = "insert_nodes" /\ pos[h] \in Batch(h) /\ ~Blocked(h)
        /\ inserted' = [inserted EXCEPT ![h] = inserted[h] \cup ({k} \ NodeKeys)]
        /\ pos' = [pos EXCEPT ![h] = pos[h] + 1]
        /\ UNCHANGED <<probe_run, node, probe_result, pc, existing, node_ids,
                       answer, stored>>
    BY DEF InsertNode, tables
  <1>2. k \in Keys /\ k \in BatchKeys(h) /\ pos[h] \in Nat \ {0}
    BY <1>1, BatchType DEF BatchKeys, TypeOK
  <1>3. TypeOK'
    BY <1>1, <1>2 DEF TypeOK
  <1>4. /\ inserted'[h] = inserted[h] \cup ({k} \ NodeKeys)
        /\ pos'[h] = pos[h] + 1
        /\ \A g \in Requests : g # h => inserted'[g] = inserted[g] /\ pos'[g] = pos[g]
    BY <1>1 DEF TypeOK
  <1>5. NodeKeys' = NodeKeys
    BY <1>1 DEF NodeKeys
  <1>6. RunLock'
    BY <1>1 DEF RunLock
  \* ~Blocked: no other open transaction has inserted k.
  <1>7. \A g \in Requests : g # h /\ pc[g] \in Open => k \notin inserted[g]
    BY <1>1 DEF Blocked, WaitsFor, WaitsForNode
  <1>8. NodeLock'
    BY <1>1, <1>4, <1>5, <1>7 DEF NodeLock
  <1>9. LookupProgress'
    <2> SUFFICES ASSUME NEW g \in Requests
                 PROVE  /\ inserted'[g] \subseteq BatchKeys(g)
                        /\ pc[g] \in {"new", "select", "count", "insert_run"} =>
                              inserted'[g] = {} /\ pos'[g] = 1
                        /\ pc[g] = "insert_nodes" =>
                              \A i \in Batch(g) : i < pos'[g] =>
                                  KeyAt(g, i) \in NodeKeys \cup inserted'[g]
                        /\ pc[g] = "select_nodes" =>
                              BatchKeys(g) \subseteq NodeKeys \cup inserted'[g]
                        /\ pc[g] = "insert_results" =>
                              /\ node_ids[g] \subseteq VisibleNodes(g)'
                              /\ BatchKeys(g) \subseteq {n[2] : n \in node_ids[g]}
      BY <1>1, <1>5 DEF LookupProgress
    <2>1. CASE g # h
      BY <1>1, <1>4, <2>1 DEF LookupProgress, VisibleNodes, OwnNodes
    <2>2. CASE g = h
      <3>1. \A i \in Batch(h) : i < pos[h] + 1 => i < pos[h] \/ i = pos[h]
        BY <1>2, BatchType
      <3>2. \A i \in Batch(h) : i < pos[h] => KeyAt(h, i) \in NodeKeys \cup inserted[h]
        BY <1>1 DEF LookupProgress
      <3>3. inserted[h] \subseteq BatchKeys(h)
        BY DEF LookupProgress
      <3> QED
        BY <1>1, <1>2, <1>4, <2>2, <3>1, <3>2, <3>3
    <2> QED
      BY <2>1, <2>2
  <1>10. CommitPoint'
    BY <1>1 DEF CommitPoint
  <1>11. OneRowPerRun' /\ NodeUnique' /\ HistoryExact' /\ NothingPartial' /\ NoKeyError'
    BY <1>1 DEF OneRowPerRun, NodeUnique, HistoryExact, NothingPartial, NoKeyError
  <1> QED
    BY <1>3, <1>6, <1>8, <1>9, <1>10, <1>11

\* At the end of the upsert every key of the batch is visible.
LEMMA NodesInsertedIndInv ==
    ASSUME IndInv, NEW h \in Requests, NodesInserted(h)
    PROVE  IndInv'
  <1> USE DEF IndInv
  <1>1. /\ pc[h] = "insert_nodes" /\ pos[h] \notin Batch(h)
        /\ pc' = [pc EXCEPT ![h] = "select_nodes"]
        /\ UNCHANGED <<probe_run, node, probe_result, existing, pos, inserted,
                       node_ids, answer, stored>>
    BY DEF NodesInserted, Goto, tables, locals
  <1>2. TypeOK'
    BY <1>1 DEF TypeOK, Stages, Open
  <1>3. /\ pc'[h] = "select_nodes"
        /\ \A g \in Requests : /\ g # h => pc'[g] = pc[g]
                               /\ pc'[g] \in Open => pc[g] \in Open
    BY <1>1 DEF TypeOK, Open
  <1>4. RunLock' /\ NodeLock'
    BY <1>1, <1>3 DEF RunLock, NodeLock, NodeKeys
  \* The statement has passed every row.
  <1>5. \A i \in Batch(h) : i < pos[h]
    BY <1>1, BatchType DEF Batch, TypeOK
  <1>6. BatchKeys(h) \subseteq NodeKeys \cup inserted[h]
    BY <1>1, <1>5 DEF LookupProgress, BatchKeys
  <1>7. LookupProgress'
    BY <1>1, <1>3, <1>6 DEF LookupProgress, NodeKeys, VisibleNodes, OwnNodes
  <1>8. CommitPoint'
    BY <1>1, <1>3 DEF CommitPoint, TypeOK
  <1>9. OneRowPerRun' /\ NodeUnique' /\ HistoryExact' /\ NothingPartial' /\ NoKeyError'
    BY <1>1 DEF OneRowPerRun, NodeUnique, HistoryExact, NothingPartial, NoKeyError
  <1> QED
    BY <1>2, <1>4, <1>7, <1>8, <1>9

\* READ COMMITTED at work: the rows that ON CONFLICT skipped are visible to
\* the SELECT that follows, so the lookup covers the batch.
LEMMA SelectNodesIndInv ==
    ASSUME IndInv, NEW h \in Requests, SelectNodes(h)
    PROVE  IndInv'
  <1> USE DEF IndInv
  <1> DEFINE rows == {n \in VisibleNodes(h) : n[2] \in BatchKeys(h)}
  <1>1. /\ pc[h] = "select_nodes"
        /\ pc' = [pc EXCEPT ![h] = "insert_results"]
        /\ node_ids' = [node_ids EXCEPT ![h] = rows]
        /\ UNCHANGED <<probe_run, node, probe_result, existing, pos, inserted,
                       answer, stored>>
    BY DEF SelectNodes, Goto, tables
  <1>2. VisibleNodes(h) \subseteq Requests \X Keys
    BY DEF VisibleNodes, OwnNodes, TypeOK
  <1>3. TypeOK'
    BY <1>1, <1>2 DEF TypeOK, Stages, Open
  <1>4. /\ pc'[h] = "insert_results"
        /\ node_ids'[h] = rows
        /\ \A g \in Requests : /\ g # h => pc'[g] = pc[g] /\ node_ids'[g] = node_ids[g]
                               /\ pc'[g] \in Open => pc[g] \in Open
    BY <1>1 DEF TypeOK, Open
  <1>5. RunLock' /\ NodeLock'
    BY <1>1, <1>4 DEF RunLock, NodeLock, NodeKeys
  <1>6. ASSUME NEW k \in BatchKeys(h)
        PROVE  \E n \in rows : n[2] = k
    <2>1. k \in NodeKeys \cup inserted[h]
      BY <1>1 DEF LookupProgress
    <2>2. CASE k \in NodeKeys
      BY <2>2 DEF NodeKeys, VisibleNodes
    <2>3. CASE k \in inserted[h]
      <3>1. <<h, k>> \in rows
        BY <2>3 DEF VisibleNodes, OwnNodes
      <3> QED
        BY <3>1
    <2> QED
      BY <2>1, <2>2, <2>3
  <1>7. LookupProgress'
    BY <1>1, <1>4, <1>6 DEF LookupProgress, NodeKeys, VisibleNodes, OwnNodes
  <1>8. CommitPoint'
    BY <1>1, <1>4 DEF CommitPoint, TypeOK
  <1>9. OneRowPerRun' /\ NodeUnique' /\ HistoryExact' /\ NothingPartial' /\ NoKeyError'
    BY <1>1 DEF OneRowPerRun, NodeUnique, HistoryExact, NothingPartial, NoKeyError
  <1> QED
    BY <1>3, <1>5, <1>7, <1>8, <1>9

\* What a transaction is about to publish: its rows keep (addr, sni) unique
\* and hold exactly one result per entry of the batch.
LEMMA NewRows ==
    ASSUME IndInv, NEW h \in Requests, pc[h] = "insert_results"
    PROVE  /\ h \notin probe_run
           /\ NewResults(h) \subseteq ResultRow
           /\ \A m, n \in node \cup OwnNodes(h) : m[2] = n[2] => m = n
           /\ \A x \in NewResults(h) : x.run_id = h /\ x.idx \in Batch(h)
           /\ \A i \in Batch(h) : \E n \in node \cup OwnNodes(h) :
                /\ n[2] = KeyAt(h, i)
                /\ {x \in NewResults(h) : x.idx = i}
                      = {[run_id |-> h, idx |-> i, node_id |-> n]}
  <1> USE DEF IndInv
  <1>1. h \notin probe_run
    BY DEF CommitPoint
  <1>2. node_ids[h] \subseteq Requests \X Keys
    BY DEF TypeOK
  <1>3. NewResults(h) \subseteq ResultRow
    BY <1>2, BatchType DEF NewResults, ResultRow
  <1>4. \A m, n \in node \cup OwnNodes(h) : m[2] = n[2] => m = n
    <2>1. pc[h] \in Open
      BY DEF Open
    <2>2. \A m \in node, n \in OwnNodes(h) : m[2] # n[2]
      BY <2>1 DEF NodeLock, NodeKeys, OwnNodes
    <2>3. \A m, n \in OwnNodes(h) : m[2] = n[2] => m = n
      BY DEF OwnNodes
    <2> QED
      BY <2>2, <2>3 DEF NodeUnique
  <1>5. \A x \in NewResults(h) : x.run_id = h /\ x.idx \in Batch(h)
    BY DEF NewResults
  <1>6. ASSUME NEW i \in Batch(h)
        PROVE  \E n \in node \cup OwnNodes(h) :
                 /\ n[2] = KeyAt(h, i)
                 /\ {x \in NewResults(h) : x.idx = i}
                       = {[run_id |-> h, idx |-> i, node_id |-> n]}
    <2>1. node_ids[h] \subseteq node \cup OwnNodes(h)
      BY DEF LookupProgress, VisibleNodes
    <2>2. PICK n \in node_ids[h] : n[2] = KeyAt(h, i)
      BY DEF LookupProgress, BatchKeys
    <2>3. [run_id |-> h, idx |-> i, node_id |-> n] \in NewResults(h)
      BY <2>2 DEF NewResults
    <2>4. ASSUME NEW x \in NewResults(h), x.idx = i
          PROVE  x = [run_id |-> h, idx |-> i, node_id |-> n]
      <3>1. x.node_id \in node_ids[h] /\ x.node_id[2] = KeyAt(h, i)
        BY <2>4 DEF NewResults
      <3>2. x.node_id = n
        BY <1>4, <2>1, <2>2, <3>1
      <3> QED
        BY <2>4, <3>2 DEF NewResults
    <2> QED
      BY <2>1, <2>2, <2>3, <2>4
  <1> QED
    BY <1>1, <1>3, <1>4, <1>5, <1>6

\* The commit: the only step that adds rows.
LEMMA CommitIndInv ==
    ASSUME IndInv, NEW h \in Requests, Commit(h)
    PROVE  IndInv'
  <1> USE DEF IndInv
  <1>1. pc[h] = "insert_results" /\ pc[h] \in Open
    BY DEF Commit, Open
  <1>2. BatchKeys(h) \subseteq {n[2] : n \in node_ids[h]}
    BY <1>1 DEF LookupProgress
  <1>3. /\ probe_run' = probe_run \cup {h}
        /\ node' = node \cup OwnNodes(h)
        /\ probe_result' = probe_result \cup NewResults(h)
        /\ pc' = [pc EXCEPT ![h] = "reply"]
        /\ UNCHANGED <<existing, pos, inserted, node_ids, answer, stored>>
    BY <1>2 DEF Commit, Goto, locals
  <1>4. OwnNodes(h) \subseteq Requests \X Keys
    BY DEF OwnNodes, TypeOK
  <1>5. TypeOK'
    BY <1>3, <1>4, NewRows, <1>1 DEF TypeOK, Stages
  <1>6. /\ pc'[h] = "reply"
        /\ \A g \in Requests : /\ g # h => pc'[g] = pc[g]
                               /\ pc'[g] \in Open => g # h /\ pc[g] \in Open
    BY <1>3 DEF TypeOK, Open
  <1>7. RunLock'
    BY <1>1, <1>3, <1>6 DEF RunLock
  <1>8. NodeKeys' = NodeKeys \cup inserted[h]
    <2>1. \A n \in OwnNodes(h) : n[2] \in inserted[h]
      BY DEF OwnNodes
    <2>2. ASSUME NEW k \in inserted[h]
          PROVE  \E n \in OwnNodes(h) : n[2] = k
      <3>1. <<h, k>> \in OwnNodes(h) /\ <<h, k>>[2] = k
        BY DEF OwnNodes
      <3> QED
        BY <3>1
    <2> QED
      BY <1>3, <2>1, <2>2 DEF NodeKeys
  <1>9. NodeLock'
    BY <1>1, <1>3, <1>6, <1>8 DEF NodeLock
  <1>10. LookupProgress'
    BY <1>3, <1>6, <1>8 DEF LookupProgress, VisibleNodes, OwnNodes
  <1>11. CommitPoint'
    BY <1>3, <1>6 DEF CommitPoint, TypeOK
  <1>12. OneRowPerRun'
    BY <1>1, <1>3 DEF OneRowPerRun, RunLock
  <1>13. NodeUnique'
    BY <1>1, <1>3, NewRows DEF NodeUnique
  <1>14. \A x \in probe_result : x.run_id # h
    BY <1>1, NewRows DEF NothingPartial
  <1>15. HistoryExact'
    <2> SUFFICES ASSUME NEW g \in probe_run', NEW i \in Batch(g)
                 PROVE  \E n \in node' :
                          /\ n[2] = KeyAt(g, i)
                          /\ {x \in probe_result' : x.run_id = g /\ x.idx = i}
                                = {[run_id |-> g, idx |-> i, node_id |-> n]}
      BY DEF HistoryExact
    <2>1. CASE g = h
      <3>1. {x \in probe_result' : x.run_id = h /\ x.idx = i}
               = {x \in NewResults(h) : x.idx = i}
        BY <1>1, <1>3, <1>14, NewRows
      <3> QED
        BY <1>1, <1>3, <2>1, <3>1, NewRows
    <2>2. CASE g # h
      <3>1. {x \in probe_result' : x.run_id = g /\ x.idx = i}
               = {x \in probe_result : x.run_id = g /\ x.idx = i}
        BY <1>1, <1>3, <2>2, NewRows
      <3>2. g \in probe_run
        BY <1>3, <2>2
      <3> QED
        BY <1>3, <3>1, <3>2 DEF HistoryExact
    <2> QED
      BY <2>1, <2>2
  <1>16. NothingPartial'
    <2>1. \A x \in probe_result' : x.run_id \in probe_run' /\ x.idx \in Batch(x.run_id)
      BY <1>1, <1>3, NewRows DEF NothingPartial
    <2>2. ASSUME NEW n \in node'
          PROVE  \E x \in probe_result' : x.node_id = n
      <3>1. CASE n \in node
        BY <1>3, <3>1 DEF NothingPartial
      <3>2. CASE n \in OwnNodes(h)
        <4>1. n[2] \in BatchKeys(h)
          BY <3>2 DEF OwnNodes, LookupProgress
        <4>2. PICK i \in Batch(h) : KeyAt(h, i) = n[2]
          BY <4>1 DEF BatchKeys
        <4>3. PICK m \in node \cup OwnNodes(h) :
                 /\ m[2] = KeyAt(h, i)
                 /\ {x \in NewResults(h) : x.idx = i}
                       = {[run_id |-> h, idx |-> i, node_id |-> m]}
          BY <1>1, NewRows
        <4>4. m = n
          BY <1>1, <3>2, <4>2, <4>3, NewRows
        <4>5. [run_id |-> h, idx |-> i, node_id |-> m] \in NewResults(h)
          BY <4>3
        <4> QED
          BY <1>3, <4>4, <4>5
      <3> QED
        BY <1>3, <3>1, <3>2
    <2> QED
      BY <2>1, <2>2 DEF NothingPartial
  <1>17. NoKeyError'
    BY <1>3 DEF NoKeyError
  <1> QED
    BY <1>5, <1>7, <1>9, <1>10, <1>11, <1>12, <1>13, <1>15, <1>16, <1>17

\* The count of a replay: a stored run has as many result rows as its batch
\* has entries.
LEMMA StoredCount ==
    ASSUME IndInv, NEW g \in probe_run
    PROVE  Cardinality({x \in probe_result : x.run_id = g}) = Len(Results(g))
  <1> DEFINE S == {x \in probe_result : x.run_id = g}
  <1> DEFINE f == [x \in S |-> x.idx]
  <1> USE DEF IndInv
  <1>1. g \in Requests
    BY DEF TypeOK
  <1>2. Len(Results(g)) \in Nat
    BY <1>1, BatchType
  <1>3. f \in [S -> Batch(g)]
    BY DEF NothingPartial
  <1>4. ASSUME NEW x \in S, NEW y \in S, f[x] = f[y]
        PROVE  x = y
    <2>1. x.idx \in Batch(g) /\ x.idx = y.idx
      BY <1>3, <1>4
    <2>2. PICK n \in node : {z \in probe_result : z.run_id = g /\ z.idx = x.idx}
                               = {[run_id |-> g, idx |-> x.idx, node_id |-> n]}
      BY <2>1 DEF HistoryExact
    <2> QED
      BY <2>1, <2>2
  <1>5. ASSUME NEW i \in Batch(g)
        PROVE  \E x \in S : f[x] = i
    <2>1. PICK n \in node : {z \in probe_result : z.run_id = g /\ z.idx = i}
                               = {[run_id |-> g, idx |-> i, node_id |-> n]}
      BY DEF HistoryExact
    <2>2. [run_id |-> g, idx |-> i, node_id |-> n] \in S
      BY <2>1
    <2>3. [run_id |-> g, idx |-> i, node_id |-> n].idx = i
      OBVIOUS
    <2> QED
      BY <2>2, <2>3
  <1>6. f \in Bijection(S, Batch(g))
    BY <1>3, <1>4, <1>5, Fun_IsBij
  <1>7. ExistsBijection(Batch(g), S)
    BY <1>6, Fun_ExistsBij, Fun_ExistsBijSymmetric
  <1>8. IsFiniteSet(Batch(g)) /\ Cardinality(Batch(g)) = Len(Results(g))
    BY <1>2, FS_Interval DEF Batch
  <1> QED
    BY <1>7, <1>8, FS_Bijection

\* The number a 201 carries is the size of the batch.
LEMMA AnswerCount ==
    ASSUME IndInv, NEW h \in Requests, CountStored(h) \/ Respond(h)
    PROVE  stored' = [stored EXCEPT ![h] = Len(Results(h))]
  <1> USE DEF IndInv
  <1>1. CASE CountStored(h)
    <2>1. PICK g \in existing[h] : TRUE
      BY <1>1 DEF CountStored, CommitPoint
    <2>2. g \in probe_run /\ RunOf[g] = RunOf[h]
      BY <1>1, <2>1 DEF CountStored, CommitPoint
    <2>3. existing[h] = {g}
      BY <1>1, <2>1, <2>2 DEF CountStored, CommitPoint, OneRowPerRun
    <2>4. {x \in probe_result : x.run_id \in existing[h]}
             = {x \in probe_result : x.run_id = g}
      BY <2>3
    <2>5. Len(Results(g)) = Len(Results(h))
      BY <2>2 DEF Results
    <2> QED
      BY <1>1, <2>2, <2>4, <2>5, StoredCount DEF CountStored
  <1>2. CASE Respond(h)
    BY <1>2 DEF Respond
  <1> QED
    BY <1>1, <1>2

\* One step of the ingest path.
LEMMA NextIndInv == IndInv /\ [Next]_vars => IndInv'
  <1> SUFFICES ASSUME IndInv, [Next]_vars PROVE IndInv'
    OBVIOUS
  <1>1. CASE UNCHANGED vars
    BY <1>1 DEF vars, tables, locals, IndInv, TypeOK, RunLock, NodeLock,
       LookupProgress, CommitPoint, OneRowPerRun, NodeUnique, HistoryExact,
       NothingPartial, NoKeyError, NodeKeys, VisibleNodes, OwnNodes
  <1>2. ASSUME NEW h \in Requests,
               Receive(h) \/ Step(h) \/ Fail(h) \/ DeadlockVictim(h)
        PROVE  IndInv'
    <2>1. CASE Receive(h)
      BY <2>1, ReceiveIndInv
    <2>2. CASE SelectExisting(h)
      BY <2>2, SelectExistingIndInv
    <2>3. CASE CountStored(h) \/ Respond(h)
      <3>1. stored' \in [Requests -> Nat]
        BY <2>3, AnswerCount, BatchType DEF IndInv, TypeOK
      <3> QED
        BY <2>3, <3>1, AnswerIndInv
    <2>4. CASE InsertRun(h)
      BY <2>4, InsertRunIndInv
    <2>5. CASE InsertNode(h)
      BY <2>5, InsertNodeIndInv
    <2>6. CASE NodesInserted(h)
      BY <2>6, NodesInsertedIndInv
    <2>7. CASE SelectNodes(h)
      BY <2>7, SelectNodesIndInv
    <2>8. CASE Commit(h)
      BY <2>8, CommitIndInv
    <2>9. CASE Fail(h) \/ DeadlockVictim(h)
      BY <2>9, AbortIndInv DEF Fail, DeadlockVictim, Failures
    <2> QED
      BY <1>2, <2>1, <2>2, <2>3, <2>4, <2>5, <2>6, <2>7, <2>8, <2>9 DEF Step
  <1> QED
    BY <1>1, <1>2 DEF Next

\* The inductive invariant holds throughout every behaviour.
THEOREM Invariance == SafeSpec => []IndInv
  BY InitIndInv, NextIndInv, PTL DEF SafeSpec

\* The tables hold well-formed rows and the handlers are in known states.
THEOREM TypeCorrect == SafeSpec => []TypeOK
  <1>1. IndInv => TypeOK
    BY DEF IndInv
  <1> QED
    BY <1>1, Invariance, PTL

\* A run_id is stored at most once, however many of its posts are in flight.
THEOREM AtMostOnce == SafeSpec => []OneRowPerRun
  <1>1. IndInv => OneRowPerRun
    BY DEF IndInv
  <1> QED
    BY <1>1, Invariance, PTL

\* (addr, sni) stays unique although handlers upsert the same new keys.
THEOREM NodesUnique == SafeSpec => []NodeUnique
  <1>1. IndInv => NodeUnique
    BY DEF IndInv
  <1> QED
    BY <1>1, Invariance, PTL

\* A stored run has exactly one result per entry, each on the right node.
THEOREM StoredExactly == SafeSpec => []HistoryExact
  <1>1. IndInv => HistoryExact
    BY DEF IndInv
  <1> QED
    BY <1>1, Invariance, PTL

\* No part of a run is ever visible without the rest.
THEOREM AllOrNothing == SafeSpec => []NothingPartial
  <1>1. IndInv => NothingPartial
    BY DEF IndInv
  <1> QED
    BY <1>1, Invariance, PTL

\* node_ids[(addr, sni)] never raises KeyError.
THEOREM LookupComplete == SafeSpec => []NoKeyError
  <1>1. IndInv => NoKeyError
    BY DEF IndInv
  <1> QED
    BY <1>1, Invariance, PTL

\* A step either answers one request, and with a 201 only about a stored run
\* and with the size of its batch, or leaves every answer alone.
LEMMA AnswerStep ==
    ASSUME IndInv, NEW h \in Requests,
           Receive(h) \/ Step(h) \/ Fail(h) \/ DeadlockVictim(h)
    PROVE  /\ probe_run \subseteq probe_run'
           /\ \/ UNCHANGED <<answer, stored>>
              \/ \E why \in Failures : /\ answer' = [answer EXCEPT ![h] = why]
                                       /\ UNCHANGED stored
              \/ /\ \E a \in {"created", "duplicate"} : answer' = [answer EXCEPT ![h] = a]
                 /\ stored' = [stored EXCEPT ![h] = Len(Results(h))]
                 /\ \E x \in probe_run : RunOf[x] = RunOf[h]
  <1>1. CASE CountStored(h) \/ Respond(h)
    <2>1. \E x \in probe_run : RunOf[x] = RunOf[h]
      BY <1>1 DEF CountStored, Respond, IndInv, CommitPoint
    <2>2. /\ \E a \in {"created", "duplicate"} : answer' = [answer EXCEPT ![h] = a]
          /\ UNCHANGED probe_run
      BY <1>1 DEF CountStored, Respond, tables
    <2> QED
      BY <1>1, <2>1, <2>2, AnswerCount
  <1>2. CASE \E why \in Failures : Abort(h, why)
    BY <1>2 DEF Abort, tables
  <1>3. CASE /\ probe_run \subseteq probe_run'
             /\ UNCHANGED <<answer, stored>>
    BY <1>3
  <1>4. CASE Receive(h)
    BY <1>2, <1>3, <1>4 DEF Receive, Failures, tables
  <1>5. CASE \/ SelectExisting(h) \/ InsertRun(h) \/ InsertNode(h)
             \/ NodesInserted(h) \/ SelectNodes(h)
    BY <1>2, <1>3, <1>5 DEF SelectExisting, InsertRun, InsertNode, NodesInserted,
                            SelectNodes, Failures, tables
  <1>6. CASE Commit(h)
    BY <1>2, <1>3, <1>6 DEF Commit, Failures
  <1>7. CASE Fail(h) \/ DeadlockVictim(h)
    BY <1>2, <1>7 DEF Fail, DeadlockVictim, Failures
  <1> QED
    BY <1>1, <1>4, <1>5, <1>6, <1>7 DEF Step

\* Every 201, of the original or of a replay, is about a stored run and
\* carries the size of its batch, and remains so.
THEOREM AcksAreTruthful == SafeSpec => []AckTruthful
  <1>1. Init => AckTruthful
    BY DEF Init, AckTruthful
  <1>2. IndInv /\ AckTruthful /\ [Next]_vars => AckTruthful'
    <2> SUFFICES ASSUME IndInv, AckTruthful, [Next]_vars PROVE AckTruthful'
      OBVIOUS
    <2>1. CASE UNCHANGED vars
      BY <2>1 DEF vars, tables, AckTruthful
    <2>2. ASSUME NEW h \in Requests,
                 Receive(h) \/ Step(h) \/ Fail(h) \/ DeadlockVictim(h)
          PROVE  AckTruthful'
      <3>1. answer \in [Requests -> Answers] /\ stored \in [Requests -> Nat]
        BY DEF IndInv, TypeOK
      <3>2. probe_run \subseteq probe_run'
        BY <2>2, AnswerStep
      <3>3. CASE UNCHANGED <<answer, stored>>
        BY <3>2, <3>3 DEF AckTruthful
      <3>4. CASE \E why \in Failures : /\ answer' = [answer EXCEPT ![h] = why]
                                       /\ UNCHANGED stored
        BY <3>1, <3>2, <3>4 DEF AckTruthful, Failures
      <3>5. CASE /\ \E a \in {"created", "duplicate"} :
                       answer' = [answer EXCEPT ![h] = a]
                 /\ stored' = [stored EXCEPT ![h] = Len(Results(h))]
                 /\ \E x \in probe_run : RunOf[x] = RunOf[h]
        BY <3>1, <3>2, <3>5 DEF AckTruthful
      <3> QED
        BY <2>2, <3>3, <3>4, <3>5, AnswerStep
    <2> QED
      BY <2>1, <2>2 DEF Next
  <1> QED
    BY <1>1, <1>2, Invariance, PTL DEF SafeSpec
=============================================================================
