--------------------- MODULE ProbestoreRefinementProofs ---------------------
(***************************************************************************)
(* The ingest path implements RunStore, for every set of requests, every   *)
(* payload and every interleaving.                                         *)
(***************************************************************************)
EXTENDS ProbestoreProofs, ProbestoreRefinement

\* AnsweredOnce is inductive.
LEMMA AnsweredOnceInvariant == SafeSpec => []AnsweredOnce
  <1>1. Init => AnsweredOnce
    BY DEF Init, AnsweredOnce
  <1>2. IndInv /\ AnsweredOnce /\ [Next]_vars => AnsweredOnce'
    <2> SUFFICES ASSUME IndInv, AnsweredOnce, [Next]_vars PROVE AnsweredOnce'
      OBVIOUS
    <2>1. CASE UNCHANGED vars
      BY <2>1 DEF vars, tables, AnsweredOnce
    <2>2. ASSUME NEW h \in Requests,
                 Receive(h) \/ Step(h) \/ Fail(h) \/ DeadlockVictim(h)
          PROVE  AnsweredOnce'
      <3>1. pc \in [Requests -> Stages] /\ answer \in [Requests -> Answers]
        BY DEF IndInv, TypeOK
      <3>2. ASSUME NEW why, Abort(h, why) PROVE AnsweredOnce'
        BY <3>1, <3>2 DEF Abort, Goto, tables, AnsweredOnce
      <3>3. ASSUME NEW stage \in Stages \ {"new", "done"}, Valid(h),
                   answer[h] = "none", pc' = [pc EXCEPT ![h] = stage],
                   probe_run' \subseteq probe_run \cup {h}, UNCHANGED answer
            PROVE  AnsweredOnce'
        BY <3>1, <3>3 DEF AnsweredOnce
      <3>4. pc[h] \notin {"new", "done"} => Valid(h) /\ answer[h] = "none"
        BY <3>1 DEF AnsweredOnce
      <3>5. pc[h] = "new" => answer[h] = "none"
        BY DEF AnsweredOnce
      <3>6. CASE Receive(h)
        BY <3>2, <3>3, <3>5, <3>6 DEF Receive, Goto, tables, Stages
      <3>7. CASE CountStored(h) \/ Respond(h)
        BY <3>1, <3>7 DEF CountStored, Respond, Goto, tables, AnsweredOnce
      <3>8. CASE SelectExisting(h)
        BY <3>3, <3>4, <3>8 DEF SelectExisting, Goto, tables, Stages
      <3>9. CASE InsertRun(h)
        BY <3>2, <3>3, <3>4, <3>9 DEF InsertRun, Goto, tables, Stages, Open
      <3>10. CASE InsertNode(h)
        BY <3>10 DEF InsertNode, tables, AnsweredOnce
      <3>11. CASE NodesInserted(h) \/ SelectNodes(h)
        BY <3>3, <3>4, <3>11 DEF NodesInserted, SelectNodes, Goto, tables, Stages, Open
      <3>12. CASE Commit(h)
        BY <3>2, <3>3, <3>4, <3>12 DEF Commit, Goto, Stages
      <3>13. CASE Fail(h) \/ DeadlockVictim(h)
        BY <3>2, <3>13 DEF Fail, DeadlockVictim
      <3> QED
        BY <2>2, <3>6, <3>7, <3>8, <3>9, <3>10, <3>11, <3>12, <3>13 DEF Step
    <2> QED
      BY <2>1, <2>2 DEF Next
  <1> QED
    BY <1>1, <1>2, Invariance, PTL DEF SafeSpec

\* The committing step is Store: its run had no row, and what becomes visible
\* is one complete copy of the batch.
LEMMA CommitStores ==
    ASSUME IndInv, NEW h \in Requests, pc[h] = "insert_results",
           probe_result' = probe_result \cup NewResults(h), UNCHANGED answer
    PROVE  Abstract!Store(RunOf[h])
  <1> DEFINE r == RunOf[h]
  <1> DEFINE new == {h} \X ContentsOf[r]
  <1> DEFINE entry(x) == <<x.run_id, <<x.idx, x.node_id[2]>> >>
  <1>1. r \in Runs
    BY PayloadAssumption
  <1>2. \A x \in probe_result : x.run_id \in probe_run /\ RunOf[x.run_id] # r
    BY DEF IndInv, NothingPartial, RunLock, Open
  <1>3. StoredOf(r) = {}
    BY <1>2 DEF StoredOf
  <1>4. ContentsOf[r] = {<<i, KeyAt(h, i)>> : i \in Batch(h)}
    <2>1. DOMAIN Results(h) = Batch(h)
      BY BatchType DEF Batch
    <2> QED
      BY <1>1, <2>1 DEF ContentsOf, Results, KeyAt
  <1>5. \A x \in NewResults(h) : entry(x) \in new
    BY <1>4, NewRows DEF NewResults
  <1>6. ASSUME NEW e \in new
        PROVE  \E x \in NewResults(h) : entry(x) = e
    <2>1. PICK i \in Batch(h) : e = <<h, <<i, KeyAt(h, i)>> >>
      BY <1>4
    <2>2. PICK n \in node \cup OwnNodes(h) :
             /\ n[2] = KeyAt(h, i)
             /\ {x \in NewResults(h) : x.idx = i}
                   = {[run_id |-> h, idx |-> i, node_id |-> n]}
      BY NewRows
    <2>3. [run_id |-> h, idx |-> i, node_id |-> n] \in NewResults(h)
      BY <2>2
    <2>4. entry([run_id |-> h, idx |-> i, node_id |-> n]) = e
      BY <2>1, <2>2
    <2> QED
      BY <2>3, <2>4
  <1>7. StoredOf(r)' = new
    <2>1. \A y \in NewResults(h) : y.run_id = h
      BY NewRows
    <2>2. {y \in probe_result' : RunOf[y.run_id] = r} = NewResults(h)
      BY <1>2, <2>1
    <2>3. StoredOf(r)' = {entry(x) : x \in NewResults(h)}
      BY <2>2 DEF StoredOf
    <2> QED
      BY <1>5, <1>6, <2>3
  <1>8. ASSUME NEW q \in Runs, q # r
        PROVE  StoredOf(q)' = StoredOf(q)
    <2>1. {y \in probe_result' : RunOf[y.run_id] = q}
             = {y \in probe_result : RunOf[y.run_id] = q}
      BY <1>8, NewRows
    <2> QED
      BY <2>1 DEF StoredOf
  <1>9. StoredRuns' = [StoredRuns EXCEPT ![r] = new]
    BY <1>1, <1>7, <1>8 DEF StoredRuns
  <1>10. StoredRuns[r] = {}
    BY <1>1, <1>3 DEF StoredRuns
  <1>11. UNCHANGED AckedRuns
    BY DEF AckedRuns
  <1> QED
    BY <1>9, <1>10, <1>11 DEF Abstract!Store

\* A 201 is Acknowledge: the run it is about has at least one stored entry.
LEMMA AnswerAcknowledges ==
    ASSUME IndInv, AnsweredOnce, NEW h \in Requests,
           NEW a \in {"created", "duplicate"}, NEW x \in probe_run,
           RunOf[x] = RunOf[h],
           answer' = [answer EXCEPT ![h] = a], UNCHANGED probe_result
    PROVE  Abstract!Acknowledge(RunOf[h])
  <1> DEFINE r == RunOf[h]
  <1>1. x \in Requests /\ r \in Runs /\ answer \in [Requests -> Answers]
    BY PayloadAssumption DEF IndInv, TypeOK
  <1>2. Results(x) # <<>>
    BY <1>1 DEF AnsweredOnce, Valid
  <1>3. 1 \in Batch(x)
    BY <1>1, <1>2, BatchType DEF Batch
  <1>4. PICK n \in node : {y \in probe_result : y.run_id = x /\ y.idx = 1}
                             = {[run_id |-> x, idx |-> 1, node_id |-> n]}
    BY <1>3 DEF IndInv, HistoryExact
  <1>5. \E y \in probe_result : RunOf[y.run_id] = r
    BY <1>4
  <1>6. StoredRuns[r] # {}
    BY <1>1, <1>5 DEF StoredRuns, StoredOf
  <1>7. AckedRuns' = AckedRuns \cup {r}
    BY <1>1 DEF AckedRuns
  <1>8. UNCHANGED StoredRuns
    BY DEF StoredRuns, StoredOf
  <1> QED
    BY <1>6, <1>7, <1>8 DEF Abstract!Acknowledge

\* Every other step is invisible.
LEMMA FailureStutters ==
    ASSUME IndInv, AnsweredOnce, NEW h \in Requests, NEW why \in Failures,
           pc[h] # "done", Abort(h, why)
    PROVE  UNCHANGED <<StoredRuns, AckedRuns>>
  <1>1. answer \in [Requests -> Answers] /\ answer[h] = "none"
    BY DEF IndInv, TypeOK, AnsweredOnce
  <1>2. answer' = [answer EXCEPT ![h] = why] /\ UNCHANGED probe_result
    BY DEF Abort, tables
  <1>3. {g \in Requests : answer'[g] \in {"created", "duplicate"}}
           = {g \in Requests : answer[g] \in {"created", "duplicate"}}
    BY <1>1, <1>2 DEF Failures
  <1>4. UNCHANGED AckedRuns
    BY <1>3 DEF AckedRuns
  <1> QED
    BY <1>2, <1>4 DEF StoredRuns, StoredOf

\* The ingest path, with crashes, rival handlers, replays and deadlocks, is
\* an implementation of the run store its documentation promises.
THEOREM Refinement == SafeSpec => ImplementsRunStore
  <1>1. Init => Abstract!RInit
    BY DEF Init, Abstract!RInit, StoredRuns, StoredOf, AckedRuns
  <1>2. IndInv /\ AnsweredOnce /\ [Next]_vars
          => [Abstract!RNext]_<<StoredRuns, AckedRuns>>
    <2> SUFFICES ASSUME IndInv, AnsweredOnce, [Next]_vars
                 PROVE  \/ \E r \in Runs : Abstract!Store(r) \/ Abstract!Acknowledge(r)
                        \/ UNCHANGED <<StoredRuns, AckedRuns>>
      BY DEF Abstract!RNext
    <2>1. CASE UNCHANGED <<probe_result, answer>>
      BY <2>1 DEF StoredRuns, StoredOf, AckedRuns
    <2>2. ASSUME NEW h \in Requests,
                 Receive(h) \/ Step(h) \/ Fail(h) \/ DeadlockVictim(h)
          PROVE  \/ \E r \in Runs : Abstract!Store(r) \/ Abstract!Acknowledge(r)
                 \/ UNCHANGED <<StoredRuns, AckedRuns>>
      <3>1. RunOf[h] \in Runs
        BY PayloadAssumption
      <3>2. CASE Receive(h)
        BY <2>1, <3>2, FailureStutters DEF Receive, tables, Failures
      <3>3. CASE SelectExisting(h) \/ InsertNode(h) \/ NodesInserted(h) \/ SelectNodes(h)
        BY <2>1, <3>3 DEF SelectExisting, InsertNode, NodesInserted, SelectNodes, tables
      <3>4. CASE InsertRun(h)
        BY <2>1, <3>4, FailureStutters DEF InsertRun, tables, Failures
      <3>5. CASE CountStored(h) \/ Respond(h)
        <4>1. PICK x \in probe_run : RunOf[x] = RunOf[h]
          BY <3>5 DEF CountStored, Respond, IndInv, CommitPoint
        <4>2. UNCHANGED probe_result
          BY <3>5 DEF CountStored, Respond, tables
        <4>3. PICK a \in {"created", "duplicate"} : answer' = [answer EXCEPT ![h] = a]
          BY <3>5 DEF CountStored, Respond
        <4> QED
          BY <3>1, <4>1, <4>2, <4>3, AnswerAcknowledges
      <3>6. CASE Commit(h)
        <4>1. pc[h] = "insert_results"
          BY <3>6 DEF Commit
        <4>2. CASE Abort(h, "key_error")
          BY <4>1, <4>2, FailureStutters DEF Failures
        <4>3. CASE probe_result' = probe_result \cup NewResults(h) /\ UNCHANGED answer
          BY <3>1, <4>1, <4>3, CommitStores
        <4> QED
          BY <3>6, <4>2, <4>3 DEF Commit
      <3>7. CASE Fail(h)
        BY <3>7, FailureStutters DEF Fail, Failures
      <3>8. CASE DeadlockVictim(h)
        <4>1. pc[h] \in {"insert_run", "insert_nodes"}
          BY <3>8 DEF DeadlockVictim, WaitsFor, WaitsForRun, WaitsForNode
        <4> QED
          BY <3>8, <4>1, FailureStutters DEF DeadlockVictim, Failures
      <3> QED
        BY <2>2, <3>2, <3>3, <3>4, <3>5, <3>6, <3>7, <3>8 DEF Step
    <2> QED
      BY <2>1, <2>2 DEF Next, vars, tables
  <1> QED
    BY <1>1, <1>2, Invariance, AnsweredOnceInvariant, PTL
       DEF SafeSpec, ImplementsRunStore, Abstract!RSpec
=============================================================================
