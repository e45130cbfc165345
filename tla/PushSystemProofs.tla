-------------------------- MODULE PushSystemProofs --------------------------
(***************************************************************************)
(* Proofs about agents pushing to probestore, for every set of agents,     *)
(* every payload, every number of attempts and of faults.                  *)
(***************************************************************************)
EXTENDS PushSystem, ProbestoreProofs

-----------------------------------------------------------------------------
(* The inductive invariant.                                                *)

\* What an answer says about the request: only an admitted request gets a
\* transaction, a refusal has its reason in the request itself, and a unique
\* violation means that the run is stored already.
Refusals ==
    \A h \in Requests :
        /\ pc[h] = "done" <=> answer[h] # "none"
        /\ pc[h] \notin {"new", "done"} \/ h \in probe_run =>
              h \in Authorized /\ Valid(h)
        /\ answer[h] = "unauthorized" => h \notin Authorized
        /\ answer[h] = "unprocessable" => ~Valid(h)
        /\ answer[h] = "integrity_error" => StoredRun(h[1])

\* A request the agent has not sent has not reached a handler.
Dispatch ==
    /\ \A h \in Requests : h \notin sent => pc[h] = "new"
    /\ \A a \in Agents : \A i \in 1 .. MaxAttempts :
          \/ i > attempt[a]
          \/ i = attempt[a] /\ cpc[a] \in {"idle", "post", "backoff"}
          => <<a, i>> \notin sent

\* What pushResults returned, in terms of the run.
Conclusions ==
    \A a \in Agents :
        /\ verdict[a] # "none" => cpc[a] = "returned"
        /\ verdict[a] = "ok" => StoredRun(a)
        /\ verdict[a] = "permanent" =>
              \A i \in 1 .. MaxAttempts : ~(<<a, i>> \in Authorized /\ Valid(<<a, i>>))

Acceptable(a) == \A i \in 1 .. MaxAttempts : <<a, i>> \in Authorized /\ Valid(<<a, i>>)

\* The run is stored and the attempt under way cannot meet a unique
\* violation any more: its first SELECT found the row or will find it.
Settled(a) == /\ StoredRun(a)
              /\ pc[Current(a)] \in {"new", "select", "count", "done"}
              /\ answer[Current(a)] # "integrity_error"

\* Whether a fault has already decided the attempt under way.
Spent(a) == answer[Current(a)] \in {"lost", "deadlock"}

\* Before the deadline an acceptable run uses up one attempt for every fault
\* and at most one more, for the unique violation of a retry that raced the
\* handler of an attempt given up before.
RetryBudget ==
    \A a \in Agents : Acceptable(a) /\ ~expired[a] /\ cpc[a] # "returned" =>
        attempt[a] + (IF Spent(a) THEN 1 ELSE 0)
           <= 1 + faults[a] + (IF Settled(a) THEN 1 ELSE 0)

\* As long as the faults leave two attempts over, the push succeeds.
FaultsTolerated ==
    \A a \in Agents : Acceptable(a) /\ ~expired[a] /\ faults[a] + 2 <= MaxAttempts =>
        verdict[a] \in {"none", "ok"}

ClientTypes == /\ cpc \in [Agents -> ClientStages]
               /\ attempt \in [Agents -> 1 .. MaxAttempts]
               /\ expired \in [Agents -> BOOLEAN]
               /\ verdict \in [Agents -> Verdicts]
               /\ sent \subseteq Requests
               /\ faults \in [Agents -> Nat]
               /\ scenario \in Scenarios

PushInv == /\ IndInv
           /\ ClientTypes
           /\ Refusals
           /\ Dispatch
           /\ Conclusions
           /\ RetryBudget
           /\ FaultsTolerated

-----------------------------------------------------------------------------
(* The store under its clients.                                            *)

\* A request is an attempt of an agent and carries the agent's run.
LEMMA RequestShape ==
    /\ MaxAttempts \in Nat \ {0}
    /\ \A a \in Agents : \A i \in 1 .. MaxAttempts :
          <<a, i>> \in Requests /\ RunOf[<<a, i>>] = a
    /\ \A h \in Requests : /\ h[1] \in Agents /\ h[2] \in 1 .. MaxAttempts
                           /\ h = <<h[1], h[2]>>
                           /\ RunOf[h] = h[1]
  BY AgentsAssumption

\* The attempts of an agent are accepted or refused together.
LEMMA SameFate ==
    ASSUME NEW a \in Agents, NEW i \in 1 .. MaxAttempts, NEW j \in 1 .. MaxAttempts
    PROVE  /\ <<a, i>> \in Authorized => <<a, j>> \in Authorized
           /\ Valid(<<a, i>>) <=> Valid(<<a, j>>)
  BY RequestShape, AgentsAssumption DEF Valid, Results, Batch

\* To the store a step of an agent is no step, and the rest is its own.
LEMMA StoreStep == [PushNext]_pushVars => [Next]_vars
  <1> SUFFICES ASSUME [PushNext]_pushVars PROVE [Next]_vars
    OBVIOUS
  <1>1. CASE UNCHANGED pushVars
    BY <1>1 DEF pushVars
  <1>2. ASSUME NEW a \in Agents, \/ ClientStep(a) \/ PostRefused(a)
                                 \/ ConnectionLost(a) \/ Deadline(a)
        PROVE  UNCHANGED vars
    BY <1>2 DEF ClientStep, PostSent, PostRefused, PostCancelled, GetResponse,
       ConnectionLost, Deadline, WaitCancelled, BackoffElapsed, BackoffCancelled
  <1>3. ASSUME NEW h \in Requests, ServerReceive(h) \/ ServerStep(h) \/ ServerFault(h)
        PROVE  Next
    BY <1>3 DEF ServerReceive, ServerStep, ServerFault, Next
  <1> QED
    BY <1>1, <1>2, <1>3 DEF PushNext

\* Behind its clients the store behaves as it does on its own, so that all
\* that is proved of it holds of the composition.
THEOREM StoreUnchanged == PushSpec => SafeSpec
  <1>1. PushInit => Init
    BY DEF PushInit
  <1> QED
    BY <1>1, StoreStep, PTL DEF PushSpec, SafeSpec

-----------------------------------------------------------------------------
(* One step of a handler, as its clients see it.                           *)

\* The handler of h goes from pc[h] to s and answers w, or none.
Moves(h, s, w) ==
    \/ /\ pc[h] = "new" /\ s = "select" /\ w = "none"
       /\ h \in Authorized /\ Valid(h)
       /\ UNCHANGED probe_run
    \/ /\ pc[h] = "new" /\ s = "done"
       /\ \/ w = "unauthorized" /\ h \notin Authorized
          \/ w = "unprocessable" /\ ~Valid(h)
       /\ UNCHANGED probe_run
    \/ /\ pc[h] = "select" /\ w = "none"
       /\ s = IF StoredRun(h[1]) THEN "count" ELSE "insert_run"
       /\ UNCHANGED probe_run
    \/ pc[h] = "count" /\ s = "done" /\ w = "duplicate" /\ UNCHANGED probe_run
    \/ /\ pc[h] = "insert_run" /\ s = "done" /\ w = "integrity_error"
       /\ StoredRun(h[1])
       /\ UNCHANGED probe_run
    \/ /\ pc[h] \in {"insert_run"} \cup Open /\ s \in Open /\ w = "none"
       /\ UNCHANGED probe_run
    \/ /\ pc[h] = "insert_results" /\ s = "reply" /\ w = "none"
       /\ probe_run' = probe_run \cup {h}
    \/ pc[h] = "reply" /\ s = "done" /\ w = "created" /\ UNCHANGED probe_run

\* The handler of h is hit by a fault.
Dies(h, s, w) == /\ pc[h] \notin {"new", "done"}
                 /\ s = "done" /\ w \in {"lost", "deadlock"}
                 /\ UNCHANGED probe_run

\* A run is stored exactly when a row carries its run_id.
LEMMA StoredRunRow ==
    ASSUME TypeOK, NEW h \in Requests
    PROVE  StoredRun(h[1]) <=> \E x \in probe_run : RunOf[x] = RunOf[h]
  BY RequestShape DEF StoredRun, TypeOK

\* Every step of a handler is one of these.
LEMMA HandlerStep ==
    ASSUME IndInv, Refusals, NEW h \in Requests
    PROVE  /\ Receive(h) \/ Step(h) =>
                \E s \in Stages, w \in Answers :
                    /\ pc' = [pc EXCEPT ![h] = s]
                    /\ answer' = [answer EXCEPT ![h] = w]
                    /\ Moves(h, s, w)
           /\ Fail(h) \/ DeadlockVictim(h) =>
                \E s \in Stages, w \in Answers :
                    /\ pc' = [pc EXCEPT ![h] = s]
                    /\ answer' = [answer EXCEPT ![h] = w]
                    /\ Dies(h, s, w)
  <1> DEFINE Moved == \E s \in Stages, w \in Answers :
                        /\ pc' = [pc EXCEPT ![h] = s]
                        /\ answer' = [answer EXCEPT ![h] = w]
                        /\ Moves(h, s, w)
  <1> DEFINE Died == \E s \in Stages, w \in Answers :
                        /\ pc' = [pc EXCEPT ![h] = s]
                        /\ answer' = [answer EXCEPT ![h] = w]
                        /\ Dies(h, s, w)
  <1>1. TypeOK
    BY DEF IndInv
  <1>2. pc[h] # "done" => answer = [answer EXCEPT ![h] = "none"]
    BY <1>1 DEF TypeOK, Refusals
  <1>3. /\ {"none", "created", "duplicate", "unauthorized", "unprocessable",
            "integrity_error", "deadlock", "lost"} \subseteq Answers
        /\ {"select", "count", "insert_run", "insert_nodes", "select_nodes",
            "insert_results", "reply", "done"} \subseteq Stages
        /\ Open \subseteq Stages
    BY DEF Answers, Failures, Stages, Open
  <1>4. ASSUME Receive(h) PROVE Moved
    BY <1>2, <1>3, <1>4 DEF Receive, Abort, Goto, tables, Moves
  <1>5. ASSUME SelectExisting(h) PROVE Moved
    <2>1. existing'[h] = {x \in probe_run : RunOf[x] = RunOf[h]}
      BY <1>1, <1>5 DEF SelectExisting, TypeOK
    <2>2. existing'[h] = {} <=> ~StoredRun(h[1])
      BY <1>1, <2>1, StoredRunRow
    <2> QED
      BY <1>2, <1>3, <1>5, <2>2 DEF SelectExisting, Goto, tables, Moves
  <1>6. ASSUME CountStored(h) \/ Respond(h) PROVE Moved
    BY <1>3, <1>6 DEF CountStored, Respond, Goto, tables, Moves
  <1>7. ASSUME InsertRun(h) PROVE Moved
    BY <1>1, <1>2, <1>3, <1>7, StoredRunRow DEF InsertRun, Abort, Goto, tables, Moves, Open
  <1>8. ASSUME InsertNode(h) PROVE Moved
    <2>1. pc' = [pc EXCEPT ![h] = "insert_nodes"]
      BY <1>1, <1>8 DEF InsertNode, TypeOK
    <2> QED
      BY <1>2, <1>3, <1>8, <2>1 DEF InsertNode, tables, Moves, Open
  <1>9. ASSUME NodesInserted(h) \/ SelectNodes(h) PROVE Moved
    BY <1>2, <1>3, <1>9 DEF NodesInserted, SelectNodes, Goto, tables, Moves, Open
  <1>10. ASSUME Commit(h) PROVE Moved
    <2>1. BatchKeys(h) \subseteq {n[2] : n \in node_ids[h]}
      BY <1>10 DEF Commit, IndInv, LookupProgress
    <2> QED
      BY <1>2, <1>3, <1>10, <2>1 DEF Commit, Goto, Moves
  <1>11. ASSUME Fail(h) PROVE Died
    BY <1>3, <1>11 DEF Fail, Abort, Goto, tables, Dies
  <1>12. ASSUME DeadlockVictim(h) PROVE Died
    <2>1. PICK d : WaitsFor(h, d)
      BY <1>12 DEF DeadlockVictim
    <2>2. pc[h] \in {"insert_run", "insert_nodes"}
      BY <2>1 DEF WaitsFor, WaitsForRun, WaitsForNode
    <2> QED
      BY <1>3, <1>12, <2>2 DEF DeadlockVictim, Abort, Goto, tables, Dies
  <1> QED
    BY <1>4, <1>5, <1>6, <1>7, <1>8, <1>9, <1>10, <1>11, <1>12 DEF Step

\* The server's side of the invariant survives every step of a handler.
LEMMA HandlerRefusals ==
    ASSUME IndInv, Refusals, NEW h \in Requests, NEW s \in Stages, NEW w \in Answers,
           pc' = [pc EXCEPT ![h] = s], answer' = [answer EXCEPT ![h] = w],
           Moves(h, s, w) \/ Dies(h, s, w)
    PROVE  /\ Refusals'
           /\ probe_run \subseteq probe_run'
           /\ pc[h] # "done"
           /\ pc[h] = "new" => s \in {"select", "done"}
  <1>1. TypeOK
    BY DEF IndInv
  <1>2. /\ pc'[h] = s /\ answer'[h] = w
        /\ \A g \in Requests : g # h => pc'[g] = pc[g] /\ answer'[g] = answer[g]
    BY <1>1 DEF TypeOK
  <1>3. /\ probe_run \subseteq probe_run' /\ pc[h] # "done"
        /\ pc[h] = "new" => s \in {"select", "done"}
        /\ probe_run' \subseteq probe_run \cup {h}
        /\ h \in probe_run' => h \in probe_run \/ pc[h] = "insert_results"
        /\ s = "done" <=> w # "none"
        /\ s # "new"
        /\ w = "unauthorized" => h \notin Authorized
        /\ w = "unprocessable" => ~Valid(h)
        /\ w = "integrity_error" => StoredRun(h[1])
        /\ pc[h] = "new" /\ s # "done" => h \in Authorized /\ Valid(h)
    BY DEF Moves, Dies, Open
  <1>4. \A a : StoredRun(a) => StoredRun(a)'
    BY <1>3 DEF StoredRun
  <1> QED
    BY <1>2, <1>3, <1>4 DEF Refusals

-----------------------------------------------------------------------------
(* Preservation.                                                           *)

\* At first nothing is sent, stored or answered.
LEMMA InitPushInv == PushInit => PushInv
  <1> SUFFICES ASSUME PushInit PROVE PushInv
    OBVIOUS
  <1>1. IndInv
    BY InitIndInv DEF PushInit
  <1>2. ClientTypes
    BY RequestShape DEF PushInit, ClientTypes, ClientStages, Verdicts
  <1>3. Refusals
    BY DEF PushInit, Init, Refusals
  <1>4. Dispatch /\ Conclusions /\ FaultsTolerated
    BY DEF PushInit, Init, Dispatch, Conclusions, FaultsTolerated
  <1>5. RetryBudget
    <2>1. \A a \in Agents : ~Spent(a)
      BY RequestShape DEF PushInit, Init, Spent, Current
    <2>2. \A a \in Agents : attempt[a] = 1 /\ faults[a] = 0
      BY DEF PushInit
    <2> QED
      BY <2>1, <2>2 DEF RetryBudget
  <1> QED
    BY <1>1, <1>2, <1>3, <1>4, <1>5 DEF PushInv

\* A step of a handler, whichever attempt of whichever agent it belongs to.
LEMMA ServerPushInv ==
    ASSUME PushInv, [Next]_vars, NEW h \in Requests,
           ServerReceive(h) \/ ServerStep(h) \/ ServerFault(h)
    PROVE  PushInv'
  <1> USE DEF PushInv
  <1>1. IndInv'
    BY NextIndInv
  <1>2. /\ UNCHANGED <<cpc, attempt, expired, verdict, sent, scenario>>
        /\ \/ UNCHANGED faults
           \/ faults' = [faults EXCEPT ![h[1]] = faults[h[1]] + 1]
    BY DEF ServerReceive, ServerStep, ServerFault, Fault, client
  <1>3. ClientTypes'
    BY <1>2, RequestShape DEF ClientTypes
  <1>4. PICK s \in Stages, w \in Answers :
           /\ pc' = [pc EXCEPT ![h] = s]
           /\ answer' = [answer EXCEPT ![h] = w]
           /\ \/ Moves(h, s, w) /\ faults' = faults
              \/ Dies(h, s, w) /\ faults' = [faults EXCEPT ![h[1]] = @ + 1]
    <2>1. CASE ServerReceive(h) \/ ServerStep(h)
      BY <2>1, HandlerStep DEF ServerReceive, ServerStep
    <2>2. CASE ServerFault(h)
      BY <2>2, HandlerStep DEF ServerFault, Fault
    <2> QED
      BY <2>1, <2>2
  <1>5. /\ Refusals' /\ probe_run \subseteq probe_run' /\ pc[h] # "done"
        /\ pc[h] = "new" => s \in {"select", "done"}
    BY <1>4, HandlerRefusals
  <1>6. /\ pc'[h] = s /\ answer'[h] = w
        /\ \A g \in Requests : g # h => pc'[g] = pc[g] /\ answer'[g] = answer[g]
    BY <1>4 DEF IndInv, TypeOK
  <1>7. \A a \in Agents : /\ StoredRun(a) => StoredRun(a)'
                          /\ faults'[a] \in Nat /\ faults'[a] >= faults[a]
    BY <1>4, <1>5, RequestShape DEF StoredRun, ClientTypes
  <1>8. h \in sent
    <2>1. CASE ServerReceive(h)
      BY <2>1 DEF ServerReceive
    <2>2. CASE ServerStep(h) \/ ServerFault(h)
      <3>1. pc[h] # "new"
        BY <1>5, <2>2, HandlerStep
           DEF ServerStep, ServerFault, Step, SelectExisting, CountStored, InsertRun,
               InsertNode, NodesInserted, SelectNodes, Commit, Respond, Dies
      <3> QED
        BY <3>1 DEF Dispatch
    <2> QED
      BY <2>1, <2>2
  <1>9. Dispatch'
    BY <1>2, <1>6, <1>8 DEF Dispatch
  <1>10. Conclusions'
    BY <1>2, <1>7 DEF Conclusions
  <1>11. ASSUME NEW a \in Agents, Acceptable(a)', ~expired'[a], cpc'[a] # "returned"
         PROVE  attempt'[a] + (IF Spent(a)' THEN 1 ELSE 0)
                  <= 1 + faults'[a] + (IF Settled(a)' THEN 1 ELSE 0)
    <2>1. /\ attempt[a] + (IF Spent(a) THEN 1 ELSE 0)
               <= 1 + faults[a] + (IF Settled(a) THEN 1 ELSE 0)
          /\ attempt[a] \in Nat /\ faults[a] \in Nat /\ attempt'[a] = attempt[a]
      BY <1>2, <1>11, RequestShape DEF RetryBudget, Acceptable, ClientTypes
    <2>2. Current(a)' = Current(a) /\ Current(a) \in Requests /\ Current(a)[1] = a
      BY <1>2, RequestShape DEF Current, ClientTypes
    <2>3. CASE h # Current(a)
      BY <1>6, <1>7, <2>1, <2>2, <2>3 DEF Settled, Spent
    <2>4. CASE h = Current(a)
      \* The handler has not answered, so no fault has decided the attempt.
      <3>1. ~Spent(a)
        BY <1>5, <2>4 DEF Spent, Refusals
      \* A handler that will find the row does, and meets no violation.
      <3>2. Settled(a) => Settled(a)'
        BY <1>4, <1>6, <1>7, <2>2, <2>4 DEF Settled, Moves, Dies, Open
      <3>3. CASE Moves(h, s, w) /\ faults' = faults
        <4>1. ~Spent(a)'
          BY <1>6, <2>2, <2>4, <3>3 DEF Spent, Moves
        <4> QED
          BY <2>1, <3>1, <3>2, <3>3, <4>1
      <3>4. CASE faults' = [faults EXCEPT ![h[1]] = @ + 1]
        <4>1. faults'[a] = faults[a] + 1
          BY <2>2, <2>4, <3>4 DEF ClientTypes
        <4> QED
          BY <2>1, <3>1, <3>2, <4>1
      <3> QED
        BY <1>4, <3>3, <3>4
    <2> QED
      BY <2>3, <2>4
  <1>12. RetryBudget'
    BY <1>11 DEF RetryBudget
  <1>13. FaultsTolerated'
    BY <1>2, <1>7, RequestShape DEF FaultsTolerated, Acceptable, ClientTypes
  <1> QED
    BY <1>1, <1>3, <1>5, <1>9, <1>10, <1>12, <1>13

\* A step of the agent leaves the store alone.
LEMMA ClientStoreUnchanged ==
    ASSUME PushInv, UNCHANGED vars
    PROVE  /\ IndInv'
           /\ Refusals'
           /\ UNCHANGED <<probe_run, pc, answer>>
           /\ \A a : StoredRun(a)' = StoredRun(a)
  <1>1. IndInv'
    BY NextIndInv DEF PushInv
  <1>2. UNCHANGED <<probe_run, pc, answer>>
    BY DEF vars, tables
  <1>3. \A a : StoredRun(a)' = StoredRun(a)
    BY <1>2 DEF StoredRun
  <1> QED
    BY <1>1, <1>2, <1>3 DEF PushInv, Refusals

\* An attempt that ended in an error that is not permanent: the agent goes
\* on to the next one, if there is one.
LEMMA TransientPushInv ==
    ASSUME PushInv, UNCHANGED <<vars, expired, sent, scenario>>, NEW a \in Agents,
           cpc[a] \in {"post", "wait"}, TransientError(a),
           \/ expired[a] /\ UNCHANGED faults
           \/ Fault(a)
           \/ UNCHANGED faults /\ Spent(a)
           \/ UNCHANGED faults /\ answer[Current(a)] = "integrity_error"
    PROVE  PushInv'
  <1> USE DEF PushInv
  <1>1. /\ IndInv' /\ Refusals' /\ UNCHANGED <<probe_run, pc, answer>>
        /\ \A b : StoredRun(b)' = StoredRun(b)
    BY ClientStoreUnchanged
  <1>2. /\ attempt[a] \in 1 .. MaxAttempts /\ attempt[a] \in Nat
        /\ faults[a] \in Nat /\ MaxAttempts \in Nat
        /\ \A b \in Agents : attempt[b] \in Nat /\ faults[b] \in Nat
        /\ faults' \in [Agents -> Nat]
        /\ \A b \in Agents : b # a => faults'[b] = faults[b]
        /\ faults'[a] \in {faults[a], faults[a] + 1}
    BY RequestShape DEF ClientTypes, Fault
  <1>3. CASE attempt[a] < MaxAttempts
    <2>1. /\ attempt' = [attempt EXCEPT ![a] = attempt[a] + 1]
          /\ cpc' = [cpc EXCEPT ![a] = "backoff"]
          /\ UNCHANGED verdict
      BY <1>3 DEF TransientError
    <2>2. /\ attempt[a] + 1 \in 1 .. MaxAttempts
          /\ attempt'[a] = attempt[a] + 1 /\ cpc'[a] = "backoff"
          /\ \A b \in Agents : b # a => attempt'[b] = attempt[b] /\ cpc'[b] = cpc[b]
      BY <1>2, <1>3, <2>1 DEF ClientTypes
    <2>3. ClientTypes'
      BY <1>2, <2>1, <2>2 DEF ClientTypes, ClientStages
    <2>4. Dispatch'
      BY <1>1, <1>2, <2>2 DEF Dispatch
    <2>5. Conclusions'
      BY <1>1, <2>1, <2>2 DEF Conclusions
    \* The request of the next attempt is still untouched.
    <2>6. pc'[Current(a)'] = "new" /\ answer'[Current(a)'] = "none"
      <3>1. Current(a)' = <<a, attempt[a] + 1>> /\ <<a, attempt[a] + 1>> \in Requests
        BY <2>2, RequestShape DEF Current
      <3>2. <<a, attempt[a] + 1>> \notin sent
        BY <1>2, <2>2 DEF Dispatch
      <3> QED
        BY <1>1, <3>1, <3>2 DEF Dispatch, Refusals
    <2>7. ~Spent(a)' /\ (Settled(a)' <=> StoredRun(a))
      BY <1>1, <2>6 DEF Spent, Settled
    <2>8. ASSUME Acceptable(a), ~expired[a]
          PROVE  attempt[a] + 1 <= 1 + faults'[a] + (IF StoredRun(a) THEN 1 ELSE 0)
      <3>1. attempt[a] + (IF Spent(a) THEN 1 ELSE 0)
              <= 1 + faults[a] + (IF Settled(a) THEN 1 ELSE 0)
        BY <2>8 DEF RetryBudget, ClientStages
      <3>2. Settled(a) => StoredRun(a) /\ answer[Current(a)] # "integrity_error"
        BY DEF Settled
      <3>3. answer[Current(a)] = "integrity_error" => StoredRun(a) /\ ~Spent(a)
        BY RequestShape DEF Refusals, Current, ClientTypes, Spent
      <3>4. Fault(a) => faults'[a] = faults[a] + 1
        BY DEF Fault, ClientTypes
      <3> QED
        BY <1>2, <2>8, <3>1, <3>2, <3>3, <3>4
    <2>9. RetryBudget'
      <3> SUFFICES ASSUME NEW b \in Agents, Acceptable(b), ~expired[b],
                          cpc'[b] # "returned"
                   PROVE  attempt'[b] + (IF Spent(b)' THEN 1 ELSE 0)
                            <= 1 + faults'[b] + (IF Settled(b)' THEN 1 ELSE 0)
        BY DEF RetryBudget, Acceptable
      <3>1. CASE b = a
        BY <1>2, <2>2, <2>7, <2>8, <3>1
      <3>2. CASE b # a
        BY <1>1, <1>2, <2>2, <3>2 DEF RetryBudget, Settled, Spent, Current
      <3> QED
        BY <3>1, <3>2
    <2>10. FaultsTolerated'
      BY <1>2, <2>1 DEF FaultsTolerated, Acceptable
    <2> QED
      BY <1>1, <2>3, <2>4, <2>5, <2>9, <2>10
  <1>4. CASE ~(attempt[a] < MaxAttempts)
    <2>1. /\ cpc' = [cpc EXCEPT ![a] = "returned"]
          /\ verdict' = [verdict EXCEPT ![a] = "transient"]
          /\ UNCHANGED attempt
      BY <1>4 DEF TransientError, Return
    <2>2. /\ cpc'[a] = "returned" /\ verdict'[a] = "transient"
          /\ \A b \in Agents : b # a => cpc'[b] = cpc[b] /\ verdict'[b] = verdict[b]
      BY <2>1 DEF ClientTypes
    <2>3. ClientTypes'
      BY <1>2, <2>1 DEF ClientTypes, ClientStages, Verdicts
    <2>4. Dispatch'
      BY <1>1, <2>1, <2>2 DEF Dispatch
    <2>5. Conclusions'
      BY <1>1, <2>1, <2>2 DEF Conclusions
    <2>6. RetryBudget'
      <3> SUFFICES ASSUME NEW b \in Agents, Acceptable(b), ~expired[b],
                          cpc'[b] # "returned"
                   PROVE  attempt'[b] + (IF Spent(b)' THEN 1 ELSE 0)
                            <= 1 + faults'[b] + (IF Settled(b)' THEN 1 ELSE 0)
        BY DEF RetryBudget, Acceptable
      <3>1. b # a
        BY <2>2
      <3> QED
        BY <1>1, <1>2, <2>1, <2>2, <3>1 DEF RetryBudget, Settled, Spent, Current
    \* The budget says that the faults have left fewer than two attempts.
    <2>7. ASSUME Acceptable(a), ~expired[a]
          PROVE  ~(faults'[a] + 2 <= MaxAttempts)
      <3>1. attempt[a] + (IF Spent(a) THEN 1 ELSE 0)
              <= 1 + faults[a] + (IF Settled(a) THEN 1 ELSE 0)
        BY <2>7 DEF RetryBudget, ClientStages
      <3>2. Settled(a) => answer[Current(a)] # "integrity_error"
        BY DEF Settled
      <3>3. Fault(a) => faults'[a] = faults[a] + 1
        BY DEF Fault, ClientTypes
      <3>4. attempt[a] = MaxAttempts
        BY <1>2, <1>4
      <3> QED
        BY <1>2, <2>7, <3>1, <3>2, <3>3, <3>4
    <2>8. FaultsTolerated'
      <3> SUFFICES ASSUME NEW b \in Agents, Acceptable(b), ~expired[b],
                          faults'[b] + 2 <= MaxAttempts
                   PROVE  verdict'[b] \in {"none", "ok"}
        BY DEF FaultsTolerated, Acceptable
      <3>1. b # a
        BY <2>7
      <3> QED
        BY <1>2, <2>2, <3>1 DEF FaultsTolerated
    <2> QED
      BY <1>1, <2>3, <2>4, <2>5, <2>6, <2>8
  <1> QED
    BY <1>3, <1>4

\* pushResults returns nil, a permanentError or ctx.Err().
LEMMA ReturnPushInv ==
    ASSUME PushInv, UNCHANGED <<vars, expired, sent, faults, scenario>>,
           NEW a \in Agents, NEW v \in Verdicts, Return(a, v),
           \/ v = "ok" /\ StoredRun(a)
           \/ /\ v = "permanent"
              /\ \A i \in 1 .. MaxAttempts : ~(<<a, i>> \in Authorized /\ Valid(<<a, i>>))
           \/ v = "ctx" /\ expired[a]
    PROVE  PushInv'
  <1> USE DEF PushInv
  <1>1. /\ IndInv' /\ Refusals' /\ UNCHANGED <<probe_run, pc, answer>>
        /\ \A b : StoredRun(b)' = StoredRun(b)
    BY ClientStoreUnchanged
  <1>2. /\ cpc' = [cpc EXCEPT ![a] = "returned"]
        /\ verdict' = [verdict EXCEPT ![a] = v]
        /\ UNCHANGED attempt
    BY DEF Return
  <1>3. /\ cpc'[a] = "returned" /\ verdict'[a] = v
        /\ \A b \in Agents : b # a => cpc'[b] = cpc[b] /\ verdict'[b] = verdict[b]
    BY <1>2 DEF ClientTypes
  <1>4. ClientTypes'
    BY <1>2 DEF ClientTypes, ClientStages
  <1>5. Dispatch'
    BY <1>1, <1>2, <1>3 DEF Dispatch
  <1>6. Conclusions'
    BY <1>1, <1>2, <1>3 DEF Conclusions
  <1>7. RetryBudget'
    BY <1>1, <1>2, <1>3 DEF RetryBudget, Acceptable, Settled, Spent, Current
  <1>8. 1 \in 1 .. MaxAttempts
    BY RequestShape
  <1>9. FaultsTolerated'
    BY <1>3, <1>8 DEF FaultsTolerated, Acceptable
  <1> QED
    BY <1>1, <1>4, <1>5, <1>6, <1>7, <1>9

\* Sending, waiting out the backoff and the deadline decide nothing.
LEMMA ProgressPushInv ==
    ASSUME PushInv, NEW a \in Agents, PostSent(a) \/ BackoffElapsed(a) \/ Deadline(a)
    PROVE  PushInv'
  <1> USE DEF PushInv
  <1>1. /\ UNCHANGED <<vars, attempt, verdict, faults, scenario>>
        /\ cpc[a] \notin {"idle", "returned"}
    BY DEF PostSent, BackoffElapsed, Deadline
  <1>2. /\ IndInv' /\ Refusals' /\ UNCHANGED <<probe_run, pc, answer>>
        /\ \A b : StoredRun(b)' = StoredRun(b)
    BY <1>1, ClientStoreUnchanged
  <1>3. \/ /\ cpc' = [cpc EXCEPT ![a] = "wait"] /\ cpc[a] = "post"
           /\ sent' = sent \cup {Current(a)} /\ UNCHANGED expired
        \/ /\ cpc' = [cpc EXCEPT ![a] = "post"] /\ cpc[a] = "backoff"
           /\ UNCHANGED <<sent, expired>>
        \/ expired' = [expired EXCEPT ![a] = TRUE] /\ UNCHANGED <<cpc, sent>>
    BY DEF PostSent, BackoffElapsed, Deadline
  <1>4. Current(a) \in Requests /\ \A b \in Agents : attempt[b] \in 1 .. MaxAttempts
    BY RequestShape DEF Current, ClientTypes
  <1>5. ClientTypes'
    BY <1>1, <1>3, <1>4 DEF ClientTypes, ClientStages
  <1>6. /\ \A b \in Agents : b # a => cpc'[b] = cpc[b] /\ expired'[b] = expired[b]
        /\ ~expired'[a] => ~expired[a]
        /\ cpc'[a] \notin {"idle", "returned"}
    BY <1>1, <1>3 DEF ClientTypes
  <1>7. Dispatch'
    <2>1. \A h \in Requests : h \notin sent' => pc'[h] = "new"
      BY <1>2, <1>3 DEF Dispatch
    <2>2. ASSUME NEW b \in Agents, NEW i \in 1 .. MaxAttempts,
                 \/ i > attempt[b]
                 \/ i = attempt[b] /\ cpc'[b] \in {"idle", "post", "backoff"}
          PROVE  <<b, i>> \notin sent'
      <3>1. \/ i > attempt[b]
            \/ i = attempt[b] /\ cpc[b] \in {"idle", "post", "backoff"}
        BY <1>3, <1>6, <2>2 DEF ClientTypes
      <3>2. <<b, i>> \notin sent
        BY <3>1 DEF Dispatch
      <3>3. CASE b = a /\ cpc'[a] = "wait"
        BY <1>3, <1>4, <2>2, <3>2, <3>3, RequestShape DEF Current
      <3>4. CASE b # a \/ cpc'[a] # "wait"
        BY <1>3, <3>2, <3>4 DEF Current, ClientTypes
      <3> QED
        BY <3>3, <3>4
    <2> QED
      BY <1>1, <2>1, <2>2 DEF Dispatch
  <1>8. Conclusions'
    BY <1>1, <1>2, <1>6 DEF Conclusions
  <1>9. RetryBudget'
    BY <1>1, <1>2, <1>6 DEF RetryBudget, Acceptable, Settled, Spent, Current
  <1>10. FaultsTolerated'
    BY <1>1, <1>6 DEF FaultsTolerated, Acceptable
  <1> QED
    BY <1>2, <1>5, <1>7, <1>8, <1>9, <1>10

\* The answer arrives: a 201 is about a stored run, a 4xx about a run that no
\* attempt can store, and what remains is a fault or a unique violation.
LEMMA ResponsePushInv ==
    ASSUME PushInv, NEW a \in Agents, GetResponse(a)
    PROVE  PushInv'
  <1> USE DEF PushInv
  <1> DEFINE c == Current(a)
  <1> DEFINE code == StatusCode(answer[c])
  <1>1. /\ c \in Requests /\ c[1] = a /\ RunOf[c] = a
        /\ c = <<a, attempt[a]>> /\ attempt[a] \in 1 .. MaxAttempts
    BY RequestShape DEF Current, ClientTypes
  <1>2. /\ cpc[a] = "wait" /\ pc[c] = "done" /\ OnStatus(a, code)
        /\ UNCHANGED <<vars, expired, sent, faults, scenario>>
    BY DEF GetResponse
  <1>3. answer[c] \in Answers /\ answer[c] # "none" /\ answer[c] # "key_error"
    BY <1>1, <1>2 DEF Refusals, IndInv, TypeOK, NoKeyError
  <1>4. CASE answer[c] \in {"created", "duplicate"}
    <2>1. code = 201
      BY <1>4 DEF StatusCode
    <2>2. Return(a, "ok")
      BY <1>2, <2>1 DEF OnStatus
    <2>3. StoredRun(a)
      BY <1>1, <1>4, StoredRunRow DEF IndInv, CommitPoint
    <2> QED
      BY <1>2, <2>2, <2>3, ReturnPushInv DEF Verdicts
  <1>5. CASE answer[c] \in {"unauthorized", "unprocessable"}
    <2>1. code \in 400 .. 499
      BY <1>5 DEF StatusCode
    <2>2. Return(a, "permanent")
      BY <1>2, <2>1 DEF OnStatus
    <2>3. ~(c \in Authorized /\ Valid(c))
      BY <1>1, <1>5 DEF Refusals
    <2>4. \A i \in 1 .. MaxAttempts : ~(<<a, i>> \in Authorized /\ Valid(<<a, i>>))
      BY <1>1, <2>3, SameFate
    <2> QED
      BY <1>2, <2>2, <2>4, ReturnPushInv DEF Verdicts
  <1>6. CASE answer[c] \in {"integrity_error", "deadlock", "lost"}
    <2>1. code \in {0, 500}
      BY <1>6 DEF StatusCode
    <2>2. TransientError(a)
      BY <1>2, <2>1 DEF OnStatus
    <2> QED
      BY <1>2, <1>6, <2>2, TransientPushInv DEF Spent
  <1> QED
    BY <1>3, <1>4, <1>5, <1>6 DEF Answers, Failures

\* One step of agents and server.
LEMMA NextPushInv == PushInv /\ [PushNext]_pushVars => PushInv'
  <1> SUFFICES ASSUME PushInv, [PushNext]_pushVars PROVE PushInv'
    OBVIOUS
  <1>1. CASE UNCHANGED pushVars
    <2>1. /\ IndInv' /\ Refusals' /\ UNCHANGED <<probe_run, pc, answer>>
          /\ \A b : StoredRun(b)' = StoredRun(b)
      BY <1>1, ClientStoreUnchanged DEF pushVars
    <2> QED
      BY <1>1, <2>1 DEF pushVars, client, PushInv, ClientTypes, Dispatch, Conclusions,
         RetryBudget, FaultsTolerated, Acceptable, Settled, Spent, Current
  <1>2. ASSUME NEW a \in Agents, \/ ClientStep(a) \/ PostRefused(a)
                                 \/ ConnectionLost(a) \/ Deadline(a)
        PROVE  PushInv'
    <2>1. CASE PostSent(a) \/ BackoffElapsed(a) \/ Deadline(a)
      BY <2>1, ProgressPushInv
    <2>2. CASE PostRefused(a) \/ ConnectionLost(a)
      BY <2>2, TransientPushInv DEF PostRefused, ConnectionLost
    <2>3. CASE PostCancelled(a) \/ WaitCancelled(a)
      BY <2>3, TransientPushInv DEF PostCancelled, WaitCancelled
    <2>4. CASE GetResponse(a)
      BY <2>4, ResponsePushInv
    <2>5. CASE BackoffCancelled(a)
      BY <2>5, ReturnPushInv DEF BackoffCancelled, Verdicts
    <2> QED
      BY <1>2, <2>1, <2>2, <2>3, <2>4, <2>5 DEF ClientStep
  <1>3. ASSUME NEW h \in Requests, ServerReceive(h) \/ ServerStep(h) \/ ServerFault(h)
        PROVE  PushInv'
    BY <1>3, StoreStep, ServerPushInv
  <1> QED
    BY <1>1, <1>2, <1>3 DEF PushNext

-----------------------------------------------------------------------------
(* Theorems.                                                               *)

\* The inductive invariant of the composition.
THEOREM PushInvariance == PushSpec => []PushInv
  BY InitPushInv, NextPushInv, PTL DEF PushSpec

\* Agents and handlers keep their types.
THEOREM PushTypeCorrect == PushSpec => []PushTypeOK
  <1>1. PushInv => PushTypeOK
    BY DEF PushInv, IndInv, ClientTypes, PushTypeOK
  <1> QED
    BY <1>1, PushInvariance, PTL

\* An agent that saw its push succeed has its run in the store.
THEOREM SuccessIsStored == PushSpec => []PushOkStored
  <1>1. PushInv => PushOkStored
    BY DEF PushInv, Conclusions, PushOkStored
  <1> QED
    BY <1>1, PushInvariance, PTL

\* A rejected run is not stored, and no handler of it is at work.
THEOREM RejectionIsFinal == PushSpec => []RejectedNeverStored
  <1>1. PushInv => RejectedNeverStored
    <2> SUFFICES ASSUME PushInv, NEW a \in Agents, verdict[a] = "permanent"
                 PROVE  /\ ~StoredRun(a)
                        /\ \A i \in 1 .. MaxAttempts : pc[<<a, i>>] \in {"new", "done"}
      BY DEF RejectedNeverStored
    <2>1. \A i \in 1 .. MaxAttempts : ~(<<a, i>> \in Authorized /\ Valid(<<a, i>>))
      BY DEF PushInv, Conclusions
    <2>2. \A i \in 1 .. MaxAttempts : /\ <<a, i>> \notin probe_run
                                      /\ pc[<<a, i>>] \in {"new", "done"}
      BY <2>1, RequestShape DEF PushInv, Refusals
    <2>3. \A h \in probe_run : h[1] = a => \E i \in 1 .. MaxAttempts : h = <<a, i>>
      BY RequestShape DEF PushInv, IndInv, TypeOK
    <2> QED
      BY <2>2, <2>3 DEF StoredRun
  <1> QED
    BY <1>1, PushInvariance, PTL

\* However its attempts race, an agent leaves one complete run or none.
THEOREM RetriesStoreOnce == PushSpec => []StoredOnce
  <1>1. PushInv => StoredOnce
    <2> SUFFICES ASSUME PushInv, NEW a \in Agents
                 PROVE  /\ Cardinality({h \in probe_run : h[1] = a}) <= 1
                        /\ Cardinality({x \in probe_result : x.run_id[1] = a})
                              \in {0, Len(Payload[a].results)}
      BY DEF StoredOnce
    <2>1. IndInv /\ probe_run \subseteq Requests
      BY DEF PushInv, IndInv, TypeOK
    <2>2. CASE ~StoredRun(a)
      <3>1. {h \in probe_run : h[1] = a} = {}
        BY <2>2 DEF StoredRun
      <3>2. {x \in probe_result : x.run_id[1] = a} = {}
        BY <2>1, <2>2 DEF StoredRun, IndInv, NothingPartial
      <3>3. Cardinality({}) = 0
        BY FS_EmptySet
      <3>4. /\ Cardinality({h \in probe_run : h[1] = a}) = 0
            /\ Cardinality({x \in probe_result : x.run_id[1] = a}) = 0
        BY <3>1, <3>2, <3>3
      <3> QED
        BY <3>4
    <2>3. CASE StoredRun(a)
      <3>1. PICK g \in probe_run : g[1] = a
        BY <2>3 DEF StoredRun
      <3>2. \A h \in probe_run : h[1] = a => h = g
        BY <2>1, <3>1, RequestShape DEF IndInv, OneRowPerRun
      <3>3. {h \in probe_run : h[1] = a} = {g}
        BY <3>1, <3>2
      <3>4. {x \in probe_result : x.run_id[1] = a} = {x \in probe_result : x.run_id = g}
        BY <2>1, <3>1, <3>2 DEF IndInv, NothingPartial
      <3>5. Results(g) = Payload[a].results
        BY <2>1, <3>1, RequestShape DEF Results
      <3>6. Cardinality({h \in probe_run : h[1] = a}) = 1
        BY <3>3, FS_Singleton
      <3>7. Cardinality({x \in probe_result : x.run_id = g}) = Len(Payload[a].results)
        BY <2>1, <3>1, <3>5, StoredCount
      <3>8. Cardinality({x \in probe_result : x.run_id[1] = a}) = Len(Payload[a].results)
        BY <3>4, <3>7
      <3> QED
        BY <3>6, <3>8
    <2> QED
      BY <2>2, <2>3
  <1> QED
    BY <1>1, PushInvariance, PTL

\* Before its deadline, the push of an acceptable run survives as many faults
\* as leave two attempts over.
THEOREM RetriesSuffice == PushSpec => []FaultsTolerated
  <1>1. PushInv => FaultsTolerated
    BY DEF PushInv
  <1> QED
    BY <1>1, PushInvariance, PTL

\* With the three attempts of the code that is one fault, whatever kind it is
\* of and whichever attempt it hits.
THEOREM OneFaultIsTolerated ==
    ASSUME MaxAttempts >= 3
    PROVE  PushSpec => []OneFaultTolerated
  <1>1. PushInv => OneFaultTolerated
    <2> SUFFICES ASSUME PushInv, NEW a \in Agents, Acceptable(a), faults[a] <= 1,
                        ~expired[a]
                 PROVE  verdict[a] \in {"none", "ok"}
      BY DEF OneFaultTolerated, Acceptable
    <2>1. faults[a] + 2 <= MaxAttempts
      BY RequestShape DEF PushInv, ClientTypes
    <2> QED
      BY <2>1 DEF PushInv, FaultsTolerated
  <1> QED
    BY <1>1, PushInvariance, PTL
=============================================================================
