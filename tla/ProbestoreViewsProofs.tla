----------------------- MODULE ProbestoreViewsProofs -----------------------
(***************************************************************************)
(* Proofs about the read views beside the ingest path, for every set of    *)
(* requests, every payload, every number of reads and every interleaving.  *)
(***************************************************************************)
EXTENDS ProbestoreViews, ProbestoreProofs, WellFoundedInduction

-----------------------------------------------------------------------------
(* The inductive invariant.                                                *)

\* A node row comes from a batch that has its key.
NodeOrigin == \A n \in node : n[2] \in BatchKeys(n[1])

\* What is shown carries the name of the node row of its key.
ShownNames == \A e \in shown.entries : \E n \in node : n[2] = e.key /\ NodeName(n) = e.name

\* A history request between its two statements holds a node of that name.
ChosenNode == chosen # <<>> => NodeName(chosen[2]) = chosen[1].name

ViewsInv == /\ IndInv
            /\ NodeOrigin
            /\ IsFiniteSet(probe_result)
            /\ ViewsTypeOK
            /\ ShownNames
            /\ ChosenNode
            /\ StatusCurrent
            /\ HistoryHonest
            /\ ListedNameResolves

-----------------------------------------------------------------------------
(* Rows and names.                                                         *)

\* A set of positions in a batch has a last one.
LEMMA LastPosition ==
    ASSUME NEW n \in Nat, NEW S \in SUBSET (1 .. n), S # {}
    PROVE  \E i \in S : \A j \in S : j <= i
  <1> DEFINE T == {n - i : i \in S}
  <1>1. \A i \in S : i \in Nat /\ i <= n /\ n - i \in Nat /\ n - i \in T
    OBVIOUS
  <1>2. T \subseteq Nat /\ T # {}
    <2>1. PICK i \in S : TRUE
      OBVIOUS
    <2> QED
      BY <1>1, <2>1
  <1>3. PICK x \in T : \A y \in T : ~(<<y, x>> \in OpToRel(<, Nat))
    BY <1>2, NatLessThanWellFounded, WFMin
  <1>4. \A y \in T : ~(y < x)
    BY <1>2, <1>3 DEF OpToRel
  <1>5. PICK i \in S : x = n - i
    OBVIOUS
  <1>6. ASSUME NEW j \in S PROVE j <= i
    <2>1. ~(n - j < n - i)
      BY <1>1, <1>4, <1>5
    <2> QED
      BY <1>1, <2>1
  <1> QED
    BY <1>6

\* A node row is named as one of the entries of its key in its first batch.
LEMMA NamedByEntry ==
    ASSUME TypeOK, NodeOrigin, NEW n \in node
    PROVE  /\ n[1] \in Requests
           /\ \E i \in Batch(n[1]) : /\ KeyAt(n[1], i) = n[2]
                                     /\ Results(n[1])[i].name = NodeName(n)
           /\ NodeName(n) \in Names
  <1> DEFINE h == n[1]
  <1> DEFINE own == {i \in Batch(h) : KeyAt(h, i) = n[2]}
  <1> DEFINE last == CHOOSE i \in own : \A j \in own : j <= i
  <1>1. h \in Requests
    BY DEF TypeOK
  <1>2. own # {} /\ own \subseteq 1 .. Len(Results(h)) /\ Len(Results(h)) \in Nat
    BY <1>1, BatchType DEF NodeOrigin, BatchKeys, Batch
  <1>3. \E i \in own : \A j \in own : j <= i
    BY <1>2, LastPosition
  <1>4. last \in own
    BY <1>3
  <1>5. NodeName(n) = Results(h)[last].name
    BY DEF NodeName
  <1>6. Results(h)[last] \in ResultIn
    BY <1>1, <1>2, <1>4, BatchType
  <1>7. Results(h)[last].name \in Names
    BY <1>6 DEF ResultIn
  <1> QED
    BY <1>1, <1>4, <1>5, <1>7

\* A result row is an entry of its run and hangs on the node row of its key.
LEMMA ResultRows ==
    ASSUME IndInv, NEW x \in probe_result
    PROVE  /\ x.run_id \in probe_run /\ x.run_id \in Requests /\ x.idx \in Batch(x.run_id)
           /\ x.node_id \in node /\ x.node_id[2] = Columns(x).key
           /\ Columns(x) \in ResultIn /\ Columns(x).ts \in Nat
           /\ Columns(x) = Report(RunOf[x.run_id], x.idx)
           /\ Columns(x) \in Reports({RunOf[h] : h \in probe_run})
  <1>1. x.run_id \in probe_run /\ x.run_id \in Requests /\ x.idx \in Batch(x.run_id)
    BY DEF IndInv, NothingPartial, TypeOK
  <1>2. PICK n \in node :
           /\ n[2] = KeyAt(x.run_id, x.idx)
           /\ {y \in probe_result : y.run_id = x.run_id /\ y.idx = x.idx}
                 = {[run_id |-> x.run_id, idx |-> x.idx, node_id |-> n]}
    BY <1>1 DEF IndInv, HistoryExact
  <1>3. x = [run_id |-> x.run_id, idx |-> x.idx, node_id |-> n]
    BY <1>2
  <1>4. x.node_id = n
    BY <1>3
  <1>5. Columns(x) \in ResultIn
    BY <1>1, BatchType DEF Columns, Batch
  <1>6. Columns(x).ts \in Nat
    BY <1>5 DEF ResultIn
  <1>7. Columns(x) = Report(RunOf[x.run_id], x.idx)
    BY DEF Columns, Report, Results
  <1>8. x.idx \in DOMAIN Payload[RunOf[x.run_id]].results
    BY <1>1, BatchType DEF Batch, Results
  <1>9. Columns(x) \in Reports({RunOf[h] : h \in probe_run})
    BY <1>1, <1>7, <1>8 DEF Reports
  <1> QED
    BY <1>1, <1>2, <1>4, <1>5, <1>6, <1>7, <1>9 DEF Columns, KeyAt

\* Every report of a stored run is a result row, on the node of its key.
LEMMA ReportsStored ==
    ASSUME IndInv, NEW R, NEW m \in Reports(R),
           \A r \in R : \E h \in probe_run : RunOf[h] = r
    PROVE  \E x \in probe_result : Columns(x) = m /\ x.node_id \in node
                                   /\ x.node_id[2] = m.key
  <1>0. PICK r \in R : \E i \in DOMAIN Payload[r].results : m = Report(r, i)
    BY DEF Reports
  <1>1. PICK i \in DOMAIN Payload[r].results : m = Report(r, i)
    BY <1>0
  <1>2. PICK h \in probe_run : RunOf[h] = r
    OBVIOUS
  <1>3. h \in Requests /\ i \in Batch(h)
    BY <1>1, <1>2, BatchType DEF IndInv, TypeOK, Batch, Results
  <1>4. PICK n \in node :
           /\ n[2] = KeyAt(h, i)
           /\ {y \in probe_result : y.run_id = h /\ y.idx = i}
                 = {[run_id |-> h, idx |-> i, node_id |-> n]}
    BY <1>3 DEF IndInv, HistoryExact
  <1> DEFINE x == [run_id |-> h, idx |-> i, node_id |-> n]
  <1>5. x \in probe_result
    BY <1>4
  <1>6. Columns(x) = m
    BY <1>1, <1>2 DEF Columns, Report, Results
  <1> QED
    BY <1>4, <1>5, <1>6, ResultRows

\* What has been acknowledged is stored.
LEMMA AcknowledgedStored ==
    ASSUME IndInv
    PROVE  /\ Acknowledged \subseteq Runs
           /\ \A r \in Acknowledged : \E h \in probe_run : RunOf[h] = r
  BY PayloadAssumption DEF IndInv, CommitPoint, Acknowledged, TypeOK

-----------------------------------------------------------------------------
(* What ingest does to the rows the views read.                            *)

\* The rows a commit publishes are as many as the batch has entries.
LEMMA NewResultsFinite ==
    ASSUME IndInv, NEW h \in Requests, pc[h] = "insert_results"
    PROVE  IsFiniteSet(NewResults(h))
  <1> DEFINE f == [x \in NewResults(h) |-> x.idx]
  <1>1. f \in [NewResults(h) -> Batch(h)]
    BY NewRows
  <1>2. ASSUME NEW x \in NewResults(h), NEW y \in NewResults(h), f[x] = f[y]
        PROVE  x = y
    <2>1. x.idx \in Batch(h) /\ x.idx = y.idx
      BY <1>1, <1>2
    <2>2. PICK n \in node \cup OwnNodes(h) :
             {z \in NewResults(h) : z.idx = x.idx}
                = {[run_id |-> h, idx |-> x.idx, node_id |-> n]}
      BY <2>1, NewRows
    <2> QED
      BY <2>1, <2>2
  <1>3. f \in Injection(NewResults(h), Batch(h))
    BY <1>1, <1>2, Fun_IsInj
  <1>4. IsFiniteSet(Batch(h))
    BY BatchType, FS_Interval DEF Batch
  <1> QED
    BY <1>3, <1>4, FS_Injection

\* Rows are only ever added, and a node row only with its key in the batch.
LEMMA RowsGrow ==
    ASSUME IndInv, NodeOrigin, IsFiniteSet(probe_result), [Next]_vars
    PROVE  /\ IndInv' /\ NodeOrigin' /\ IsFiniteSet(probe_result')
           /\ probe_run \subseteq probe_run'
           /\ node \subseteq node'
           /\ probe_result \subseteq probe_result'
  <1>1. IndInv'
    BY NextIndInv
  <1>2. CASE UNCHANGED tables
    BY <1>1, <1>2 DEF tables, NodeOrigin
  <1>3. ASSUME NEW h \in Requests, Commit(h)
        PROVE  /\ NodeOrigin' /\ IsFiniteSet(probe_result')
               /\ probe_run \subseteq probe_run'
               /\ node \subseteq node'
               /\ probe_result \subseteq probe_result'
    <2>1. CASE Abort(h, "key_error")
      BY <1>2, <2>1 DEF Abort
    <2>2. CASE /\ probe_run' = probe_run \cup {h}
               /\ node' = node \cup OwnNodes(h)
               /\ probe_result' = probe_result \cup NewResults(h)
      <3>1. IsFiniteSet(NewResults(h))
        BY <1>3, NewResultsFinite DEF Commit
      <3>2. IsFiniteSet(probe_result')
        BY <2>2, <3>1, FS_Union
      <3>3. \A n \in OwnNodes(h) : n[1] = h /\ n[2] \in BatchKeys(h)
        BY DEF OwnNodes, IndInv, LookupProgress
      <3> QED
        BY <2>2, <3>2, <3>3 DEF NodeOrigin
    <2> QED
      BY <1>3, <2>1, <2>2 DEF Commit
  <1>4. ASSUME NEW h \in Requests, \/ Receive(h) \/ SelectExisting(h) \/ CountStored(h)
                                   \/ InsertRun(h) \/ InsertNode(h) \/ NodesInserted(h)
                                   \/ SelectNodes(h) \/ Respond(h) \/ Fail(h)
                                   \/ DeadlockVictim(h)
        PROVE  UNCHANGED tables
    BY <1>4 DEF Receive, SelectExisting, CountStored, InsertRun, InsertNode,
       NodesInserted, SelectNodes, Respond, Fail, DeadlockVictim, Abort
  <1> QED
    BY <1>1, <1>2, <1>3, <1>4 DEF Next, Step, vars

-----------------------------------------------------------------------------
(* Listings: /v1/nodes and /metrics.                                       *)

\* The entry of a node in a listing.
EntryOf(rows, n) == [key |-> n[2], name |-> NodeName(n),
                     ts |-> Columns(rows[n]).ts, up |-> up(rows[n])]

\* list_nodes shows one entry per node that has a result.
LEMMA ListNodesShows ==
    ASSUME list_nodes
    PROVE  \E rows \in latest_per_node_stmt :
              shown' = [acked |-> Acknowledged,
                        entries |-> {EntryOf(rows, n) : n \in DOMAIN rows}]
  BY DEF list_nodes, EntryOf

\* So does a scrape of /metrics: the labels of two nodes differ, because their
\* keys do, so that joining the families mixes nothing up.
LEMMA MetricsShows ==
    ASSUME IndInv, metrics
    PROVE  \E rows \in latest_per_node_stmt :
              shown' = [acked |-> Acknowledged,
                        entries |-> {EntryOf(rows, n) : n \in DOMAIN rows}]
  <1>1. PICK rows \in latest_per_node_stmt :
          LET node_up == {<<Labels(n), up(rows[n])>> : n \in DOMAIN rows}
              checked == {<<Labels(n), Columns(rows[n]).ts>> : n \in DOMAIN rows}
              joined  == {p \in node_up \X checked : p[1][1] = p[2][1]}
          IN  shown' = [acked |-> Acknowledged,
                        entries |-> {[key |-> p[1][1].key, name |-> p[1][1].node,
                                      ts |-> p[2][2], up |-> p[1][2]] : p \in joined}]
    BY DEF metrics
  <1> DEFINE node_up == {<<Labels(n), up(rows[n])>> : n \in DOMAIN rows}
  <1> DEFINE checked == {<<Labels(n), Columns(rows[n]).ts>> : n \in DOMAIN rows}
  <1> DEFINE joined == {p \in node_up \X checked : p[1][1] = p[2][1]}
  <1> DEFINE entry(p) == [key |-> p[1][1].key, name |-> p[1][1].node,
                          ts |-> p[2][2], up |-> p[1][2]]
  <1>2. DOMAIN rows \subseteq node
    BY DEF latest_per_node_stmt
  <1>3. \A m, n \in DOMAIN rows : Labels(m) = Labels(n) => m = n
    BY <1>2 DEF Labels, IndInv, NodeUnique
  <1>4. ASSUME NEW p \in joined
        PROVE  \E n \in DOMAIN rows : entry(p) = EntryOf(rows, n)
    <2>1. PICK m \in DOMAIN rows : p[1] = <<Labels(m), up(rows[m])>>
      OBVIOUS
    <2>2. PICK n \in DOMAIN rows : p[2] = <<Labels(n), Columns(rows[n]).ts>>
      OBVIOUS
    <2>3. m = n
      BY <1>3, <2>1, <2>2
    <2>4. /\ p[1][1].key = n[2] /\ p[1][1].node = NodeName(n)
          /\ p[2][2] = Columns(rows[n]).ts /\ p[1][2] = up(rows[n])
      BY <2>1, <2>2, <2>3 DEF Labels
    <2>5. entry(p) = EntryOf(rows, n)
      BY <2>4 DEF EntryOf
    <2> QED
      BY <2>5
  <1>5. ASSUME NEW n \in DOMAIN rows
        PROVE  \E p \in joined : entry(p) = EntryOf(rows, n)
    <2> DEFINE p == <<<<Labels(n), up(rows[n])>>, <<Labels(n), Columns(rows[n]).ts>>>>
    <2>1. p[1] \in node_up /\ p[2] \in checked /\ p = <<p[1], p[2]>>
      OBVIOUS
    <2>2. p[1][1] = Labels(n) /\ p[2][1] = Labels(n)
      OBVIOUS
    <2>3. p \in node_up \X checked
      BY <2>1
    <2> HIDE DEF node_up, checked
    <2>4. p \in joined
      BY <2>2, <2>3
    <2>5. entry(p) = EntryOf(rows, n)
      BY DEF EntryOf, Labels
    <2> QED
      BY <2>4, <2>5
  <1>6. shown' = [acked |-> Acknowledged, entries |-> {entry(p) : p \in joined}]
    BY <1>1
  <1> HIDE DEF entry, joined
  <1>7. {entry(p) : p \in joined} = {EntryOf(rows, n) : n \in DOMAIN rows}
    BY <1>4, <1>5
  <1> QED
    BY <1>6, <1>7

\* The rows of a listing: one of the newest for every node.
LEMMA LatestRows ==
    ASSUME IndInv, NEW rows \in latest_per_node_stmt, NEW n \in DOMAIN rows
    PROVE  /\ n \in node
           /\ rows[n] \in probe_result
           /\ rows[n].node_id = n
           /\ \A y \in probe_result : y.node_id = n => Columns(y).ts <= Columns(rows[n]).ts
  BY DEF latest_per_node_stmt, Newest

\* Every node with a result is listed, with a result at least as new.
LEMMA LatestCovers ==
    ASSUME IndInv, NEW rows \in latest_per_node_stmt, NEW x \in probe_result
    PROVE  /\ x.node_id \in DOMAIN rows
           /\ EntryOf(rows, x.node_id).key = Columns(x).key
           /\ EntryOf(rows, x.node_id).ts >= Columns(x).ts
  <1>1. x.node_id \in node /\ x.node_id[2] = Columns(x).key /\ Columns(x).ts \in Nat
    BY ResultRows
  <1>2. x.node_id \in DOMAIN rows
    BY <1>1 DEF latest_per_node_stmt
  <1>3. Columns(x).ts <= Columns(rows[x.node_id]).ts /\ rows[x.node_id] \in probe_result
    BY <1>2, LatestRows
  <1>4. Columns(rows[x.node_id]).ts \in Nat
    BY <1>3, ResultRows
  <1> QED
    BY <1>1, <1>2, <1>3, <1>4 DEF EntryOf

\* A listing is current, well-typed and carries the names of the node rows.
LEMMA ListingCurrent ==
    ASSUME ViewsInv, UNCHANGED vars, NEW rows \in latest_per_node_stmt,
           shown' = [acked |-> Acknowledged,
                     entries |-> {EntryOf(rows, n) : n \in DOMAIN rows}]
    PROVE  StatusCurrent' /\ shown' \in Listings /\ ShownNames'
  <1> DEFINE E == {EntryOf(rows, n) : n \in DOMAIN rows}
  <1>1. shown'.entries = E /\ shown'.acked = Acknowledged
    OBVIOUS
  <1>2. UNCHANGED <<node, probe_run, probe_result>> /\ IndInv /\ NodeOrigin
    BY DEF vars, tables, ViewsInv
  <1>3. \A n \in DOMAIN rows : /\ n \in node /\ n[2] \in Keys /\ NodeName(n) \in Names
                               /\ rows[n] \in probe_result /\ rows[n].node_id = n
    BY <1>2, LatestRows, NamedByEntry DEF IndInv, TypeOK
  <1>4. \A n \in DOMAIN rows : EntryOf(rows, n) \in Entries
    <2> TAKE n \in DOMAIN rows
    <2>1. Columns(rows[n]) \in ResultIn
      BY <1>2, <1>3, ResultRows
    <2>2. Columns(rows[n]).ts \in Nat /\ up(rows[n]) \in BOOLEAN
      BY <2>1 DEF ResultIn, up
    <2> QED
      BY <1>3, <2>2 DEF EntryOf, Entries
  <1>5. shown' \in Listings
    BY <1>2, <1>4, AcknowledgedStored DEF Listings
  <1>6. ShownNames'
    <2>1. ASSUME NEW e \in shown'.entries
          PROVE  \E n \in node : n[2] = e.key /\ NodeName(n) = e.name
      <3>1. PICK n \in DOMAIN rows : e = EntryOf(rows, n)
        BY <1>1
      <3> QED
        BY <1>3, <3>1 DEF EntryOf
    <2>2. \A n : NodeName(n)' = NodeName(n)
      BY DEF NodeName, Batch, KeyAt, Results
    <2> QED
      BY <1>2, <2>1, <2>2 DEF ShownNames
  <1>7. \A e, f \in E : e.key = f.key => e = f
    BY <1>2, <1>3 DEF EntryOf, IndInv, NodeUnique
  <1>8. ASSUME NEW e \in E
        PROVE  \E m \in Reports({RunOf[h] : h \in probe_run}) :
                  m.key = e.key /\ m.ts = e.ts /\ e.up = (m.tcp_ok /\ m.tls_ok)
    <2>1. PICK n \in DOMAIN rows : e = EntryOf(rows, n)
      OBVIOUS
    <2>2. /\ Columns(rows[n]) \in Reports({RunOf[h] : h \in probe_run})
          /\ Columns(rows[n]).key = n[2]
      BY <1>2, <1>3, ResultRows
    <2> QED
      BY <2>1, <2>2 DEF EntryOf, up
  <1>9. ASSUME NEW m \in Reports(Acknowledged)
        PROVE  \E e \in E : e.key = m.key /\ e.ts >= m.ts
    <2>1. PICK x \in probe_result : Columns(x) = m
      BY <1>2, AcknowledgedStored, ReportsStored
    <2> QED
      BY <1>2, <2>1, LatestCovers
  <1>10. StatusCurrent'
    BY <1>1, <1>2, <1>7, <1>8, <1>9 DEF StatusCurrent
  <1> QED
    BY <1>5, <1>6, <1>10

-----------------------------------------------------------------------------
(* Histories.                                                              *)

\* Newest first and cut at limit: what is not among the rows returned is not
\* newer than any of them, and is missing only when the limit is reached.
LEMMA OrderedRows ==
    ASSUME NEW rows, IsFiniteSet(rows), NEW limit \in Nat, NEW s \in Ordered(rows, limit)
    PROVE  /\ Len(s) \in Nat /\ Len(s) <= limit /\ DOMAIN s = 1 .. Len(s)
           /\ \A i \in 1 .. Len(s) : s[i] \in rows
           /\ \A i, j \in 1 .. Len(s) : i < j => Columns(s[i]).ts >= Columns(s[j]).ts
           /\ \A x \in rows :
                 \/ \E i \in 1 .. Len(s) : s[i] = x
                 \/ Len(s) = limit /\ \A i \in 1 .. Len(s) : Columns(s[i]).ts >= Columns(x).ts
  <1> DEFINE size == IF Cardinality(rows) < limit THEN Cardinality(rows) ELSE limit
  <1>1. Cardinality(rows) \in Nat
    BY FS_CardinalityType
  <1>2. size \in Nat /\ size <= limit /\ (size = limit \/ size = Cardinality(rows))
    BY <1>1
  <1>3. /\ s \in [1 .. size -> rows]
        /\ \A i, j \in 1 .. size :
              i < j => s[i] # s[j] /\ Columns(s[i]).ts >= Columns(s[j]).ts
        /\ \A x \in rows : (\A i \in 1 .. size : s[i] # x) =>
              \A i \in 1 .. size : Columns(s[i]).ts >= Columns(x).ts
    BY DEF Ordered
  <1> HIDE DEF size
  <1>4. s \in Seq(rows)
    BY <1>2, <1>3
  <1>5. Len(s) = size /\ DOMAIN s = 1 .. size
    BY <1>2, <1>3, <1>4
  <1>6. ASSUME NEW x \in rows, \A i \in 1 .. size : s[i] # x
        PROVE  size = limit
    <2>1. SUFFICES ASSUME size = Cardinality(rows) PROVE FALSE
      BY <1>2
    <2>2. s \in [1 .. size -> rows \ {x}]
      BY <1>3, <1>6
    <2>3. \A i, j \in 1 .. size : s[i] = s[j] => i = j
      BY <1>2, <1>3
    <2>4. s \in Injection(1 .. size, rows \ {x})
      BY <2>2, <2>3, Fun_IsInj
    <2>5. /\ IsFiniteSet(rows \ {x})
          /\ Cardinality(rows \ {x}) = Cardinality(rows) - 1
      BY <1>6, FS_RemoveElement
    <2>6. Cardinality(1 .. size) <= Cardinality(rows \ {x})
      BY <2>4, <2>5, FS_Injection
    <2>7. Cardinality(1 .. size) = size
      BY <1>2, FS_Interval
    <2> QED
      BY <1>1, <2>1, <2>5, <2>6, <2>7
  <1> QED
    BY <1>2, <1>3, <1>5, <1>6

\* FastAPI has validated the query parameters.
LEMMA QueryLimit ==
    ASSUME NEW q \in Queries
    PROVE  q.limit \in Nat
  <1>1. q.limit \in Limits
    BY DEF Queries
  <1>2. Limits \subseteq Nat
    BY ViewsAssumption
  <1> QED
    BY <1>1, <1>2

\* The second statement of node_history answers with the history of the node
\* that the first one selected, whatever was committed between the two.
LEMMA SelectHistoryHonest ==
    ASSUME ViewsInv, SelectHistory
    PROVE  HistoryHonest' /\ ViewsTypeOK' /\ ListedNameResolves'
  <1> DEFINE q == chosen[1]
  <1> DEFINE n == chosen[2]
  <1> DEFINE rows == HistoryOf(n, q.since)
  <1>1. /\ IndInv /\ NodeOrigin /\ ViewsTypeOK /\ IsFiniteSet(probe_result)
        /\ chosen # <<>> /\ NodeName(n) = q.name
    BY DEF ViewsInv, ChosenNode, SelectHistory
  <1>2. chosen \in Queries \X node
    BY <1>1 DEF ViewsTypeOK
  <1>3. q \in Queries /\ n \in node
    BY <1>2
  <1>4. q.limit \in Nat
    BY <1>3, QueryLimit
  <1>5. PICK s \in Ordered(rows, q.limit) :
           history' = [query |-> q, found |-> TRUE, rows |-> s,
                       acked |-> Acknowledged, listed |-> shown.entries]
    BY DEF SelectHistory
  <1>6. UNCHANGED <<node, probe_run, probe_result, shown, reads>> /\ chosen' = <<>>
    BY DEF SelectHistory, vars, tables
  <1>7. rows \subseteq probe_result /\ IsFiniteSet(rows)
    <2>1. rows \subseteq probe_result
      BY DEF HistoryOf
    <2> QED
      BY <1>1, <2>1, FS_Subset
  <1>8. /\ Len(s) \in Nat /\ Len(s) <= q.limit /\ DOMAIN s = 1 .. Len(s)
        /\ \A i \in 1 .. Len(s) : s[i] \in rows
        /\ \A i, j \in 1 .. Len(s) : i < j => Columns(s[i]).ts >= Columns(s[j]).ts
        /\ \A x \in rows :
              \/ \E i \in 1 .. Len(s) : s[i] = x
              \/ Len(s) = q.limit /\ \A i \in 1 .. Len(s) : Columns(s[i]).ts >= Columns(x).ts
    BY <1>4, <1>5, <1>7, OrderedRows
  <1>9. ViewsTypeOK'
    <2>1. /\ history'.query \in Queries /\ history'.found \in BOOLEAN
          /\ \A i \in DOMAIN history'.rows : history'.rows[i] \in probe_result'
      BY <1>3, <1>5, <1>6, <1>7, <1>8
    <2> QED
      BY <1>1, <1>6, <2>1 DEF ViewsTypeOK
  <1>10. ListedNameResolves'
    BY <1>5 DEF ListedNameResolves
  <1>11. HistoryHonest'
    <2> DEFINE k == n[2]
    <2>1. k \in Keys
      BY <1>1, <1>3 DEF IndInv, TypeOK
    <2>2. \E m \in Reports(Runs) : m.key = k /\ m.name = q.name
      <3>1. n[1] \in Requests
        BY <1>1, <1>3, NamedByEntry DEF IndInv
      <3>2. PICK i \in Batch(n[1]) : /\ KeyAt(n[1], i) = n[2]
                                     /\ Results(n[1])[i].name = NodeName(n)
        BY <1>1, <1>3, NamedByEntry DEF IndInv
      <3>3. i \in DOMAIN Payload[RunOf[n[1]]].results /\ RunOf[n[1]] \in Runs
        BY <3>1, <3>2, BatchType, PayloadAssumption DEF Batch, Results
      <3>4. Report(RunOf[n[1]], i) \in Reports(Runs)
        BY <3>3 DEF Reports
      <3> QED
        BY <1>1, <3>2, <3>4 DEF Report, KeyAt, Results
    <2>3. \A i \in 1 .. Len(s) : Columns(s[i]).key = k /\ Columns(s[i]).ts >= q.since
      BY <1>1, <1>7, <1>8, ResultRows DEF HistoryOf
    <2>4. ASSUME NEW m \in Reports(Acknowledged), m.key = k, m.ts >= q.since
          PROVE  \/ \E i \in 1 .. Len(s) : Columns(s[i]) = m
                 \/ Len(s) = q.limit /\ \A i \in 1 .. Len(s) : Columns(s[i]).ts >= m.ts
      <3>1. PICK x \in probe_result : Columns(x) = m /\ x.node_id \in node
                                      /\ x.node_id[2] = m.key
        BY <1>1, AcknowledgedStored, ReportsStored
      <3>2. x.node_id = n
        BY <1>1, <1>3, <2>4, <3>1 DEF IndInv, NodeUnique
      <3>3. x \in rows
        BY <2>4, <3>1, <3>2 DEF HistoryOf
      <3> QED
        BY <1>8, <3>1, <3>3
    <2>5. /\ history'.query = q /\ history'.rows = s /\ history'.acked = Acknowledged
      BY <1>5
    <2> HIDE DEF q, k, rows
    <2> QED
      BY <1>8, <2>1, <2>2, <2>3, <2>4, <2>5 DEF HistoryHonest, Columns, Reports, Report, Results
  <1> QED
    BY <1>9, <1>10, <1>11

-----------------------------------------------------------------------------
(* The invariant is inductive.                                             *)

\* Before the first GET nothing has been shown.
LEMMA ViewsInitInv == ViewsInit => ViewsInv
  <1> SUFFICES ASSUME ViewsInit PROVE ViewsInv
    OBVIOUS
  <1>1. IndInv
    BY InitIndInv DEF ViewsInit
  <1>2. node = {} /\ probe_result = {} /\ shown = [entries |-> {}, acked |-> {}]
        /\ chosen = <<>> /\ history = <<>> /\ reads = 0
    BY DEF ViewsInit, Init
  <1>3. IsFiniteSet(probe_result) /\ NodeOrigin /\ ShownNames /\ ChosenNode
    BY <1>2, FS_EmptySet DEF NodeOrigin, ShownNames, ChosenNode
  <1>4. ViewsTypeOK
    BY <1>2, ViewsAssumption DEF ViewsTypeOK, Listings
  <1>5. StatusCurrent /\ HistoryHonest /\ ListedNameResolves
    BY <1>2 DEF StatusCurrent, HistoryHonest, ListedNameResolves, Reports
  <1> QED
    BY <1>1, <1>3, <1>4, <1>5 DEF ViewsInv

\* A node row keeps its name: it depends on the payload alone.
LEMMA NameConstant ==
    \A n : NodeName(n)' = NodeName(n)
  BY DEF NodeName, Batch, KeyAt, Results

\* A result of a stored run stays one.
LEMMA ReportsGrow ==
    ASSUME NEW R, NEW S, R \subseteq S
    PROVE  Reports(R) \subseteq Reports(S)
  BY DEF Reports

\* What an answer says depends on nothing that changes after it was given.
LEMMA AnswerKept ==
    ASSUME HistoryHonest, ListedNameResolves, UNCHANGED history
    PROVE  HistoryHonest' /\ ListedNameResolves'
  <1> DEFINE Honest(answered) ==
        answered # <<>> /\ answered.found =>
          LET q == answered.query
              row(i) == Columns(answered.rows[i])
              size == Len(answered.rows)
          IN  \E k \in Keys :
                /\ \E m \in Reports(Runs) : m.key = k /\ m.name = q.name
                /\ size <= q.limit
                /\ \A i \in 1 .. size : row(i).key = k /\ row(i).ts >= q.since
                /\ \A i, j \in 1 .. size : i < j => row(i).ts >= row(j).ts
                /\ \A m \in Reports(answered.acked) :
                      m.key = k /\ m.ts >= q.since =>
                         \/ \E i \in 1 .. size : row(i) = m
                         \/ size = q.limit /\ \A i \in 1 .. size : row(i).ts >= m.ts
  <1>1. Honest(history)
    BY DEF HistoryHonest
  <1>2. Honest(history') => HistoryHonest'
    BY DEF HistoryHonest, Columns, Reports, Report, Results
  <1> HIDE DEF Honest
  <1>3. Honest(history')
    BY <1>1
  <1>4. ListedNameResolves'
    BY DEF ListedNameResolves
  <1> QED
    BY <1>2, <1>3, <1>4

\* Storing a run leaves every answer given before it true.
LEMMA IngestViewsInv ==
    ASSUME ViewsInv, [Next]_vars, UNCHANGED readers
    PROVE  ViewsInv'
  <1>1. UNCHANGED <<shown, chosen, history, reads>>
    BY DEF readers
  <1>2. /\ IndInv' /\ NodeOrigin' /\ IsFiniteSet(probe_result')
        /\ probe_run \subseteq probe_run'
        /\ node \subseteq node'
        /\ probe_result \subseteq probe_result'
    BY RowsGrow DEF ViewsInv
  <1>3. ViewsTypeOK'
    <2>1. chosen \in {<<>>} \cup (Queries \X node')
      <3>1. Queries \X node \subseteq Queries \X node'
        BY <1>2
      <3> QED
        BY <3>1 DEF ViewsInv, ViewsTypeOK
    <2>2. history = <<>> \/ /\ history.query \in Queries /\ history.found \in BOOLEAN
                            /\ \A i \in DOMAIN history.rows : history.rows[i] \in probe_result'
      BY <1>2 DEF ViewsInv, ViewsTypeOK
    <2> QED
      BY <1>1, <2>1, <2>2 DEF ViewsInv, ViewsTypeOK
  <1>4. ShownNames'
    BY <1>1, <1>2, NameConstant DEF ViewsInv, ShownNames
  <1>5. ChosenNode'
    BY <1>1, NameConstant DEF ViewsInv, ChosenNode
  <1>6. StatusCurrent'
    <2>1. {RunOf[h] : h \in probe_run} \subseteq {RunOf[h] : h \in probe_run'}
      BY <1>2
    <2>2. Reports({RunOf[h] : h \in probe_run}) \subseteq Reports({RunOf[h] : h \in probe_run'})
      BY <2>1, ReportsGrow
    <2>3. Reports(shown.acked)' = Reports(shown.acked)
      BY <1>1 DEF Reports, Report
    <2>4. Reports({RunOf[h] : h \in probe_run})' = Reports({RunOf[h] : h \in probe_run'})
      BY DEF Reports, Report
    <2> QED
      BY <1>1, <2>2, <2>3, <2>4 DEF ViewsInv, StatusCurrent
  <1>7. HistoryHonest' /\ ListedNameResolves'
    BY <1>1, AnswerKept DEF ViewsInv
  <1> QED
    BY <1>2, <1>3, <1>4, <1>5, <1>6, <1>7 DEF ViewsInv

\* An answer of /v1/nodes or /metrics.
LEMMA ListingViewsInv ==
    ASSUME ViewsInv, list_nodes \/ metrics
    PROVE  ViewsInv'
  <1>1. PICK rows \in latest_per_node_stmt :
              shown' = [acked |-> Acknowledged,
                        entries |-> {EntryOf(rows, n) : n \in DOMAIN rows}]
    BY ListNodesShows, MetricsShows DEF ViewsInv
  <1>2. UNCHANGED vars /\ UNCHANGED <<chosen, history>> /\ reads < MaxReads /\ reads' = reads + 1
    BY DEF list_nodes, metrics, Get
  <1>3. StatusCurrent' /\ shown' \in Listings /\ ShownNames'
    BY <1>1, <1>2, ListingCurrent
  <1>4. UNCHANGED <<node, probe_result>>
    BY <1>2 DEF vars, tables
  <1>5. IndInv' /\ NodeOrigin' /\ IsFiniteSet(probe_result')
    BY <1>2, RowsGrow DEF ViewsInv
  <1>6. ViewsTypeOK'
    BY <1>2, <1>3, <1>4, ViewsAssumption DEF ViewsInv, ViewsTypeOK
  <1>7. ChosenNode'
    BY <1>2, NameConstant DEF ViewsInv, ChosenNode
  <1>8. HistoryHonest' /\ ListedNameResolves'
    BY <1>2, AnswerKept DEF ViewsInv
  <1> QED
    BY <1>3, <1>5, <1>6, <1>7, <1>8 DEF ViewsInv

\* The first statement of node_history: a node of the name asked for, or a
\* 404 when no node row has it, and then nothing shown had it either.
LEMMA SelectNodeViewsInv ==
    ASSUME ViewsInv, NEW q \in Queries, SelectNode(q)
    PROVE  ViewsInv'
  <1> DEFINE named == {n \in node : NodeName(n) = q.name}
  <1>1. UNCHANGED vars /\ UNCHANGED shown /\ reads < MaxReads /\ reads' = reads + 1
        /\ chosen = <<>>
    BY DEF SelectNode, Get
  <1>2. UNCHANGED <<node, probe_run, probe_result>>
    BY <1>1 DEF vars, tables
  <1>3. IndInv' /\ NodeOrigin' /\ IsFiniteSet(probe_result')
    BY <1>1, RowsGrow DEF ViewsInv
  <1>4. ShownNames'
    BY <1>1, <1>2, NameConstant DEF ViewsInv, ShownNames
  <1>5. StatusCurrent'
    <2>1. Reports(shown.acked)' = Reports(shown.acked)
      BY <1>1 DEF Reports, Report
    <2>2. Reports({RunOf[h] : h \in probe_run})' = Reports({RunOf[h] : h \in probe_run})
      BY <1>2 DEF Reports, Report
    <2> QED
      BY <1>1, <2>1, <2>2 DEF ViewsInv, StatusCurrent
  <1>6. reads' \in 0 .. MaxReads
    BY <1>1, ViewsAssumption DEF ViewsInv, ViewsTypeOK
  <1>7. CASE named # {} /\ chosen' \in {<<q, n>> : n \in named} /\ UNCHANGED history
    <2>1. PICK n \in named : chosen' = <<q, n>>
      BY <1>7
    <2>2. chosen' \in Queries \X node /\ NodeName(chosen'[2]) = chosen'[1].name
      BY <2>1
    <2>3. ChosenNode'
      BY <2>2, NameConstant DEF ChosenNode
    <2>4. ViewsTypeOK'
      BY <1>1, <1>2, <1>6, <1>7, <2>2 DEF ViewsInv, ViewsTypeOK
    <2>5. HistoryHonest' /\ ListedNameResolves'
      BY <1>7, AnswerKept DEF ViewsInv
    <2> QED
      BY <1>3, <1>4, <1>5, <2>3, <2>4, <2>5 DEF ViewsInv
  <1>8. CASE /\ named = {} /\ UNCHANGED chosen
             /\ history' = [query |-> q, found |-> FALSE, rows |-> <<>>,
                            acked |-> Acknowledged, listed |-> shown.entries]
    <2>1. ChosenNode'
      BY <1>1, <1>8 DEF ChosenNode
    <2>2. /\ history'.query = q /\ history'.found = FALSE /\ history'.rows = <<>>
          /\ history'.listed = shown.entries
      BY <1>8
    <2>3. ViewsTypeOK'
      BY <1>1, <1>2, <1>6, <1>8, <2>2 DEF ViewsInv, ViewsTypeOK
    <2>4. HistoryHonest'
      BY <2>2 DEF HistoryHonest
    <2>5. ListedNameResolves'
      BY <1>8, <2>2 DEF ViewsInv, ShownNames, ListedNameResolves
    <2> QED
      BY <1>3, <1>4, <1>5, <2>1, <2>3, <2>4, <2>5 DEF ViewsInv
  <1> QED
    BY <1>7, <1>8 DEF SelectNode

\* The second statement of node_history closes the request.
LEMMA SelectHistoryViewsInv ==
    ASSUME ViewsInv, SelectHistory
    PROVE  ViewsInv'
  <1>1. UNCHANGED vars /\ UNCHANGED shown /\ chosen' = <<>>
    BY DEF SelectHistory
  <1>2. UNCHANGED <<node, probe_run, probe_result>>
    BY <1>1 DEF vars, tables
  <1>3. IndInv' /\ NodeOrigin' /\ IsFiniteSet(probe_result')
    BY <1>1, RowsGrow DEF ViewsInv
  <1>4. ShownNames'
    BY <1>1, <1>2, NameConstant DEF ViewsInv, ShownNames
  <1>5. StatusCurrent'
    <2>1. Reports(shown.acked)' = Reports(shown.acked)
      BY <1>1 DEF Reports, Report
    <2>2. Reports({RunOf[h] : h \in probe_run})' = Reports({RunOf[h] : h \in probe_run})
      BY <1>2 DEF Reports, Report
    <2> QED
      BY <1>1, <2>1, <2>2 DEF ViewsInv, StatusCurrent
  <1>6. ChosenNode'
    BY <1>1 DEF ChosenNode
  <1> QED
    BY <1>3, <1>4, <1>5, <1>6, SelectHistoryHonest DEF ViewsInv

\* Every step, of a handler or of the reader, preserves the invariant.
LEMMA ViewsNextInv == ViewsInv /\ [ViewsNext]_<<vars, readers>> => ViewsInv'
  <1> SUFFICES ASSUME ViewsInv, [ViewsNext]_<<vars, readers>> PROVE ViewsInv'
    OBVIOUS
  <1>1. CASE [Next]_vars /\ UNCHANGED readers
    BY <1>1, IngestViewsInv
  <1>2. CASE Read
    BY <1>2, ListingViewsInv, SelectNodeViewsInv, SelectHistoryViewsInv DEF Read
  <1> QED
    BY <1>1, <1>2 DEF ViewsNext

-----------------------------------------------------------------------------
(* The theorems.                                                           *)

\* The read side writes nothing: beside it the ingest path behaves as it does
\* alone, so that every theorem about SafeSpec holds of ViewsSpec.
THEOREM ReadsChangeNothing == ViewsSpec => SafeSpec
  <1>1. ViewsInit => Init
    BY DEF ViewsInit
  <1>2. [ViewsNext]_<<vars, readers>> => [Next]_vars
    BY DEF ViewsNext, Read, list_nodes, metrics, SelectNode, SelectHistory, Get
  <1> QED
    BY <1>1, <1>2, PTL DEF ViewsSpec, SafeSpec

\* The inductive invariant holds in every reachable state.
THEOREM ViewsInvariance == ViewsSpec => []ViewsInv
  BY ViewsInitInv, ViewsNextInv, PTL DEF ViewsSpec

\* Type correctness of the reader's state.
THEOREM ViewsTypeCorrect == ViewsSpec => []ViewsTypeOK
  <1>1. ViewsInv => ViewsTypeOK
    BY DEF ViewsInv
  <1> QED
    BY <1>1, ViewsInvariance, PTL

\* /v1/nodes and /metrics show every node once, in a state that a stored run
\* reported, and never one older than an acknowledged run reported.
THEOREM ListingsAreCurrent == ViewsSpec => []StatusCurrent
  <1>1. ViewsInv => StatusCurrent
    BY DEF ViewsInv
  <1> QED
    BY <1>1, ViewsInvariance, PTL

\* A history is of one node, sorted, within its bounds and complete up to the
\* limit, although it is read by two statements with commits between them.
THEOREM HistoriesAreHonest == ViewsSpec => []HistoryHonest
  <1>1. ViewsInv => HistoryHonest
    BY DEF ViewsInv
  <1> QED
    BY <1>1, ViewsInvariance, PTL

\* A name once shown is never answered with a 404.
THEOREM NamesResolve == ViewsSpec => []ListedNameResolves
  <1>1. ViewsInv => ListedNameResolves
    BY DEF ViewsInv
  <1> QED
    BY <1>1, ViewsInvariance, PTL

\* No node disappears from the listings and no state goes back in time.
THEOREM NoRegression == ViewsSpec => ViewNeverRegresses
  <1> DEFINE Grows == \A e \in shown.entries : \E f \in shown'.entries :
                         f.key = e.key /\ f.ts >= e.ts
  <1>1. ViewsInv /\ [ViewsNext]_<<vars, readers>> => [Grows]_shown
    <2> SUFFICES ASSUME ViewsInv, ViewsNext, shown' # shown PROVE Grows
      BY DEF readers
    <2>1. list_nodes \/ metrics
      BY DEF ViewsNext, Read, readers, SelectNode, SelectHistory
    <2>2. PICK rows \in latest_per_node_stmt :
              shown' = [acked |-> Acknowledged,
                        entries |-> {EntryOf(rows, n) : n \in DOMAIN rows}]
      BY <2>1, ListNodesShows, MetricsShows DEF ViewsInv
    <2>3. ASSUME NEW e \in shown.entries
          PROVE  \E f \in shown'.entries : f.key = e.key /\ f.ts >= e.ts
      <3>1. PICK m \in Reports({RunOf[h] : h \in probe_run}) : m.key = e.key /\ m.ts = e.ts
        BY DEF ViewsInv, StatusCurrent
      <3>2. PICK x \in probe_result : Columns(x) = m
        BY <3>1, ReportsStored DEF ViewsInv
      <3> QED
        BY <2>2, <3>1, <3>2, LatestCovers DEF ViewsInv
    <2> QED
      BY <2>3
  <1> QED
    BY <1>1, ViewsInvariance, PTL DEF ViewsSpec, ViewNeverRegresses

\* A node keeps its labels, also when an agent renames it.
THEOREM LabelsAreStable == ViewsSpec => SeriesStable
  <1> DEFINE Stable == \A e \in shown.entries, f \in shown'.entries :
                          e.key = f.key => e.name = f.name
  <1>1. ViewsInv /\ [ViewsNext]_<<vars, readers>> => [Stable]_shown
    <2> SUFFICES ASSUME ViewsInv, ViewsNext, shown' # shown PROVE Stable
      BY DEF readers
    <2>1. list_nodes \/ metrics
      BY DEF ViewsNext, Read, readers, SelectNode, SelectHistory
    <2>2. ViewsInv' /\ UNCHANGED node
      BY <2>1, ListingViewsInv DEF list_nodes, metrics, Get, vars, tables
    <2>3. ASSUME NEW e \in shown.entries, NEW f \in shown'.entries, e.key = f.key
          PROVE  e.name = f.name
      <3>1. PICK m \in node : m[2] = e.key /\ NodeName(m) = e.name
        BY DEF ViewsInv, ShownNames
      <3>2. PICK n \in node : n[2] = f.key /\ NodeName(n) = f.name
        BY <2>2, NameConstant DEF ViewsInv, ShownNames
      <3> QED
        BY <2>3, <3>1, <3>2 DEF ViewsInv, IndInv, NodeUnique
    <2> QED
      BY <2>3
  <1> QED
    BY <1>1, ViewsInvariance, PTL DEF ViewsSpec, SeriesStable
=============================================================================
