-------------------------- MODULE ProbestoreViews --------------------------
(***************************************************************************)
(* The read side of probestore beside the ingest path of Probestore: GET   *)
(* /v1/nodes, GET /v1/nodes/{name}/history (src/probestore/app/routers/    *)
(* nodes.py) and GET /metrics (metrics.py).                                *)
(*                                                                         *)
(* One client, a dashboard or Prometheus, sends one GET after another      *)
(* while runs are being stored.  Every SQL statement is an action and sees *)
(* the committed rows (READ COMMITTED).  Of a result the views are about   *)
(* its timestamp and its two flags; latency, error, failed_phase and       *)
(* provider are carried along and left out.                                *)
(***************************************************************************)
EXTENDS Probestore

CONSTANTS
    Sinces,    \* values of the query parameter since; 0 is none given
    Limits,    \* values of the query parameter limit
    MaxReads   \* bound on GETs

ASSUME ViewsAssumption == /\ Sinces \subseteq Nat
                          /\ Limits \subseteq Nat
                          /\ \A limit \in Limits : 1 <= limit /\ limit <= 5000
                          /\ MaxReads \in Nat

VARIABLES
    shown,     \* what /v1/nodes or /metrics showed last
    chosen,    \* the open history request and the node it selected
    history,   \* the last answer of /v1/nodes/{name}/history
    reads      \* GETs sent

readers == <<shown, chosen, history, reads>>

\* The columns of a row of probe_result.
Columns(x) == Results(x.run_id)[x.idx]

\* Mutant: ON CONFLICT DO UPDATE SET name: the last result names the node.
MutNodeName(n) ==
    LET own == {x \in probe_result : x.node_id = n}
    IN  Columns(CHOOSE x \in own : \A y \in own : Columns(y).ts <= Columns(x).ts).name

\* The name a node row was inserted with: `seen` keeps the last entry of a
\* key, and ON CONFLICT DO NOTHING never updates the row.
NodeName(n) ==
    LET own == {i \in Batch(n[1]) : KeyAt(n[1], i) = n[2]}
    IN  Results(n[1])[CHOOSE i \in own : \A j \in own : j <= i].name

\* The runs that some caller knows to be stored.
Acknowledged ==
    {RunOf[h] : h \in {g \in Requests : answer[g] \in {"created", "duplicate"}}}

Entries == [key : Keys, name : Names, ts : Nat, up : BOOLEAN]

Queries == [name : Names, since : Sinces, limit : Limits]

Listings == [entries : SUBSET Entries, acked : SUBSET Runs]

ViewsTypeOK ==
    /\ shown \in Listings
    /\ chosen \in {<<>>} \cup (Queries \X node)
    /\ history = <<>>
       \/ /\ history.query \in Queries /\ history.found \in BOOLEAN
          /\ \A i \in DOMAIN history.rows : history.rows[i] \in probe_result
    /\ reads \in 0 .. MaxReads

ViewsInit == /\ Init
             /\ shown = [entries |-> {}, acked |-> {}]
             /\ chosen = <<>> /\ history = <<>> /\ reads = 0

-----------------------------------------------------------------------------
(* The statements.                                                         *)

\* Mutant: DISTINCT ON without the ORDER BY that makes it the newest.
MutNewest(n) == {x \in probe_result : x.node_id = n}

\* The rows DISTINCT ON may keep for a node: newest first, ties as they come.
Newest(n) ==
    {x \in probe_result :
        /\ x.node_id = n
        /\ \A y \in probe_result : y.node_id = n => Columns(y).ts <= Columns(x).ts}

\* latest_per_node_stmt: each node that has a result, with one of them.
latest_per_node_stmt ==
    LET joined == {n \in node : \E x \in probe_result : x.node_id = n}
    IN  {rows \in [joined -> probe_result] : \A n \in joined : rows[n] \in Newest(n)}

\* Mutant: one phase is enough.
Mutup(x) == Columns(x).tcp_ok \/ Columns(x).tls_ok

up(x) == Columns(x).tcp_ok /\ Columns(x).tls_ok

\* One client, one GET at a time.
Get == /\ chosen = <<>> /\ reads < MaxReads
       /\ reads' = reads + 1
       /\ UNCHANGED vars

\* A list of NodeStatus.
list_nodes ==
    /\ Get
    /\ \E rows \in latest_per_node_stmt :
          shown' = [acked |-> Acknowledged,
                    entries |-> {[key |-> n[2], name |-> NodeName(n),
                                  ts |-> Columns(rows[n]).ts, up |-> up(rows[n])] :
                                 n \in DOMAIN rows}]
    /\ UNCHANGED <<chosen, history>>

\* node, addr and sni: what tells one series from another.
Labels(n) == [node |-> NodeName(n), key |-> n[2]]

\* Two of the families: nodecheck_node_up, and the timestamp that
\* nodecheck_last_check_age_seconds is the distance to.  A scrape joins them
\* on their labels.
metrics ==
    /\ Get
    /\ \E rows \in latest_per_node_stmt :
          LET node_up == {<<Labels(n), up(rows[n])>> : n \in DOMAIN rows}
              checked == {<<Labels(n), Columns(rows[n]).ts>> : n \in DOMAIN rows}
              joined  == {p \in node_up \X checked : p[1][1] = p[2][1]}
          IN  shown' = [acked |-> Acknowledged,
                        entries |-> {[key |-> p[1][1].key, name |-> p[1][1].node,
                                      ts |-> p[2][2], up |-> p[1][2]] : p \in joined}]
    /\ UNCHANGED <<chosen, history>>

\* Mutant: `if node is None` is missing.
MutSelectNode(q) ==
    /\ Get
    /\ LET named == {n \in node : NodeName(n) = q.name}
       IN  chosen' \in {<<q, n>> : n \in IF named = {} THEN {<<>>} ELSE named}
    /\ UNCHANGED <<shown, history>>

\* node_history, first statement: any one node of that name, else a 404.
SelectNode(q) ==
    /\ Get
    /\ LET named == {n \in node : NodeName(n) = q.name}
       IN  \/ /\ named # {}
              /\ chosen' \in {<<q, n>> : n \in named}
              /\ UNCHANGED history
           \/ /\ named = {}
              /\ history' = [query |-> q, found |-> FALSE, rows |-> <<>>,
                             acked |-> Acknowledged, listed |-> shown.entries]
              /\ UNCHANGED chosen
    /\ UNCHANGED shown

\* Mutant: the results are joined on the name instead of the id.
MutHistoryOf(n, since) ==
    {x \in probe_result : NodeName(x.node_id) = NodeName(n) /\ Columns(x).ts >= since}

HistoryOf(n, since) == {x \in probe_result : x.node_id = n /\ Columns(x).ts >= since}

\* Newest first, ties as they come, cut at limit.
Ordered(rows, limit) ==
    LET size == IF Cardinality(rows) < limit THEN Cardinality(rows) ELSE limit
    IN  {s \in [1 .. size -> rows] :
            /\ \A i, j \in 1 .. size :
                  i < j => s[i] # s[j] /\ Columns(s[i]).ts >= Columns(s[j]).ts
            /\ \A x \in rows : (\A i \in 1 .. size : s[i] # x) =>
                  \A i \in 1 .. size : Columns(s[i]).ts >= Columns(x).ts}

\* node_history, second statement: that node's results.
SelectHistory ==
    /\ chosen # <<>>
    /\ LET q == chosen[1]
       IN  \E s \in Ordered(HistoryOf(chosen[2], q.since), q.limit) :
              history' = [query |-> q, found |-> TRUE, rows |-> s,
                          acked |-> Acknowledged, listed |-> shown.entries]
    /\ chosen' = <<>>
    /\ UNCHANGED <<vars, shown, reads>>

Read == list_nodes \/ metrics \/ SelectHistory \/ \E q \in Queries : SelectNode(q)

ViewsNext == (Next /\ UNCHANGED readers) \/ Read

ViewsSpec == ViewsInit /\ [][ViewsNext]_<<vars, readers>>

-----------------------------------------------------------------------------
(* Properties.                                                             *)

\* Entry i of the batch of run r, as its agent reported it.
Report(r, i) == Payload[r].results[i]

Reports(R) == UNION {{Report(r, i) : i \in DOMAIN Payload[r].results} : r \in R}

\* "Expose the latest known state of every node" (metrics.py:31): a node is
\* shown once, its state is one that a stored run reported for it, and no run
\* acknowledged by then reported it later, in whatever order runs arrive.
StatusCurrent ==
    /\ \A e, f \in shown.entries : e.key = f.key => e = f
    /\ \A e \in shown.entries : \E m \in Reports({RunOf[h] : h \in probe_run}) :
          m.key = e.key /\ m.ts = e.ts /\ e.up = (m.tcp_ok /\ m.tls_ok)
    /\ \A m \in Reports(shown.acked) : \E e \in shown.entries :
          e.key = m.key /\ e.ts >= m.ts

\* From one answer to the next no node disappears and no state goes back in
\* time, so that nodecheck_last_check_age_seconds only grows with the clock.
ViewNeverRegresses ==
    [][\A e \in shown.entries : \E f \in shown'.entries :
          f.key = e.key /\ f.ts >= e.ts]_shown

\* A node keeps its series: the labels of an (addr, sni) never change, also
\* when an agent renames the node (ingest.py:35).
SeriesStable ==
    [][\A e \in shown.entries, f \in shown'.entries :
          e.key = f.key => e.name = f.name]_shown

\* A history is that of one node, of the name asked for, even where two nodes
\* share it: sorted, within since and limit, and missing nothing that an
\* acknowledged run reported, unless the limit cuts it off.
HistoryHonest ==
    history # <<>> /\ history.found =>
      LET q == history.query
          row(i) == Columns(history.rows[i])
          size == Len(history.rows)
      IN  \E k \in Keys :
            /\ \E m \in Reports(Runs) : m.key = k /\ m.name = q.name
            /\ size <= q.limit
            /\ \A i \in 1 .. size : row(i).key = k /\ row(i).ts >= q.since
            /\ \A i, j \in 1 .. size : i < j => row(i).ts >= row(j).ts
            /\ \A m \in Reports(history.acked) :
                  m.key = k /\ m.ts >= q.since =>
                     \/ \E i \in 1 .. size : row(i) = m
                     \/ size = q.limit /\ \A i \in 1 .. size : row(i).ts >= m.ts

\* A name that /v1/nodes or /metrics has shown never gives a 404 later.
ListedNameResolves ==
    history # <<>> /\ ~history.found =>
      \A e \in history.listed : e.name # history.query.name
=============================================================================
