----------------------------- MODULE PushSystem -----------------------------
(***************************************************************************)
(* nodecheck -push-url against probestore: pushResults and postOnce of     *)
(* src/cmd/nodecheck/push.go composed with the ingest handlers of          *)
(* Probestore.                                                             *)
(*                                                                         *)
(* An agent is one nodecheck invocation.  It posts one run, at most        *)
(* MaxAttempts times with the same body; attempt i of agent a is the       *)
(* request <<a, i>>.  A handler goes on after its caller has hung up, so   *)
(* a retry may meet the handler of an earlier attempt still at work.       *)
(***************************************************************************)
EXTENDS Probestore

CONSTANTS
    Agents,
    Scenarios,    \* which of the agents push, and how many faults hit each
    MaxAttempts   \* len(backoff), 3 in the code

ASSUME AgentsAssumption ==
    /\ MaxAttempts \in Nat \ {0}
    /\ \A s \in Scenarios : /\ DOMAIN s \subseteq Agents
                            /\ \A a \in DOMAIN s : s[a] \in Nat
    /\ Requests = Agents \X (1 .. MaxAttempts)
    /\ Runs = Agents
    /\ RunOf = [h \in Requests |-> h[1]]
    \* Every attempt carries the token of the command line.
    /\ \A a \in Agents : \A i, j \in 1 .. MaxAttempts :
          <<a, i>> \in Authorized => <<a, j>> \in Authorized

VARIABLES
    cpc,      \* where pushResults of each agent is
    attempt,  \* the attempt it makes, or will make after the backoff
    expired,  \* whether its context's deadline has passed
    verdict,  \* what pushResults returned
    sent,     \* the requests whose bytes are on their way to the server
    faults,   \* the faults that have hit the agent (history variable)
    scenario  \* who pushes, and the bound on the faults of each

client == <<cpc, attempt, expired, verdict, sent>>
pushVars == <<vars, client, faults, scenario>>

\* idle: an invocation without -push-url.
ClientStages == {"idle", "post", "wait", "backoff", "returned"}

\* nil, a permanentError, lastErr of the last attempt, ctx.Err().
Verdicts == {"none", "ok", "permanent", "transient", "ctx"}

PushTypeOK == /\ TypeOK
              /\ cpc \in [Agents -> ClientStages]
              /\ attempt \in [Agents -> 1 .. MaxAttempts]
              /\ expired \in [Agents -> BOOLEAN]
              /\ verdict \in [Agents -> Verdicts]
              /\ sent \subseteq Requests
              /\ faults \in [Agents -> Nat]
              /\ scenario \in Scenarios

PushInit == /\ Init
            /\ scenario \in Scenarios
            /\ cpc = [a \in Agents |-> IF a \in DOMAIN scenario THEN "post" ELSE "idle"]
            /\ attempt = [a \in Agents |-> 1]
            /\ expired = [a \in Agents |-> FALSE]
            /\ verdict = [a \in Agents |-> "none"]
            /\ sent = {}
            /\ faults = [a \in Agents |-> 0]

Current(a) == <<a, attempt[a]>>

Return(a, v) == /\ cpc' = [cpc EXCEPT ![a] = "returned"]
                /\ verdict' = [verdict EXCEPT ![a] = v]
                /\ UNCHANGED attempt

\* Mutant: the loop makes one round less than there are backoffs.
MutTransientError(a) ==
    IF attempt[a] + 1 < MaxAttempts
      THEN /\ attempt' = [attempt EXCEPT ![a] = @ + 1]
           /\ cpc' = [cpc EXCEPT ![a] = "backoff"]
           /\ UNCHANGED verdict
      ELSE Return(a, "transient")

\* Mutant: the loop counts to len(backoff) inclusive.
MutTransientErrorExtra(a) ==
    IF attempt[a] <= MaxAttempts
      THEN /\ attempt' = [attempt EXCEPT ![a] = @ + 1]
           /\ cpc' = [cpc EXCEPT ![a] = "backoff"]
           /\ UNCHANGED verdict
      ELSE Return(a, "transient")

\* postOnce returned an error that is not a permanentError: the next round
\* of the loop, or the end of it.
TransientError(a) ==
    IF attempt[a] < MaxAttempts
      THEN /\ attempt' = [attempt EXCEPT ![a] = @ + 1]
           /\ cpc' = [cpc EXCEPT ![a] = "backoff"]
           /\ UNCHANGED verdict
      ELSE Return(a, "transient")

Fault(a) == /\ faults[a] < scenario[a]
            /\ faults' = [faults EXCEPT ![a] = @ + 1]

-----------------------------------------------------------------------------
(* The client.                                                             *)

\* client.Do writes the request.
PostSent(a) == /\ cpc[a] = "post"
               /\ ~expired[a]
               /\ sent' = sent \cup {Current(a)}
               /\ cpc' = [cpc EXCEPT ![a] = "wait"]
               /\ UNCHANGED <<vars, attempt, expired, verdict, faults, scenario>>

\* The connection is refused, before a byte is sent.
PostRefused(a) == /\ cpc[a] = "post"
                  /\ ~expired[a]
                  /\ TransientError(a)
                  /\ Fault(a)
                  /\ UNCHANGED <<vars, expired, sent, scenario>>

\* A context that is already over makes client.Do fail at once.
PostCancelled(a) == /\ cpc[a] = "post"
                    /\ expired[a]
                    /\ TransientError(a)
                    /\ UNCHANGED <<vars, expired, sent, faults, scenario>>

\* Mutant: every status below 500 is taken for success.
MutOnStatus(a, code) ==
    \/ code \in 200 .. 499 /\ Return(a, "ok")
    \/ code \notin 200 .. 499 /\ TransientError(a)

\* Mutant: the upper bound of the 4xx case is missing.
MutOnStatus4xx(a, code) ==
    \/ code \in 200 .. 299 /\ Return(a, "ok")
    \/ code \in 400 .. 599 /\ Return(a, "permanent")
    \/ code \notin (200 .. 299) \cup (400 .. 599) /\ TransientError(a)

\* The switch of postOnce on the status and pushResults' reaction to it.
OnStatus(a, code) ==
    \/ code \in 200 .. 299 /\ Return(a, "ok")
    \/ code \in 400 .. 499 /\ Return(a, "permanent")
    \/ code \notin (200 .. 299) \cup (400 .. 499) /\ TransientError(a)

\* The handler's answer, or the end of its connection (status 0), arrives.
GetResponse(a) == /\ cpc[a] = "wait"
                  /\ pc[Current(a)] = "done"
                  /\ OnStatus(a, StatusCode(answer[Current(a)]))
                  /\ UNCHANGED <<vars, expired, sent, faults, scenario>>

\* The network drops the connection; the request may already be, or may
\* still come, into the server's hands.
ConnectionLost(a) == /\ cpc[a] = "wait"
                     /\ TransientError(a)
                     /\ Fault(a)
                     /\ UNCHANGED <<vars, expired, sent, scenario>>

\* The deadline of context.WithTimeout(push-timeout), started before the
\* first attempt and shared by all of them; client.Timeout is the same
\* duration counted from a later start and never fires first.
Deadline(a) == /\ cpc[a] \notin {"idle", "returned"}
               /\ ~expired[a]
               /\ expired' = [expired EXCEPT ![a] = TRUE]
               /\ UNCHANGED <<vars, cpc, attempt, verdict, sent, faults, scenario>>

WaitCancelled(a) == /\ cpc[a] = "wait"
                    /\ expired[a]
                    /\ TransientError(a)
                    /\ UNCHANGED <<vars, expired, sent, faults, scenario>>

\* select: time.After(wait), which may win even when both are ready.
BackoffElapsed(a) == /\ cpc[a] = "backoff"
                     /\ cpc' = [cpc EXCEPT ![a] = "post"]
                     /\ UNCHANGED <<vars, attempt, expired, verdict, sent, faults,
                                    scenario>>

\* Mutant: time.Sleep(wait) instead of the select, with a retry loop that
\* gives a cancelled attempt another round.
MutBackoffCancelled(a) == /\ cpc[a] = "backoff"
                          /\ expired[a]
                          /\ cpc' = [cpc EXCEPT ![a] = "post"]
                          /\ attempt' = [attempt EXCEPT ![a] = 1]
                          /\ UNCHANGED <<vars, verdict, expired, sent, faults,
                                         scenario>>

\* select: ctx.Done().
BackoffCancelled(a) == /\ cpc[a] = "backoff"
                       /\ expired[a]
                       /\ Return(a, "ctx")
                       /\ UNCHANGED <<vars, expired, sent, faults, scenario>>

ClientStep(a) == \/ PostSent(a) \/ PostCancelled(a) \/ GetResponse(a)
                 \/ WaitCancelled(a) \/ BackoffElapsed(a) \/ BackoffCancelled(a)

-----------------------------------------------------------------------------
(* The server, as in Probestore, for the requests that reach it.           *)

ServerReceive(h) == h \in sent /\ Receive(h) /\ UNCHANGED <<client, faults, scenario>>

ServerStep(h) == Step(h) /\ UNCHANGED <<client, faults, scenario>>

ServerFault(h) == /\ Fail(h) \/ DeadlockVictim(h)
                  /\ Fault(h[1])
                  /\ UNCHANGED <<client, scenario>>

PushNext == \/ \E a \in Agents : \/ ClientStep(a) \/ PostRefused(a)
                                 \/ ConnectionLost(a) \/ Deadline(a)
            \/ \E h \in Requests : ServerReceive(h) \/ ServerStep(h) \/ ServerFault(h)

\* The agent's own process and timer run; nothing is assumed of the network
\* or of the server.
PushSpec == /\ PushInit
            /\ [][PushNext]_pushVars
            /\ \A a \in Agents : WF_pushVars(ClientStep(a)) /\ WF_pushVars(Deadline(a))

-----------------------------------------------------------------------------
(* Properties.                                                             *)

StoredRun(a) == \E h \in probe_run : h[1] = a

\* Exit 0 or 1 after a push means the run is in the store, whichever attempt
\* stored it and whichever attempt was answered.
PushOkStored == \A a \in Agents : verdict[a] = "ok" => StoredRun(a)

\* A rejection is final on both sides: a run the agent was told is rejected
\* is not in the store and no late handler of it ever puts it there.
RejectedNeverStored ==
    \A a \in Agents : verdict[a] = "permanent" =>
        /\ ~StoredRun(a)
        /\ \A i \in 1 .. MaxAttempts : pc[<<a, i>>] \in {"new", "done"}

\* "the same payload sent twice is stored once" (push.go:129-131): the
\* attempts of one agent never leave two runs, complete or not.
StoredOnce ==
    \A a \in Agents :
        /\ Cardinality({h \in probe_run : h[1] = a}) <= 1
        /\ Cardinality({x \in probe_result : x.run_id[1] = a})
              \in {0, Len(Payload[a].results)}

\* One fault (a refused or dropped connection, a handler that dies, a
\* deadlock victim) never fails the push of an acceptable run before its
\* deadline, although a retry that races the first handler is answered 500.
OneFaultTolerated ==
    \A a \in Agents :
        /\ \A i \in 1 .. MaxAttempts : <<a, i>> \in Authorized /\ Valid(<<a, i>>)
        /\ faults[a] <= 1
        /\ ~expired[a]
        => verdict[a] \in {"none", "ok"}

\* Every push returns, whatever the server does.
EveryPushReturns == \A a \in Agents : <>(cpc[a] \in {"idle", "returned"})

\* Results that do not fit the payload are "dropped from the batch" and leave
\* "a gap" (README.md:431-432), so the push of a run from which buildPayload
\* dropped them is not rejected while the token is right.
GapIsNotRejection ==
    \A a \in Agents : <<a, 1>> \in Authorized => verdict[a] # "permanent"
=============================================================================
