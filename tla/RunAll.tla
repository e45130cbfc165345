------------------------------- MODULE RunAll -------------------------------
(***************************************************************************)
(* runAll of src/cmd/nodecheck/main.go: one goroutine per target, a        *)
(* buffered channel as a semaphore, a WaitGroup, and a buffered result     *)
(* channel that is closed and drained once the group is done.              *)
(*                                                                         *)
(* A target is its index and a Result is the index of the target it is     *)
(* about.  The two channel operations of a goroutine, the probe and its    *)
(* two deferred calls are separate steps.                                  *)
(***************************************************************************)
EXTENDS Integers, Sequences, FiniteSets

CONSTANTS
    N,     \* len(targets)
    Concs  \* the values of the -concurrency flag, zero and negative included

ASSUME RunAllAssumption == N \in Nat /\ Concs \subseteq Int

Targets == 1 .. N

VARIABLES
    conc,      \* the -concurrency flag as given
    main,      \* where runAll itself is
    next,      \* the next target its loop launches
    gpc,       \* where each goroutine is
    sem,       \* the permits held, len(sem)
    wg,        \* the counter of the WaitGroup
    out,       \* the buffered results
    closed,    \* whether out has been closed
    results,   \* the slice runAll returns
    panicked   \* whether a goroutine has sent on the closed channel

vars == <<conc, main, next, gpc, sem, wg, out, closed, results, panicked>>

\* Mutant: the flag is used as given; make(chan struct{}, 0) has no permit.
MutPermits == conc

\* if conc < 1 { conc = 1 }
Permits == IF conc < 1 THEN 1 ELSE conc

\* Mutant: the result channel is made with the semaphore's capacity.
MutCapacity == Permits

\* out := make(chan Result, len(targets))
Capacity == N

GoroutineStages == {"none", "acquire", "probe", "send", "release", "done", "exited"}

TypeOK == /\ conc \in Concs
          /\ main \in {"spawn", "close", "drain", "returned"}
          /\ next \in 1 .. N + 1
          /\ gpc \in [Targets -> GoroutineStages]
          /\ sem \in 0 .. Permits
          /\ wg \in Nat
          /\ out \in Seq(Targets)
          /\ closed \in BOOLEAN
          /\ results \in Seq(Targets)
          /\ panicked \in BOOLEAN

Init == /\ conc \in Concs
        /\ main = "spawn"
        /\ next = 1
        /\ gpc = [t \in Targets |-> "none"]
        /\ sem = 0
        /\ wg = 0
        /\ out = <<>>
        /\ closed = FALSE
        /\ results = <<>>
        /\ panicked = FALSE

Goto(t, stage) == gpc' = [gpc EXCEPT ![t] = stage]

-----------------------------------------------------------------------------
(* The goroutine of target t.                                              *)

\* Mutant: the permit is taken without looking at the ones already held.
MutAcquire(t) == /\ gpc[t] = "acquire"
                 /\ Goto(t, "probe")
                 /\ sem' = IF sem < Permits THEN sem + 1 ELSE sem
                 /\ UNCHANGED <<conc, main, next, wg, out, closed, results,
                                panicked>>

\* sem <- struct{}{}: blocks while every permit is held.
Acquire(t) == /\ gpc[t] = "acquire"
              /\ sem < Permits
              /\ sem' = sem + 1
              /\ Goto(t, "probe")
              /\ UNCHANGED <<conc, main, next, wg, out, closed, results,
                             panicked>>

\* probe(ctx, t, timeout) returns, with whatever outcome, and the result is
\* stamped.
Probe(t) == /\ gpc[t] = "probe"
            /\ Goto(t, "send")
            /\ UNCHANGED <<conc, main, next, sem, wg, out, closed, results,
                           panicked>>

\* out <- r: blocks while the buffer is full, panics when it is closed.
Send(t) == /\ gpc[t] = "send"
           /\ closed \/ Len(out) < Capacity
           /\ panicked' = (panicked \/ closed)
           /\ out' = IF closed THEN out ELSE Append(out, t)
           /\ Goto(t, "release")
           /\ UNCHANGED <<conc, main, next, sem, wg, closed, results>>

\* The deferred <-sem: deferred calls run last in, first out.
Release(t) == /\ gpc[t] = "release"
              /\ sem' = sem - 1
              /\ Goto(t, "done")
              /\ UNCHANGED <<conc, main, next, wg, out, closed, results,
                             panicked>>

\* The deferred wg.Done().
Done(t) == /\ gpc[t] = "done"
           /\ wg' = wg - 1
           /\ Goto(t, "exited")
           /\ UNCHANGED <<conc, main, next, sem, out, closed, results,
                          panicked>>

Goroutine(t) == Acquire(t) \/ Probe(t) \/ Send(t) \/ Release(t) \/ Done(t)

-----------------------------------------------------------------------------
(* runAll.                                                                 *)

\* Mutant: one wg.Add(1) in front of the loop instead of one per target.
MutSpawn == /\ main = "spawn"
            /\ next \in Targets
            /\ wg' = wg + (IF next = 1 THEN 1 ELSE 0)
            /\ gpc' = [gpc EXCEPT ![next] = "acquire"]
            /\ next' = next + 1
            /\ UNCHANGED <<conc, main, sem, out, closed, results, panicked>>

\* wg.Add(1); go func(t Target) {...}(t)
Spawn == /\ main = "spawn"
         /\ next \in Targets
         /\ wg' = wg + 1
         /\ gpc' = [gpc EXCEPT ![next] = "acquire"]
         /\ next' = next + 1
         /\ UNCHANGED <<conc, main, sem, out, closed, results, panicked>>

\* Mutant: the loop ends and wg.Wait is gone.
MutWait == /\ main = "spawn"
           /\ next = N + 1
           /\ main' = "close"
           /\ UNCHANGED <<conc, next, gpc, sem, wg, out, closed, results,
                          panicked>>

\* wg.Wait() returns once the counter is zero.
Wait == /\ main = "spawn"
        /\ next = N + 1
        /\ wg = 0
        /\ main' = "close"
        /\ UNCHANGED <<conc, next, gpc, sem, wg, out, closed, results,
                       panicked>>

Close == /\ main = "close"
         /\ closed' = TRUE
         /\ main' = "drain"
         /\ UNCHANGED <<conc, next, gpc, sem, wg, out, results, panicked>>

\* One round of `for r := range out`.
Drain == /\ main = "drain"
         /\ out # <<>>
         /\ results' = Append(results, Head(out))
         /\ out' = Tail(out)
         /\ UNCHANGED <<conc, main, next, gpc, sem, wg, closed, panicked>>

\* The channel is closed and empty: the range ends.
Return == /\ main = "drain"
          /\ out = <<>>
          /\ main' = "returned"
          /\ UNCHANGED <<conc, next, gpc, sem, wg, out, closed, results,
                         panicked>>

RunAllBody == Spawn \/ Wait \/ Close \/ Drain \/ Return

Next == RunAllBody \/ \E t \in Targets : Goroutine(t)

SafeSpec == Init /\ [][Next]_vars

\* The Go scheduler runs every goroutine that can run.  A goroutine waiting
\* for a permit may be overtaken by others, but only finitely often; and a
\* probe returns, because each of its phases has a deadline.
Spec == /\ SafeSpec
        /\ WF_vars(RunAllBody)
        /\ \A t \in Targets : WF_vars(Goroutine(t))

-----------------------------------------------------------------------------
(* Properties.                                                             *)

\* The goroutines between taking and releasing a permit.
Holders == {t \in Targets : gpc[t] \in {"probe", "send", "release"}}

\* The goroutines the WaitGroup counts.
Live == {t \in Targets : gpc[t] \notin {"none", "exited"}}

\* The goroutines that have sent.
Sent == {t \in Targets : gpc[t] \in {"release", "done", "exited"}}

\* "never more than conc at once" (main.go:129), and at least one for a
\* flag of zero or below.
ConcurrencyBound == Cardinality(Holders) <= Permits

\* "a writing goroutine never blocks on send" (main.go:142-143): the buffer
\* has room whenever somebody is about to send, so nobody keeps a permit
\* while waiting for the drain that only starts after everybody is done.
SendNeverBlocks == \A t \in Targets : gpc[t] = "send" => Len(out) < Capacity

\* The channel is closed only after the last send.
NoSendOnClosed == ~panicked /\ (closed => Live = {})

\* What runAll returns has every target exactly once, in whatever order the
\* probes finished.
EveryTargetOnce ==
    main = "returned" =>
        \A t \in Targets : \E i \in DOMAIN results :
            /\ results[i] = t
            /\ \A j \in DOMAIN results : results[j] = t => j = i

\* runAll returns.
Termination == <>(main = "returned")

-----------------------------------------------------------------------------
(* The inductive invariant.                                                *)

\* The counters count what they are meant to count.
CountersExact == /\ sem = Cardinality(Holders)
                 /\ wg = Cardinality(Live)

\* Which goroutines exist, and how far runAll can be while some are alive.
LaunchOrder == /\ \A t \in Targets : gpc[t] = "none" <=> t >= next
               /\ main # "spawn" => next = N + 1 /\ Live = {}
               /\ closed <=> main \in {"drain", "returned"}
               /\ ~panicked

\* Every target that has sent is exactly once in the slice or in the buffer,
\* and nothing else is.
Delivered == results \o out

DeliveredOnce == /\ main \in {"spawn", "close"} => results = <<>>
                 /\ main = "returned" => out = <<>>
                 /\ Len(Delivered) = Cardinality(Sent)
                 /\ \A i \in DOMAIN Delivered : Delivered[i] \in Sent
                 /\ \A t \in Sent : \E i \in DOMAIN Delivered : Delivered[i] = t
                 /\ \A i, j \in DOMAIN Delivered : Delivered[i] = Delivered[j] => i = j

IndInv == TypeOK /\ CountersExact /\ LaunchOrder /\ DeliveredOnce
=============================================================================
