------------------------------ MODULE MCRunAll ------------------------------
(***************************************************************************)
(* Four targets: with two permits there are goroutines that wait for one,  *)
(* goroutines that overtake them, and a buffer larger than the semaphore.  *)
(* Zero and a negative -concurrency meet the clamp; four lets everybody    *)
(* probe at once.                                                          *)
(***************************************************************************)
EXTENDS RunAll

MCConcs == {-1, 0, 2, 4}
=============================================================================
