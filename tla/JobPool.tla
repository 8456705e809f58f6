------------------------------ MODULE JobPool ------------------------------
(***************************************************************************)
(* What a thread pool promises its callers (pool.h): a job that was        *)
(* accepted is started once, in the order of acceptance, and finished; no  *)
(* more jobs wait than there is room for; the pool is gone only when every *)
(* accepted job is finished.                                               *)
(*                                                                         *)
(* Jobs are numbered in the order they are accepted.                       *)
(***************************************************************************)
EXTENDS Naturals

VARIABLES
  room,      \* how many jobs may wait
  accepted,  \* how many jobs the pool took
  started,   \* how many of them a worker began, in their order
  finished,  \* the jobs that are done
  open       \* FALSE when the pool has been freed

poolVars == <<room, accepted, started, finished, open>>

JobPoolInit ==
  /\ room \in Nat \ {0}
  /\ accepted = 0
  /\ started = 0
  /\ finished = {}
  /\ open = TRUE

\* A pool in use stays as it is.
Same == open' = open /\ room' = room

Accept ==
  /\ open
  /\ accepted - started < room
  /\ accepted' = accepted + 1
  /\ UNCHANGED <<started, finished>>
  /\ Same

Start ==
  /\ open
  /\ started < accepted
  /\ started' = started + 1
  /\ UNCHANGED <<accepted, finished>>
  /\ Same

Finish(j) ==
  /\ open
  /\ j \in (1..started) \ finished
  /\ finished' = finished \union {j}
  /\ UNCHANGED <<accepted, started>>
  /\ Same

Idle == finished = 1..accepted

Free ==
  /\ Idle
  /\ open' = FALSE
  /\ UNCHANGED <<accepted, started, finished>>
  /\ room' = room

JobPoolNext == Accept \/ Start \/ (\E j \in 1..started : Finish(j)) \/ Free

JobPoolSpec == JobPoolInit /\ [][JobPoolNext]_poolVars

=============================================================================
