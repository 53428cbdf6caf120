----------------------------- MODULE WorkBarrier -----------------------------
(* What SpinPool::run promises its caller (src/cpu/expert_pool.h: "run() calls fn(part, nparts) once *)
(* on every thread"): one job at a time, every part of it executed exactly once, and no return before  *)
(* all of them have ended.                                                                            *)
CONSTANT Parts

VARIABLES
  open,      \* a job is being run
  running,   \* its parts under execution
  finished   \* its parts that have ended

bvars == <<open, running, finished>>

BInit == open = FALSE /\ running = {} /\ finished = {}

Begin == ~open /\ open' = TRUE /\ UNCHANGED <<running, finished>>

Execute(p) ==
  /\ open /\ p \notin running \cup finished
  /\ running' = running \cup {p}
  /\ UNCHANGED <<open, finished>>

Complete(p) ==
  /\ p \in running
  /\ running' = running \ {p} /\ finished' = finished \cup {p}
  /\ UNCHANGED open

Return ==
  /\ open /\ finished = Parts
  /\ open' = FALSE /\ finished' = {}
  /\ UNCHANGED running

BNext == Begin \/ Return \/ \E p \in Parts : Execute(p) \/ Complete(p)

BSpec == BInit /\ [][BNext]_bvars
=============================================================================
