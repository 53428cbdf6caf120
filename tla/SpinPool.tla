------------------------------ MODULE SpinPool ------------------------------
(***************************************************************************)
(* The spinning worker pool (src/cpu/expert_pool.cpp, SpinPool) and the    *)
(* way the engines share it.  run() publishes a pointer to the caller's    *)
(* closure, bumps a generation every worker spins on, executes part 0      *)
(* itself and spins on one done flag per worker.  The closure lives on the *)
(* caller's stack: it is gone once run() returns.                          *)
(*                                                                         *)
(* CpuExpertPool::run takes mu_ (the second pipeline stage computes its    *)
(* experts on a helper thread); CpuExpertPool::parallel does not, and is   *)
(* called by the engine thread before it creates that helper               *)
(* (src/deepseek/ds_engine.cpp, forward_pipe).                             *)
(***************************************************************************)
EXTENDS Naturals

CONSTANTS
  Workers,   \* the pool's threads
  Helpers,   \* threads that compute a pipeline stage's experts beside the engine thread
  Main,      \* the engine thread
  None,
  MaxRuns    \* bound: calls of run() explored (the generation is 64 bits wide)

Callers == Helpers \cup {Main}

ASSUME PoolAssumption ==
  /\ Main \notin Helpers \cup Workers
  /\ None \notin Callers
  /\ Helpers \cap Workers = {}
  /\ MaxRuns \in Nat

VARIABLES
  alive,     \* helpers created and not yet joined
  mu,        \* CpuExpertPool::mu_
  cpc,       \* callers: idle, before the generation bump, executing part 0, spinning on the flags
  closure,   \* the closure a caller has on its stack, 0 when it has none
  goal,      \* run()'s local g: the generation its flags must show
  made,      \* ghost: closures made so far, which numbers them
  gen,       \* gen_
  fn,        \* fn_: the closure it points to
  stop,      \* stop_
  wpc,       \* workers: spinning, woken, calling, out of the call, returned
  seen,      \* a worker's local seen
  done,      \* done_
  running,   \* ghost: <<closure, part>> under execution
  ended      \* ghost: parts executed of the closures that still exist

locks   == <<alive, mu>>
callers == <<cpc, closure, goal, made>>
ghost   == <<running, ended>>
vars == <<locks, callers, gen, fn, stop, wpc, seen, done, ghost>>

Parts == Workers \cup {Main}      \* part 0 is the caller's

TypeOK ==
  /\ alive \in SUBSET Helpers
  /\ mu \in Callers \cup {None}
  /\ cpc \in [Callers -> {"idle", "publish", "part0", "join"}]
  /\ made \in Nat /\ gen \in Nat /\ fn \in Nat /\ stop \in BOOLEAN
  /\ closure \in [Callers -> Nat]
  /\ goal \in [Callers -> Nat]
  /\ wpc \in [Workers -> {"spin", "woken", "call", "mark", "exit"}]
  /\ seen \in [Workers -> Nat] /\ done \in [Workers -> Nat]
  /\ \A w \in Workers : done[w] <= seen[w] /\ seen[w] <= gen
  /\ running \in SUBSET (Nat \X Parts)
  /\ ended \in SUBSET (Nat \X Parts)

Init ==
  /\ alive = {} /\ mu = None
  /\ cpc = [c \in Callers |-> "idle"] /\ closure = [c \in Callers |-> 0]
  /\ goal = [c \in Callers |-> 0] /\ made = 0
  /\ gen = 0 /\ fn = 0 /\ stop = FALSE
  /\ wpc = [w \in Workers |-> "spin"]
  /\ seen = [w \in Workers |-> 0] /\ done = [w \in Workers |-> 0]
  /\ running = {} /\ ended = {}

-----------------------------------------------------------------------------
(* The callers *)

\* forward_pipe creates the helper after both stages' gathers, and joins it before it returns.
CreateHelper(h) ==
  /\ ~stop /\ cpc[Main] = "idle" /\ h \notin alive
  /\ alive' = alive \cup {h}
  /\ UNCHANGED <<mu, callers, gen, fn, stop, wpc, seen, done, ghost>>

JoinHelper(h) ==
  /\ cpc[Main] = "idle" /\ cpc[h] = "idle" /\ h \in alive
  /\ alive' = alive \ {h}
  /\ UNCHANGED <<mu, callers, gen, fn, stop, wpc, seen, done, ghost>>

\* CpuExpertPool::run: the lock_guard
Lock(c) == mu = None /\ mu' = c

\* SpinPool::run up to the bump: fn_ points to the new closure.
Publish(c) ==
  /\ ~stop /\ cpc[c] = "idle" /\ made < MaxRuns
  /\ cpc' = [cpc EXCEPT ![c] = "publish"]
  /\ made' = made + 1
  /\ closure' = [closure EXCEPT ![c] = made + 1]
  /\ fn' = made + 1
  /\ UNCHANGED <<alive, goal, gen, stop, wpc, seen, done, ghost>>

RunLocked(c) == (c = Main \/ c \in alive) /\ Lock(c) /\ Publish(c)

\* mutant: the engine thread gathers while a helper may be running experts
ParallelAnytime == UNCHANGED mu /\ Publish(Main)

\* CpuExpertPool::parallel, called by the engine thread while no helper exists
Parallel == alive = {} /\ UNCHANGED mu /\ Publish(Main)

\* mutant: no bump
KeepGen == UNCHANGED gen

BumpGen == gen' = gen + 1

\* the bump, after which part 0 runs in the caller
Bump(c) ==
  /\ cpc[c] = "publish"
  /\ BumpGen
  /\ goal' = [goal EXCEPT ![c] = gen + 1]
  /\ cpc' = [cpc EXCEPT ![c] = "part0"]
  /\ running' = running \cup {<<closure[c], Main>>}
  /\ UNCHANGED <<locks, closure, made, fn, stop, wpc, seen, done, ended>>

EndPart0(c) ==
  /\ cpc[c] = "part0"
  /\ cpc' = [cpc EXCEPT ![c] = "join"]
  /\ running' = running \ {<<closure[c], Main>>}
  /\ ended' = ended \cup {<<closure[c], Main>>}
  /\ UNCHANGED <<locks, closure, goal, made, gen, fn, stop, wpc, seen, done>>

\* mutant: a flag of any generation will do
AnyFlag(c) == \A w \in Workers : done[w] # 0

\* The flags are awaited one after the other; none changes again before run() returns.
AllDone(c) == \A w \in Workers : done[w] = goal[c]

\* run() returns: the closure is gone, the lock_guard of CpuExpertPool::run too.
ReturnFromRun(c) ==
  /\ cpc[c] = "join" /\ AllDone(c)
  /\ cpc' = [cpc EXCEPT ![c] = "idle"]
  /\ closure' = [closure EXCEPT ![c] = 0]
  /\ mu' = IF mu = c THEN None ELSE mu
  /\ ended' = {x \in ended : x[1] # closure[c]}
  /\ UNCHANGED <<alive, goal, made, gen, fn, stop, wpc, seen, done, running>>

\* ~SpinPool, by the engine thread: no run is under way and no helper is left.
Destroy ==
  /\ ~stop /\ alive = {} /\ cpc[Main] = "idle"
  /\ stop' = TRUE
  /\ BumpGen
  /\ UNCHANGED <<locks, callers, fn, wpc, seen, done, ghost>>

-----------------------------------------------------------------------------
(* The workers *)

Wake(w) ==
  /\ wpc[w] = "spin" /\ gen # seen[w]
  /\ seen' = [seen EXCEPT ![w] = gen]
  /\ wpc' = [wpc EXCEPT ![w] = "woken"]
  /\ UNCHANGED <<locks, callers, gen, fn, stop, done, ghost>>

\* stop_ is looked at once per generation.
Exit(w) ==
  /\ wpc[w] = "woken" /\ stop
  /\ wpc' = [wpc EXCEPT ![w] = "exit"]
  /\ UNCHANGED <<locks, callers, gen, fn, stop, seen, done, ghost>>

Call(w) ==
  /\ wpc[w] = "woken" /\ ~stop
  /\ wpc' = [wpc EXCEPT ![w] = "call"]
  /\ running' = running \cup {<<fn, w>>}
  /\ UNCHANGED <<locks, callers, gen, fn, stop, seen, done, ended>>

EndCall(w) ==
  /\ wpc[w] = "call"
  /\ wpc' = [wpc EXCEPT ![w] = "mark"]
  /\ running' = {x \in running : x[2] # w}
  /\ ended' = ended \cup {x \in running : x[2] = w}
  /\ UNCHANGED <<locks, callers, gen, fn, stop, seen, done>>

Mark(w) == done' = [done EXCEPT ![w] = seen[w]]

MarkDone(w) ==
  /\ wpc[w] = "mark"
  /\ Mark(w)
  /\ wpc' = [wpc EXCEPT ![w] = "spin"]
  /\ UNCHANGED <<locks, callers, gen, fn, stop, seen, ghost>>

-----------------------------------------------------------------------------
CallerStep(c) == Bump(c) \/ EndPart0(c) \/ ReturnFromRun(c)
WorkerStep(w) == Wake(w) \/ Exit(w) \/ Call(w) \/ EndCall(w) \/ MarkDone(w)

Next ==
  \/ \E h \in Helpers : CreateHelper(h) \/ JoinHelper(h)
  \/ \E c \in Callers : RunLocked(c) \/ CallerStep(c)
  \/ Parallel
  \/ Destroy
  \/ \E w \in Workers : WorkerStep(w)

Spec == Init /\ [][Next]_vars

-----------------------------------------------------------------------------
(* Properties *)

\* A worker only ever executes a closure that exists: run() has not returned
\* from under it and fn_ does not point to an earlier caller's stack.
ClosureLives == \A x \in running : \E c \in Callers : closure[c] = x[1]

\* The pool executes one closure at a time, whoever calls it: CpuExpertPool's
\* scratch buffers (src/cpu/expert_pool.h) have no other protection.
OneClosure == \A x, y \in running \cup ended : x[1] = y[1]

\* The closure the workers execute is one, and its caller waits for them.
OneLiveClosure == ClosureLives /\ OneClosure

\* The pool is what its header promises: one job at a time, each part once,
\* no return before every part has ended.
Barrier == INSTANCE WorkBarrier WITH
  open     <- \E c \in Callers : cpc[c] # "idle",
  running  <- {x[2] : x \in running},
  finished <- {x[2] : x \in ended}

ImplementsBarrier == Barrier!BSpec
=============================================================================
