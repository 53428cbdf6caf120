---------------------------- MODULE CpuPool_proofs ----------------------------
(* Proofs about the worker pool and the CPU experts on it, for any number of threads and helpers, any *)
(* chunks per thread, any sizes and any task lists.                                                   *)
(*                                                                                                    *)
(* The pool's invariant follows one run: between runs every worker spins with its flag at gen_; in a  *)
(* run the one caller inside owns the only closure, fn_ points to it, and each worker is in one of    *)
(* the positions of Progress.                                                                         *)
(*                                                                                                    *)
(* The composed system steps as the pool steps (CpuImplementsPool), so the pool's theorems carry      *)
(* over, and as the computation steps, which keeps the invariant WInv: a chunk of lines is held       *)
(* by one thread, its lines are untouched before it is claimed and computed once after, the counter   *)
(* of a group is the number of its rows computed and counted, and a job leaves the next one what it   *)
(* reads.  Every line lies in one chunk and every row in one group, so nothing is left out when all   *)
(* threads are done.                                                                                  *)
EXTENDS CpuPool, FiniteSetTheorems, NaturalsInduction, WellFoundedInduction, SequenceTheorems, TLAPS

-----------------------------------------------------------------------------
(* The pool: the inductive invariant of SpinPool *)

\* Who is inside run(), and why no one else is: the lock, or the engine thread alone.
Entered ==
  /\ \A c \in Callers : cpc[c] # "idle" => mu = c \/ (c = Main /\ mu = None /\ alive = {})
  /\ \A c \in Callers : mu = c => cpc[c] # "idle"
  /\ \A h \in Helpers : h \notin alive => cpc[h] = "idle"

\* Caller c's closure: made last, published.
Owns(c) == closure[c] = made /\ fn = made /\ made # 0

\* Worker w during the run of caller c after the bump.
Progress(w) ==
  \/ /\ wpc[w] = "spin" /\ seen[w] + 1 = gen /\ done[w] + 1 = gen
     /\ <<made, w>> \notin running \cup ended
  \/ /\ wpc[w] = "woken" /\ seen[w] = gen /\ done[w] + 1 = gen
     /\ <<made, w>> \notin running \cup ended
  \/ /\ wpc[w] = "call" /\ seen[w] = gen /\ done[w] + 1 = gen
     /\ <<made, w>> \in running /\ <<made, w>> \notin ended
  \/ /\ wpc[w] = "mark" /\ seen[w] = gen /\ done[w] + 1 = gen
     /\ <<made, w>> \notin running /\ <<made, w>> \in ended
  \/ /\ wpc[w] = "spin" /\ seen[w] = gen /\ done[w] = gen
     /\ <<made, w>> \notin running /\ <<made, w>> \in ended

Resting(w) == wpc[w] = "spin" /\ seen[w] = gen /\ done[w] = gen

Stopping(w) ==
  \/ wpc[w] = "spin" /\ seen[w] + 1 = gen /\ done[w] + 1 = gen
  \/ wpc[w] \in {"woken", "exit"} /\ seen[w] = gen /\ done[w] + 1 = gen

Quiet == \A c \in Callers : cpc[c] = "idle"

InRun(c) == cpc[c] \in {"part0", "join"}

Phases ==
  /\ Quiet => running = {} /\ ended = {}
  /\ Quiet /\ ~stop => \A w \in Workers : Resting(w)
  /\ stop => Quiet /\ \A w \in Workers : Stopping(w)
  /\ \A c \in Callers : cpc[c] = "idle" => closure[c] = 0
  /\ \A c \in Callers : cpc[c] # "idle" => Owns(c)
  /\ \A c \in Callers : cpc[c] = "publish" =>
       running = {} /\ ended = {} /\ \A w \in Workers : Resting(w)
  /\ \A c \in Callers : InRun(c) =>
       /\ goal[c] = gen /\ gen # 0
       /\ \A x \in running \cup ended : x[1] = made
       /\ cpc[c] = "part0" <=> <<made, Main>> \in running
       /\ cpc[c] = "join"  <=> <<made, Main>> \in ended
       /\ \A w \in Workers : Progress(w)

IInv == TypeOK /\ Entered /\ Phases

-----------------------------------------------------------------------------
\* At most one caller is inside run().
LEMMA OneCaller ==
  ASSUME IInv, NEW c \in Callers, NEW d \in Callers, cpc[c] # "idle", cpc[d] # "idle"
  PROVE  c = d
BY PoolAssumption DEF IInv, Entered, Callers, TypeOK

LEMMA InitInv == Init => IInv
<1> SUFFICES ASSUME Init PROVE IInv
  OBVIOUS
<1> USE PoolAssumption DEF Init
<1>1. TypeOK
  <2>1. running \in SUBSET (Nat \X Parts) /\ ended \in SUBSET (Nat \X Parts)
    OBVIOUS
  <2>2. /\ alive \in SUBSET Helpers /\ mu \in Callers \cup {None}
        /\ cpc \in [Callers -> {"idle", "publish", "part0", "join"}]
        /\ wpc \in [Workers -> {"spin", "woken", "call", "mark", "exit"}]
    OBVIOUS
  <2>3. /\ closure \in [Callers -> Nat] /\ goal \in [Callers -> Nat]
        /\ seen \in [Workers -> Nat] /\ done \in [Workers -> Nat]
        /\ \A w \in Workers : done[w] <= seen[w] /\ seen[w] <= gen
    OBVIOUS
  <2> QED
    BY <2>1, <2>2, <2>3 DEF TypeOK
<1>2. Entered
  BY DEF Entered, Callers
<1>3. Phases
  BY DEF Phases, Quiet, Resting, InRun, Callers
<1> QED
  BY <1>1, <1>2, <1>3 DEF IInv

-----------------------------------------------------------------------------
(* The callers' steps *)

LEMMA HelperInv ==
  ASSUME IInv, NEW h \in Helpers, CreateHelper(h) \/ JoinHelper(h)
  PROVE  IInv'
<1> USE PoolAssumption DEF IInv, CreateHelper, JoinHelper, locks, callers, ghost
<1>1. TypeOK'
  BY DEF TypeOK
<1>2. Entered'
  BY DEF Entered, Callers, TypeOK
<1>3. Phases'
  BY DEF Phases, Quiet, Resting, Stopping, InRun, Owns, Progress
<1> QED
  BY <1>1, <1>2, <1>3

\* Entering run(): no one else is inside, so every worker rests.
LEMMA PublishInv ==
  ASSUME IInv, NEW c \in Callers, RunLocked(c) \/ (c = Main /\ Parallel)
  PROVE  IInv'
<1> USE PoolAssumption DEF IInv
<1>a. Publish(c) /\ ((mu = None /\ mu' = c /\ (c = Main \/ c \in alive)) \/ (c = Main /\ mu' = mu /\ alive = {}))
  BY DEF RunLocked, Parallel, Lock
<1>1. TypeOK'
  BY <1>a DEF TypeOK, Publish, ghost
<1>2. Quiet
  BY <1>a DEF Quiet, Entered, Publish, Callers, TypeOK
<1>3. Entered'
  BY <1>a, <1>2 DEF Entered, Publish, Callers, TypeOK, Quiet
<1>4. Phases'
  <2>1. \A d \in Callers : d # c => cpc'[d] = "idle" /\ closure'[d] = 0
    BY <1>a, <1>2 DEF Publish, Quiet, TypeOK, Phases
  <2>2. cpc'[c] = "publish" /\ closure'[c] = made' /\ fn' = made' /\ made' # 0
    BY <1>a DEF Publish, TypeOK
  <2>3. ~stop' /\ running' = {} /\ ended' = {} /\ \A w \in Workers : Resting(w)'
    BY <1>a, <1>2 DEF Publish, Phases, Resting, ghost
  <2> QED
    BY <2>1, <2>2, <2>3 DEF Phases, Quiet, InRun, Owns
<1> QED
  BY <1>1, <1>3, <1>4

LEMMA BumpInv ==
  ASSUME IInv, NEW c \in Callers, Bump(c)
  PROVE  IInv'
<1> USE PoolAssumption DEF IInv
<1>0. cpc[c] = "publish" /\ closure[c] = made /\ fn = made /\ made # 0 /\ ~stop
  BY DEF Bump, Phases, Owns, Quiet
<1>1. TypeOK'
  BY <1>0 DEF TypeOK, Bump, BumpGen, locks, Parts
<1>2. \A d \in Callers : d # c => cpc[d] = "idle"
  BY <1>0, OneCaller
<1>3. Entered'
  BY <1>0, <1>2 DEF Entered, Bump, locks, TypeOK
<1>4. Phases'
  <2>1. \A d \in Callers : d # c => cpc'[d] = "idle" /\ closure'[d] = 0
    BY <1>2 DEF Bump, TypeOK, Phases
  <2>2. cpc'[c] = "part0" /\ Owns(c)' /\ goal'[c] = gen' /\ gen' # 0
    BY <1>0 DEF Bump, BumpGen, TypeOK, Owns
  <2>3. running' = {<<made', Main>>} /\ ended' = {} /\ ~stop'
    BY <1>0 DEF Bump, Phases
  <2>4. \A w \in Workers : Progress(w)'
    BY <1>0, <2>3 DEF Bump, BumpGen, Phases, Resting, Progress, TypeOK
  <2> QED
    BY <2>1, <2>2, <2>3, <2>4 DEF Phases, Quiet, InRun
<1> QED
  BY <1>1, <1>3, <1>4

LEMMA EndPart0Inv ==
  ASSUME IInv, NEW c \in Callers, EndPart0(c)
  PROVE  IInv'
<1> USE PoolAssumption DEF IInv
<1>0. cpc[c] = "part0" /\ closure[c] = made /\ fn = made /\ made # 0 /\ ~stop
  BY DEF EndPart0, Phases, Owns, Quiet
<1>1. TypeOK'
  BY <1>0 DEF TypeOK, EndPart0, locks, Parts
<1>2. \A d \in Callers : d # c => cpc[d] = "idle"
  BY <1>0, OneCaller
<1>3. Entered'
  BY <1>0, <1>2 DEF Entered, EndPart0, locks, TypeOK
<1>4. Phases'
  <2>1. \A d \in Callers : d # c => cpc'[d] = "idle" /\ closure'[d] = 0
    BY <1>2 DEF EndPart0, TypeOK, Phases
  <2>2. cpc'[c] = "join" /\ Owns(c)' /\ goal'[c] = gen' /\ gen' # 0
    BY <1>0 DEF EndPart0, TypeOK, Owns, Phases, InRun
  <2>3. running' = running \ {<<made, Main>>} /\ ended' = ended \cup {<<made, Main>>} /\ ~stop' /\ made' = made
    BY <1>0 DEF EndPart0
  <2>4. \A w \in Workers : Progress(w)'
    <3> TAKE w \in Workers
    <3>1. w # Main /\ Progress(w)
      BY <1>0 DEF Phases, InRun
    <3> QED
      BY <3>1, <2>3 DEF EndPart0, Progress
  <2>5. \A x \in running' \cup ended' : x[1] = made'
    BY <1>0, <2>3 DEF Phases, InRun
  <2> QED
    BY <2>1, <2>2, <2>3, <2>4, <2>5 DEF Phases, Quiet, InRun
<1> QED
  BY <1>1, <1>3, <1>4

\* Returning: every flag shows this generation, so every worker rests and has executed its part.
LEMMA ReturnInv ==
  ASSUME IInv, NEW c \in Callers, ReturnFromRun(c)
  PROVE  IInv'
<1> USE PoolAssumption DEF IInv
<1>0. cpc[c] = "join" /\ closure[c] = made /\ InRun(c) /\ ~stop
  BY DEF ReturnFromRun, Phases, Owns, Quiet, InRun
<1>1. TypeOK'
  BY <1>0 DEF TypeOK, ReturnFromRun, Callers
<1>2. \A d \in Callers : d # c => cpc[d] = "idle"
  BY <1>0, OneCaller
<1>3. Entered'
  BY <1>0, <1>2 DEF Entered, ReturnFromRun, TypeOK, Callers
<1>4. \A w \in Workers : Resting(w) /\ <<made, w>> \notin running
  <2> TAKE w \in Workers
  <2>1. Progress(w) /\ done[w] = gen
    BY <1>0 DEF Phases, ReturnFromRun, AllDone, InRun
  <2> QED
    BY <2>1 DEF Progress, Resting, TypeOK
<1>5. running = {} /\ ended' = {}
  <2>1. ended' = {}
    BY <1>0 DEF Phases, ReturnFromRun
  <2>2. \A x \in running : x = <<made, x[2]>> /\ x[2] \in Workers \cup {Main}
    BY <1>0 DEF Phases, TypeOK, Parts
  <2>3. <<made, Main>> \notin running
    BY <1>0 DEF Phases
  <2> QED
    BY <2>1, <2>2, <2>3, <1>4
<1>6. Phases'
  <2>1. \A d \in Callers : cpc'[d] = "idle" /\ closure'[d] = 0
    BY <1>2 DEF ReturnFromRun, TypeOK, Phases
  <2> QED
    BY <2>1, <1>0, <1>4, <1>5 DEF Phases, Quiet, InRun, ReturnFromRun, Resting
<1> QED
  BY <1>1, <1>3, <1>6

LEMMA DestroyInv ==
  ASSUME IInv, Destroy
  PROVE  IInv'
<1> USE PoolAssumption DEF IInv
<1>0. Quiet
  BY DEF Destroy, Entered, Quiet, Callers
<1>1. TypeOK'
  BY DEF TypeOK, Destroy, BumpGen, locks, callers, ghost
<1>2. Entered'
  BY DEF Entered, Destroy, locks, callers
<1>3. Phases'
  BY <1>0 DEF Phases, Quiet, Destroy, BumpGen, locks, callers, ghost, Resting, Stopping, InRun, TypeOK
<1> QED
  BY <1>1, <1>2, <1>3

-----------------------------------------------------------------------------
(* The workers' steps *)

\* A worker with something to do while the pool is up: some caller is inside run().
LEMMA SomeRun ==
  ASSUME IInv, NEW w \in Workers, ~stop, ~Resting(w)
  PROVE  \E c \in Callers : InRun(c)
<1>1. PICK c \in Callers : cpc[c] # "idle"
  BY DEF IInv, Phases, Quiet
<1>2. cpc[c] # "publish"
  BY DEF IInv, Phases
<1> QED
  BY <1>1, <1>2 DEF IInv, TypeOK, InRun

\* What a worker's step needs to show: its own position and the ghost sets.
LEMMA WorkerInv ==
  ASSUME IInv, NEW w \in Workers, WorkerStep(w)
  PROVE  IInv'
<1> USE PoolAssumption DEF IInv
<1>0. UNCHANGED <<alive, mu, cpc, closure, goal, made, gen, fn, stop>>
  BY DEF WorkerStep, Wake, Exit, Call, EndCall, MarkDone, locks, callers
<1>1. Entered'
  BY <1>0 DEF Entered
<1>2. CASE stop
  <2>1. Stopping(w) /\ \A c \in Callers : ~InRun(c)
    BY <1>2 DEF Phases, Quiet, InRun
  <2>2. (Wake(w) \/ Exit(w)) /\ UNCHANGED ghost
    BY <2>1, <1>2 DEF Stopping, WorkerStep, Wake, Exit, Call, EndCall, MarkDone
  <2>3. TypeOK'
    BY <2>2 DEF TypeOK, Wake, Exit, ghost, locks, callers
  <2>4. \A v \in Workers : Stopping(v)'
    <3> TAKE v \in Workers
    <3>1. CASE v = w
      BY <3>1, <2>1, <2>2 DEF Stopping, Wake, Exit, TypeOK
    <3>2. CASE v # w
      <4>1. Stopping(v)
        BY <1>2 DEF Phases
      <4>2. wpc'[v] = wpc[v] /\ seen'[v] = seen[v] /\ done'[v] = done[v] /\ gen' = gen
        BY <3>2, <2>2, <1>0 DEF Wake, Exit, TypeOK
      <4> QED
        BY <4>1, <4>2 DEF Stopping
    <3> QED
      BY <3>1, <3>2
  <2>5. Phases'
    BY <2>1, <2>2, <2>4, <1>0, <1>2 DEF Phases, Quiet, InRun, ghost, Owns
  <2> QED
    BY <1>1, <2>3, <2>5
<1>3. CASE ~stop
  <2>1. ~Resting(w)
    BY DEF WorkerStep, Wake, Exit, Call, EndCall, MarkDone, Resting
  <2>2. PICK c \in Callers : InRun(c)
    BY <2>1, <1>3, SomeRun
  <2>3. Progress(w) /\ fn = made /\ \A x \in running \cup ended : x[1] = made
    BY <2>2 DEF Phases, Owns, InRun
  <2>4. \A x \in running : x[2] = w => x = <<made, w>>
    BY <2>3 DEF TypeOK
  <2>5. TypeOK'
    BY <1>0, <1>3 DEF TypeOK, WorkerStep, Wake, Exit, Call, EndCall, MarkDone, Mark, ghost, locks, callers, Parts
  <2>6. Progress(w)' /\ \A x \in running' \cup ended' : x[1] = made'
    BY <2>3, <2>4, <1>0, <1>3 DEF WorkerStep, Wake, Exit, Call, EndCall, MarkDone, Mark, ghost, Progress, TypeOK
  <2>7. \A p \in Parts \ {w} :
           /\ <<made, p>> \in running' <=> <<made, p>> \in running
           /\ <<made, p>> \in ended' <=> <<made, p>> \in ended
    BY <2>4 DEF WorkerStep, Wake, Exit, Call, EndCall, MarkDone, ghost
  <2>8. \A v \in Workers : Progress(v)'
    <3> TAKE v \in Workers
    <3>1. CASE v = w
      BY <3>1, <2>6
    <3>2. CASE v # w
      <4>1. wpc'[v] = wpc[v] /\ seen'[v] = seen[v] /\ done'[v] = done[v]
        BY <3>2 DEF WorkerStep, Wake, Exit, Call, EndCall, MarkDone, Mark, TypeOK
      <4>2. Progress(v)
        BY <2>2 DEF Phases
      <4>3. /\ <<made, v>> \in running' <=> <<made, v>> \in running
            /\ <<made, v>> \in ended' <=> <<made, v>> \in ended
        BY <2>7, <3>2 DEF Parts
      <4> QED
        BY <4>1, <4>2, <4>3, <1>0 DEF Progress
    <3> QED
      BY <3>1, <3>2
  <2>9. Phases'
    <3>1. Main # w /\ Main \in Parts
      BY DEF Parts
    <3>2. \A d \in Callers : cpc[d] # "publish" /\ ~Quiet
      BY <2>2, OneCaller DEF InRun, Quiet
    <3>3. \A d \in Callers : cpc[d] # "idle" => Owns(d)'
      BY <1>0 DEF Phases, Owns
    <3>4. \A d \in Callers : InRun(d) =>
            /\ goal[d] = gen /\ gen # 0
            /\ cpc[d] = "part0" <=> <<made, Main>> \in running'
            /\ cpc[d] = "join"  <=> <<made, Main>> \in ended'
      BY <3>1, <2>7 DEF Phases
    <3> QED
      BY <3>2, <3>3, <3>4, <2>6, <2>8, <1>0, <1>3 DEF Phases, Quiet, InRun
  <2> QED
    BY <1>1, <2>5, <2>9
<1> QED
  BY <1>2, <1>3

-----------------------------------------------------------------------------
(* The results *)

THEOREM PoolInvariant == Spec => []IInv
<1>1. IInv /\ [Next]_vars => IInv'
  <2> SUFFICES ASSUME IInv, [Next]_vars PROVE IInv'
    OBVIOUS
  <2>1. CASE UNCHANGED vars
    BY <2>1 DEF vars, locks, callers, ghost, IInv, TypeOK, Entered, Phases, Quiet, InRun, Owns, Resting, Stopping, Progress
  <2>2. ASSUME NEW h \in Helpers, CreateHelper(h) \/ JoinHelper(h) PROVE IInv'
    BY <2>2, HelperInv
  <2>3. ASSUME NEW c \in Callers, RunLocked(c) PROVE IInv'
    BY <2>3, PublishInv
  <2>4. ASSUME NEW c \in Callers, CallerStep(c) PROVE IInv'
    BY <2>4, BumpInv, EndPart0Inv, ReturnInv DEF CallerStep
  <2>5. CASE Parallel
    BY <2>5, PublishInv DEF Callers
  <2>6. CASE Destroy
    BY <2>6, DestroyInv
  <2>7. ASSUME NEW w \in Workers, WorkerStep(w) PROVE IInv'
    BY <2>7, WorkerInv
  <2> QED
    BY <2>1, <2>2, <2>3, <2>4, <2>5, <2>6, <2>7 DEF Next
<1> QED
  BY InitInv, <1>1, PTL DEF Spec

THEOREM PoolTypeCorrect == Spec => []TypeOK
BY PoolInvariant, PTL DEF IInv

\* No worker ever executes a closure whose run() has returned, whatever the number of workers and
\* callers: the wait on the flags is the whole of the closure's lifetime.
THEOREM NoDanglingClosure == Spec => []ClosureLives
<1>1. IInv => ClosureLives
  <2> SUFFICES ASSUME IInv, NEW x \in running PROVE \E c \in Callers : closure[c] = x[1]
    BY DEF ClosureLives
  <2>1. PICK c \in Callers : cpc[c] # "idle"
    BY DEF IInv, Phases, Quiet
  <2>2. InRun(c)
    BY <2>1 DEF IInv, Phases, InRun, TypeOK
  <2> QED
    BY <2>1, <2>2 DEF IInv, Phases, Owns
<1> QED
  BY <1>1, PoolInvariant, PTL

\* The pool executes one closure at a time although parallel() takes no lock.
THEOREM OneClosureAtATime == Spec => []OneClosure
<1>1. IInv => OneClosure
  <2> SUFFICES ASSUME IInv, NEW x \in running \cup ended, NEW y \in running \cup ended PROVE x[1] = y[1]
    BY DEF OneClosure
  <2>1. PICK c \in Callers : cpc[c] # "idle"
    BY DEF IInv, Phases, Quiet
  <2>2. InRun(c)
    BY <2>1 DEF IInv, Phases, InRun, TypeOK
  <2> QED
    BY <2>2 DEF IInv, Phases
<1> QED
  BY <1>1, PoolInvariant, PTL

\* Whatever the workers execute at once is one closure, and its caller is still inside run(): the scratch buffers the
\* parts share and the caller's stack they read need no other protection.
THEOREM OneClosureAndAlive == Spec => []OneLiveClosure
BY NoDanglingClosure, OneClosureAtATime, PTL DEF OneLiveClosure

-----------------------------------------------------------------------------
(* The pool implements WorkBarrier *)

Open     == \E c \in Callers : cpc[c] # "idle"
Running  == {x[2] : x \in running}
Finished == {x[2] : x \in ended}

\* In a run the ghost pairs are determined by their parts.
LEMMA GhostParts ==
  ASSUME IInv, NEW c \in Callers, InRun(c), NEW p
  PROVE  /\ p \in Running <=> <<made, p>> \in running
         /\ p \in Finished <=> <<made, p>> \in ended
<1>1. \A x \in running \cup ended : x = <<made, x[2]>>
  BY DEF IInv, Phases, TypeOK
<1> QED
  BY <1>1 DEF Running, Finished

\* Every step of the pool is a step of the barrier or leaves it unchanged.
LEMMA BarrierStep ==
  ASSUME IInv, IInv', [Next]_vars
  PROVE  [Barrier!BNext]_<<Open, Running, Finished>>
<1> USE PoolAssumption
<1>s. ASSUME UNCHANGED <<cpc, ghost>> PROVE UNCHANGED <<Open, Running, Finished>>
  BY <1>s DEF Open, Running, Finished, ghost
<1>1. CASE UNCHANGED vars
  BY <1>1, <1>s DEF vars, callers
<1>2. ASSUME NEW h \in Helpers, CreateHelper(h) \/ JoinHelper(h) PROVE UNCHANGED <<Open, Running, Finished>>
  BY <1>2, <1>s DEF CreateHelper, JoinHelper, callers
<1>3. ASSUME NEW c \in Callers, RunLocked(c) \/ (c = Main /\ Parallel) PROVE Barrier!Begin
  <2>1. Publish(c) /\ (mu = None \/ alive = {})
    BY <1>3 DEF RunLocked, Parallel, Lock
  <2>2. ~Open /\ Open'
    BY <1>3, <2>1 DEF Open, IInv, Entered, Publish, TypeOK, Callers, RunLocked, Parallel, Lock
  <2>3. UNCHANGED <<Running, Finished>>
    BY <2>1 DEF Publish, ghost, Running, Finished
  <2> QED
    BY <2>2, <2>3 DEF Barrier!Begin, Open, Running, Finished
<1>4. ASSUME NEW c \in Callers, Bump(c) PROVE Barrier!Execute(Main)
  <2>1. running = {} /\ ended = {} /\ running' = {<<closure[c], Main>>} /\ ended' = {}
    BY <1>4 DEF Bump, IInv, Phases
  <2>2. Open /\ Open'
    BY <1>4 DEF Bump, Open, IInv, TypeOK
  <2>3. Running = {} /\ Finished = {} /\ Running' = {Main} /\ Finished' = {}
    BY <2>1 DEF Running, Finished
  <2> QED
    BY <2>2, <2>3 DEF Barrier!Execute, Open, Running, Finished
<1>5. ASSUME NEW c \in Callers, EndPart0(c) PROVE Barrier!Complete(Main)
  <2>1. InRun(c) /\ InRun(c)' /\ closure[c] = made /\ made' = made
    BY <1>5 DEF EndPart0, InRun, IInv, Phases, Owns, TypeOK
  <2>2. running' = running \ {<<made, Main>>} /\ ended' = ended \cup {<<made, Main>>} /\ <<made, Main>> \in running
    BY <1>5, <2>1 DEF EndPart0, IInv, Phases
  <2>3. Open /\ Open'
    BY <2>1 DEF Open, InRun
  <2>4. \A x \in running \cup ended : x = <<made, x[2]>>
    BY <2>1 DEF IInv, Phases, TypeOK
  <2>5. Main \in Running /\ Running' = Running \ {Main} /\ Finished' = Finished \cup {Main}
    BY <2>2, <2>4 DEF Running, Finished
  <2> QED
    BY <2>3, <2>5 DEF Barrier!Complete, Open, Running, Finished
<1>6. ASSUME NEW c \in Callers, ReturnFromRun(c) PROVE Barrier!Return
  <2>1. InRun(c) /\ cpc[c] = "join" /\ closure[c] = made
    BY <1>6 DEF ReturnFromRun, InRun, IInv, Phases, Owns
  <2>2. \A w \in Workers : <<made, w>> \in ended
    <3> TAKE w \in Workers
    <3>1. Progress(w) /\ done[w] = gen
      BY <2>1, <1>6 DEF IInv, Phases, ReturnFromRun, AllDone
    <3> QED
      BY <3>1 DEF Progress, IInv, TypeOK
  <2>3. <<made, Main>> \in ended /\ ended' = {} /\ running' = running
    BY <2>1, <1>6 DEF IInv, Phases, ReturnFromRun
  <2>4. Finished = Parts
    <3>1. Parts \subseteq Finished
      BY <2>1, <2>2, <2>3, GhostParts DEF Parts
    <3>2. Finished \subseteq Parts
      BY DEF Finished, IInv, TypeOK
    <3> QED
      BY <3>1, <3>2
  <2>5. Finished' = {} /\ UNCHANGED Running
    BY <2>3 DEF Finished, Running
  <2>6. Open /\ ~Open'
    BY <2>1, <1>6, OneCaller DEF Open, ReturnFromRun, IInv, TypeOK
  <2> QED
    BY <2>4, <2>5, <2>6 DEF Barrier!Return, Open, Running, Finished
<1>7. CASE Destroy
  BY <1>7, <1>s DEF Destroy, callers
<1>8. ASSUME NEW w \in Workers, Wake(w) \/ Exit(w) \/ MarkDone(w) PROVE UNCHANGED <<Open, Running, Finished>>
  BY <1>8, <1>s DEF Wake, Exit, MarkDone, callers
<1>9. ASSUME NEW w \in Workers, Call(w) PROVE Barrier!Execute(w)
  <2>1. PICK c \in Callers : InRun(c)
    BY <1>9, SomeRun DEF Call, Resting
  <2>2. fn = made /\ <<made, w>> \notin running \cup ended /\ running' = running \cup {<<made, w>>} /\ ended' = ended
    BY <2>1, <1>9 DEF Call, IInv, Phases, Owns, InRun, Progress
  <2>3. w \notin Running \cup Finished
    BY <2>1, <2>2, GhostParts
  <2>4. Running' = Running \cup {w} /\ Finished' = Finished
    BY <2>2 DEF Running, Finished
  <2>5. Open /\ Open'
    BY <2>1, <1>9 DEF Open, InRun, Call, callers
  <2> QED
    BY <2>3, <2>4, <2>5 DEF Barrier!Execute, Open, Running, Finished
<1>10. ASSUME NEW w \in Workers, EndCall(w) PROVE Barrier!Complete(w)
  <2>1. ~stop
    BY <1>10 DEF EndCall, IInv, Phases, Stopping
  <2>2. PICK c \in Callers : InRun(c)
    BY <2>1, <1>10, SomeRun DEF EndCall, Resting
  <2>3. <<made, w>> \in running
    BY <2>2, <1>10 DEF EndCall, IInv, Phases, Progress
  <2>4. \A x \in running \cup ended : x = <<made, x[2]>>
    BY <2>2 DEF IInv, Phases, TypeOK
  <2>5. running' = running \ {<<made, w>>} /\ ended' = ended \cup {<<made, w>>}
    BY <2>3, <2>4, <1>10 DEF EndCall
  <2>6. w \in Running /\ Running' = Running \ {w} /\ Finished' = Finished \cup {w}
    BY <2>3, <2>4, <2>5 DEF Running, Finished
  <2>7. Open /\ Open'
    BY <2>2, <1>10 DEF Open, InRun, EndCall, callers
  <2> QED
    BY <2>6, <2>7 DEF Barrier!Complete, Open, Running, Finished
<1> QED
  BY <1>1, <1>2, <1>3, <1>4, <1>5, <1>6, <1>7, <1>8, <1>9, <1>10
  DEF Next, CallerStep, WorkerStep, Barrier!BNext, Parts, Callers

\* SpinPool::run keeps the promise of its header for any number of threads: each part once, and no
\* return before every part has ended.
THEOREM PoolImplementsBarrier == Spec => ImplementsBarrier
<1>1. Init => Barrier!BInit
  BY DEF Init, Barrier!BInit
<1>2. IInv /\ IInv' /\ [Next]_vars => [Barrier!BNext]_(Barrier!bvars)
  BY BarrierStep DEF Barrier!bvars, Open, Running, Finished
<1> QED
  BY <1>1, <1>2, PoolInvariant, PTL DEF Spec, ImplementsBarrier, Barrier!BSpec

-----------------------------------------------------------------------------
(* The inductive invariant of CpuExperts, whichever threads run it *)

\* the lines of work of a claimed job, and the chunks they are cut in
Total == IF phase = "gateup" THEN Work!AllRows ELSE OutRows
NCut  == Work!NChunks(Total)
Low(c)  == Work!Split(Total, c, NCut).b
High(c) == Work!Split(Total, c, NCut).e
Cut(c)  == Low(c) .. High(c) - 1

Claiming   == phase \in {"gateup", "output"}
Working(p) == tpc[p] \in {"rows", "count", "swiglu"}
Taken(c)   == IF chunks > 1 THEN c < next ELSE cur[c] # Work!NoChunk

\* a line nobody has computed in this job, and one computed once
Clean(r) == IF phase = "gateup" THEN gu[r] = 0 ELSE \A t \in 0..Window-1 : out[<<t, r>>] = <<>>
Ready(r) == IF phase = "gateup" THEN gu[r] = 1 ELSE \A t \in 0..Window-1 : out[<<t, r>>] = Work!TasksOf(tasks, t)

WorkTyped ==
  /\ chunks \in Chunkings /\ calls \in 0..MaxCalls
  /\ phase \in {"idle", "quantize", "gateup", "output"}
  /\ tasks \in TaskLists \cup {<<>>}
  /\ next \in Nat
  /\ tpc \in [Work!Threads -> {"claim", "rows", "count", "swiglu", "done"}]
  /\ cur \in [Work!Threads -> Int] /\ at \in [Work!Threads -> Nat] /\ end \in [Work!Threads -> Nat]
  /\ mine \in [Work!Threads -> [lo : Nat, hi : Nat]]
  /\ \A p \in Work!Threads : at[p] <= end[p] /\ mine[p].lo <= mine[p].hi
  /\ xq \subseteq 0..Window-1
  /\ gu \in [0..Work!AllRows-1 -> Nat]
  /\ rows_done \in [DOMAIN Work!Groups(tasks) -> Nat] /\ hq \in [DOMAIN Work!Groups(tasks) -> Nat]
  /\ out = [x \in (0..Window-1) \X (0..OutRows-1) |-> out[x]]

\* A chunk is claimed by one thread.  One that is done has left none behind: the counter is past the
\* last chunk, or its own slice was its claim.
ChunkHeld ==
  Claiming =>
    /\ \A p \in Work!Threads : cur[p] # Work!NoChunk => cur[p] \in 0..NCut-1 /\ (chunks = 1 => cur[p] = p)
    /\ \A p, q \in Work!Threads : cur[p] = cur[q] /\ cur[p] # Work!NoChunk => p = q
    /\ \A p \in Work!Threads : Working(p) => cur[p] # Work!NoChunk
    /\ \A p \in Work!Threads, c \in 0..NCut-1 : cur[p] = c => Taken(c)
    /\ \A p \in Work!Threads, c \in 0..NCut-1 : Working(p) /\ cur[p] = c => Low(c) <= at[p] /\ end[p] = High(c)
    /\ \A p \in Work!Threads : tpc[p] = "done" => IF chunks > 1 THEN NCut <= next ELSE cur[p] # Work!NoChunk

\* The lines of a chunk are untouched until it is claimed, then computed in order, each once.
LinesOnce ==
  Claiming => \A c \in 0..NCut-1 : \A r \in Cut(c) :
    /\ ~Taken(c) => Clean(r)
    /\ \A p \in Work!Threads : Working(p) /\ cur[p] = c => IF r < at[p] THEN Ready(r) ELSE Clean(r)
    /\ Taken(c) /\ (\A p \in Work!Threads : Working(p) => cur[p] # c) => Ready(r)

\* rows of group g computed and counted
Group(g) == (g - 1) * Rows .. g * Rows - 1
Uncounted(r) == \E p \in Work!Threads : tpc[p] = "count" /\ mine[p].lo <= r /\ r < mine[p].hi
Counted(g) == {r \in Group(g) : gu[r] = 1 /\ ~Uncounted(r)}

AtSwiGlu(p, g) == tpc[p] = "swiglu" /\ Work!GroupAt(mine[p].lo) = g

\* A thread counts the rows it has just computed, of one group.
MineRight ==
  \A p \in Work!Threads : tpc[p] \in {"count", "swiglu"} =>
    /\ phase = "gateup"
    /\ mine[p].lo < mine[p].hi /\ mine[p].hi = at[p] /\ (\A c \in 0..NCut-1 : cur[p] = c => Low(c) <= mine[p].lo)
    /\ mine[p].hi <= Work!GroupAt(mine[p].lo) * Rows

\* The counter of a group is the number of its rows computed and counted; the thread that finds all of
\* them applies the SwiGLU, and no other does.
CountsRight ==
  phase = "gateup" => \A g \in DOMAIN rows_done :
    /\ rows_done[g] = Cardinality(Counted(g))
    /\ \A p \in Work!Threads : AtSwiGlu(p, g) => rows_done[g] = Rows
    /\ \A p, q \in Work!Threads : AtSwiGlu(p, g) /\ AtSwiGlu(q, g) => p = q
    /\ hq[g] = IF rows_done[g] = Rows /\ (\A p \in Work!Threads : ~AtSwiGlu(p, g)) THEN 1 ELSE 0

\* The first job: a thread that is done has quantized and zeroed its share; nothing is computed yet.
ShareDone(p) ==
  /\ LET u == Work!Split(Len(Work!UsedTokens(tasks)), p, NThreads)
     IN  \A k \in u.b + 1 .. u.e : tasks[Work!UsedTokens(tasks)[k]].t \in xq
  /\ LET z == Work!Split(Window, p, NThreads)
     IN  \A x \in DOMAIN out : z.b <= x[1] /\ x[1] < z.e => out[x] = <<>>

FirstJob ==
  phase = "quantize" =>
    /\ xq \subseteq Work!Tokens(tasks)
    /\ \A p \in Work!Threads : tpc[p] \in {"claim", "done"} /\ (tpc[p] = "done" => ShareDone(p))
    /\ \A r \in DOMAIN gu : gu[r] = 0
    /\ \A g \in DOMAIN rows_done : rows_done[g] = 0 /\ hq[g] = 0

\* What a job leaves for the next one.
LeftBehind ==
  /\ phase = "gateup" => xq = Work!Tokens(tasks) /\ \A x \in DOMAIN out : out[x] = <<>>
  /\ phase = "output" => \A g \in DOMAIN hq : hq[g] = 1
  /\ phase = "idle" /\ calls > 0 => \A r \in 0..OutRows-1 : Ready(r)

WInv == WorkTyped /\ ChunkHeld /\ LinesOnce /\ MineRight /\ CountsRight /\ FirstJob /\ LeftBehind
-----------------------------------------------------------------------------
(* The lemmas on operators *)

LEMMA DivBounds ==
  ASSUME NEW a \in Nat, NEW n \in Nat \ {0}
  PROVE  a \div n \in Nat /\ n * (a \div n) <= a /\ a < n * (a \div n) + n
OBVIOUS

LEMMA MulMono ==
  ASSUME NEW a \in Nat, NEW b \in Nat, NEW n \in Nat, a <= b
  PROVE  n * a \in Nat /\ n * b \in Nat /\ n * a <= n * b
OBVIOUS

LEMMA DivMono ==
  ASSUME NEW a \in Nat, NEW b \in Nat, NEW n \in Nat \ {0}, a <= b
  PROVE  a \div n <= b \div n
<1>1. a \div n \in Nat /\ b \div n \in Nat /\ n * (a \div n) <= a /\ b < n * (b \div n) + n
  BY DivBounds
<1>2. SUFFICES ASSUME b \div n < a \div n PROVE FALSE
  BY <1>1
<1>3. n * (b \div n + 1) <= n * (a \div n)
  BY <1>1, <1>2, MulMono
<1>4. n * (b \div n + 1) = n * (b \div n) + n
  BY <1>1
<1> QED
  BY <1>1, <1>3, <1>4

\* A slice ends where the next begins.
LEMMA SplitShape ==
  ASSUME NEW n \in Nat, NEW N \in Nat \ {0}, NEW c \in Nat
  PROVE  /\ Work!Split(n, c, N).b \in Nat /\ Work!Split(n, c, N).e \in Nat
         /\ Work!Split(n, c, N).b <= Work!Split(n, c, N).e
         /\ Work!Split(n, c, N).e = Work!Split(n, c + 1, N).b
<1>1. n * c \in Nat /\ n * (c + 1) \in Nat /\ n * c <= n * (c + 1)
  BY MulMono
<1>2. (n * c) \div N \in Nat /\ (n * (c + 1)) \div N \in Nat /\ (n * c) \div N <= (n * (c + 1)) \div N
  BY <1>1, DivMono, DivBounds
<1> QED
  BY <1>2 DEF Work!Split

\* The first slice begins at 0, the last ends at n.
LEMMA SplitEnds ==
  ASSUME NEW n \in Nat, NEW N \in Nat \ {0}
  PROVE  Work!Split(n, 0, N).b = 0 /\ Work!Split(n, N, N).b = n /\ Work!Split(n, N - 1, N).e = n
<1>1. (n * 0) \div N = 0
  <2>1. n * 0 = 0 /\ 0 \div N \in Nat /\ N * (0 \div N) <= 0
    BY DivBounds
  <2> QED
    BY <2>1
<1>2. (n * N) \div N = n
  OBVIOUS
<1> QED
  BY <1>1, <1>2 DEF Work!Split

LEMMA LeastOf ==
  ASSUME NEW T \in SUBSET Nat, T # {}
  PROVE  \E x \in T : \A y \in T : x <= y
<1>1. PICK x \in T : \A y \in T : <<y, x>> \notin OpToRel(<, Nat)
  BY Zenon, NatLessThanWellFounded, WFMin
<1>2. ASSUME NEW y \in T PROVE x <= y
  <2>1. <<y, x>> \in Nat \X Nat /\ x \in Nat /\ y \in Nat
    OBVIOUS
  <2> QED
    BY <1>1, <2>1 DEF OpToRel
<1> QED
  BY <1>2

LEMMA SplitOrder ==
  ASSUME NEW n \in Nat, NEW N \in Nat \ {0}, NEW c \in Nat, NEW d \in Nat, c < d
  PROVE  Work!Split(n, c, N).e <= Work!Split(n, d, N).b
<1>1. n * (c + 1) \in Nat /\ n * d \in Nat /\ n * (c + 1) <= n * d
  BY MulMono
<1> QED
  BY <1>1, DivMono DEF Work!Split

\* Every line is in a slice.
LEMMA SplitCovers ==
  ASSUME NEW n \in Nat, NEW N \in Nat \ {0}, NEW r \in 0..n-1
  PROVE  \E c \in 0..N-1 : Work!Split(n, c, N).b <= r /\ r < Work!Split(n, c, N).e
<1> DEFINE past == {c \in Nat : r < Work!Split(n, c, N).b}
<1>1. N \in past
  BY SplitEnds
<1>2. PICK m \in past : \A c \in past : m <= c
  <2> HIDE DEF past
  <2>1. past \subseteq Nat
    BY DEF past
  <2> QED
    BY <1>1, <2>1, LeastOf
<1>3. m \in Nat /\ m # 0 /\ m <= N
  BY <1>1, <1>2, SplitEnds
<1>4. m - 1 \in 0..N-1 /\ m - 1 \notin past /\ (m - 1) + 1 = m
  BY <1>2, <1>3
<1>5. Work!Split(n, m - 1, N).b \in Nat /\ Work!Split(n, m - 1, N).e = Work!Split(n, m, N).b
  <2>1. m - 1 \in Nat
    BY <1>4
  <2> QED
    BY <1>4, <2>1, SplitShape
<1> QED
  BY <1>2, <1>4, <1>5

LEMMA SplitIn ==
  ASSUME NEW n \in Nat, NEW N \in Nat \ {0}, NEW c \in 0..N-1
  PROVE  Work!Split(n, c, N).e <= n
<1>1. CASE c = N - 1
  BY <1>1, SplitEnds
<1>2. CASE c < N - 1
  <2>1. c < N - 1 /\ c \in Nat /\ N - 1 \in Nat
    BY <1>2
  <2>2. Work!Split(n, c, N).e <= Work!Split(n, N - 1, N).b
    BY <2>1, SplitOrder
  <2>3. Work!Split(n, N - 1, N).b <= Work!Split(n, N - 1, N).e /\ Work!Split(n, N - 1, N).b \in Nat
    BY <2>1, SplitShape
  <2>4. Work!Split(n, N - 1, N).e = n /\ Work!Split(n, c, N).e \in Nat
    BY <2>1, SplitEnds, SplitShape
  <2> QED
    BY <2>2, <2>3, <2>4
<1> QED
  BY <1>1, <1>2

LEMMA SameCardinality == \A S : Work!Cardinality(S) = Cardinality(S)
BY DEF Work!Cardinality, Cardinality

LEMMA AscendingIs ==
  ASSUME NEW S
  PROVE  Work!Ascending(S) = [k \in 1..Cardinality(S) |-> Work!Ascending(S)[k]]
<1> DEFINE item(k) == CHOOSE i \in S : Work!Cardinality({j \in S : j < i}) = k - 1
           asc == Work!Ascending(S)
<1>1. asc = [k \in 1..Work!Cardinality(S) |-> item(k)]
  BY DEF Work!Ascending
<1> HIDE DEF item, asc
<1> QED
  BY <1>1, SameCardinality DEF asc

LEMMA AscendingType ==
  ASSUME NEW S \in SUBSET Nat, IsFiniteSet(S)
  PROVE  /\ Cardinality(S) \in Nat
         /\ DOMAIN Work!Ascending(S) = 1..Cardinality(S) /\ Len(Work!Ascending(S)) = Cardinality(S)
<1>1. Cardinality(S) \in Nat
  BY FS_CardinalityType
<1>2. DOMAIN Work!Ascending(S) = 1..Cardinality(S)
  BY AscendingIs
<1> DEFINE s == Work!Ascending(S)
           T == {s[k] : k \in 1..Cardinality(S)}
<1>3. s \in [1..Cardinality(S) -> T]
  <2>1. s = [k \in 1..Cardinality(S) |-> s[k]]
    BY AscendingIs
  <2> HIDE DEF s
  <2> QED
    BY <2>1
<1>4. s \in Seq(T)
  <2> HIDE DEF s, T
  <2> QED
    BY <1>1, <1>3, SeqDef
<1>5. Len(s) \in Nat /\ DOMAIN s = 1..Len(s)
  <2> HIDE DEF s, T
  <2> QED
    BY <1>4, LenProperties
<1> QED
  BY <1>1, <1>2, <1>5

\* Ascending lists every number of a finite set.
LEMMA AscendingOnto ==
  ASSUME NEW S \in SUBSET Nat, IsFiniteSet(S)
  PROVE  /\ Work!Ascending(S) \in Seq(S)
         /\ \A i \in S : \E k \in 1..Cardinality(S) : Work!Ascending(S)[k] = i
<1> DEFINE below(i) == {j \in S : j < i}
           rank == [i \in S |-> Cardinality(below(i)) + 1]
           card == Cardinality(S)
           asc == Work!Ascending(S)
<1>1. \A i \in S : IsFiniteSet(below(i)) /\ Cardinality(below(i)) \in 0..card-1
  <2> TAKE i \in S
  <2>1. below(i) \in SUBSET S /\ i \notin below(i)
    OBVIOUS
  <2>2. IsFiniteSet(below(i)) /\ Cardinality(below(i)) <= card /\ Cardinality(below(i)) # card
    <3> HIDE DEF below
    <3> QED
      BY <2>1, FS_Subset
  <2>3. card \in Nat /\ Cardinality(below(i)) \in Nat
    BY <2>2, FS_CardinalityType
  <2> QED
    BY <2>2, <2>3
<1>2. card \in Nat
  BY FS_CardinalityType
<1>3. \A i, j \in S : rank[i] = rank[j] => i = j
  <2>1. ASSUME NEW i \in S, NEW j \in S, i < j PROVE rank[i] # rank[j]
    <3>0. \A k \in S : k \in Int /\ (k < i => k < j)
      BY <2>1
    <3>a. \A k \in below(i) : k \in below(j)
      BY <3>0
    <3>1. below(i) \in SUBSET below(j) /\ i \in below(j) /\ i \notin below(i)
      <4>1. i \in below(j) /\ ~(i < i)
        BY <2>1
      <4>2. i \notin below(i)
        BY <4>1
      <4> HIDE DEF below
      <4> QED
        BY <3>a, <4>1, <4>2
    <3>2. Cardinality(below(i)) # Cardinality(below(j))
      <4> HIDE DEF below
      <4>1. below(i) # below(j)
        BY <3>1
      <4> QED
        BY <1>1, <3>1, <4>1, FS_Subset
    <3> QED
      BY <1>1, <3>2
  <2>2. \A i, j \in S : i < j \/ j < i \/ i = j
    OBVIOUS
  <2> HIDE DEF rank
  <2> QED
    BY <2>1, <2>2
<1>4. rank \in Injection(S, 1..card)
  <2>1. rank \in [S -> 1..card]
    <3> HIDE DEF below, card
    <3> QED
      BY <1>1, <1>2
  <2> HIDE DEF rank, card
  <2> QED
    BY <2>1, <1>3 DEF Injection, IsInjective
<1>5. Cardinality(1..card) = card /\ IsFiniteSet(1..card)
  BY <1>2, FS_Interval
<1>6. rank \in Surjection(S, 1..card)
  <2> HIDE DEF rank
  <2> QED
    BY <1>4, <1>5, FS_Injection
<1>7. \A k \in 1..card : \E i \in S : Cardinality(below(i)) = k - 1
  <2> TAKE k \in 1..card
  <2>1. PICK i \in S : rank[i] = k
    <3> HIDE DEF rank, card
    <3> QED
      BY <1>6 DEF Surjection
  <2>2. k = Cardinality(below(i)) + 1 /\ Cardinality(below(i)) \in Int
    BY <1>1, <2>1
  <2> HIDE DEF below
  <2> QED
    BY <2>2
<1>8. \A k \in 1..card : asc[k] \in S /\ Cardinality(below(asc[k])) = k - 1
  <2> TAKE k \in 1..card
  <2>1. asc[k] = CHOOSE i \in S : Cardinality(below(i)) = k - 1
    BY SameCardinality DEF Work!Ascending
  <2> HIDE DEF below, asc
  <2> QED
    BY <1>7, <2>1
<1>9. \A k \in 1..card : asc[k] \in S /\ rank[asc[k]] = k
  <2> HIDE DEF asc, below
  <2> QED
    BY <1>8
<1>10. \A i \in S : rank[i] \in 1..card /\ asc[rank[i]] = i
  <2> TAKE i \in S
  <2> HIDE DEF asc, rank, card
  <2>1. rank[i] \in 1..card
    BY <1>4 DEF Injection
  <2> QED
    BY <2>1, <1>3, <1>9
<1>11. asc \in Seq(S)
  <2>1. asc = [k \in 1..card |-> asc[k]]
    BY AscendingIs
  <2> HIDE DEF asc, card
  <2>2. asc \in [1..card -> S]
    BY <2>1, <1>8
  <2> QED
    BY <2>2, <1>2, SeqDef
<1> QED
  BY <1>10, <1>11

-----------------------------------------------------------------------------
(* Task lists *)

Listed == Seq([t : 0..Window-1, expert : Nat])

LEMMA TaskListsListed == TaskLists \cup {<<>>} \subseteq Listed
<1>1. <<>> \in Listed
  BY EmptySeq DEF Listed
<1> QED
  BY <1>1, ShapeAssumption DEF Listed

LEMMA TaskSet ==
  ASSUME NEW ts \in Listed
  PROVE  /\ DOMAIN ts \in SUBSET Nat /\ IsFiniteSet(DOMAIN ts)
         /\ \A i \in DOMAIN ts : ts[i].t \in 0..Window-1 /\ 1..i-1 \subseteq DOMAIN ts
<1>1. Len(ts) \in Nat /\ DOMAIN ts = 1..Len(ts) /\ ts \in [1..Len(ts) -> [t : 0..Window-1, expert : Nat]]
  BY LenProperties DEF Listed
<1>2. IsFiniteSet(DOMAIN ts)
  BY <1>1, FS_Interval
<1> QED
  BY <1>1, <1>2

LEMMA GroupsShape ==
  ASSUME NEW ts \in Listed
  PROVE  Len(Work!Groups(ts)) \in Nat /\ DOMAIN Work!Groups(ts) = 1..Len(Work!Groups(ts))
<1> DEFINE F == {i \in DOMAIN ts : \A j \in 1..i-1 : ts[j].expert # ts[i].expert}
           order == Work!Ascending(F)
           gs == Work!Groups(ts)
<1>1. F \in SUBSET Nat /\ IsFiniteSet(F)
  <2>1. F \in SUBSET DOMAIN ts
    OBVIOUS
  <2> HIDE DEF F
  <2> QED
    BY <2>1, TaskSet, FS_Subset
<1>2. gs = [k \in DOMAIN order |-> ts[order[k]].expert]
  BY DEF Work!Groups
<1>3. DOMAIN order = 1..Cardinality(F) /\ Cardinality(F) \in Nat
  <2> HIDE DEF F
  <2> QED
    BY <1>1, AscendingType
<1> HIDE DEF F, order, gs
<1>4. gs = [k \in 1..Cardinality(F) |-> gs[k]]
  BY <1>2, <1>3
<1> DEFINE T == {gs[k] : k \in 1..Cardinality(F)}
<1>5. gs \in [1..Cardinality(F) -> T]
  BY <1>4
<1>6. gs \in Seq(T)
  <2> HIDE DEF T
  <2> QED
    BY <1>3, <1>5, SeqDef
<1>7. Len(gs) \in Nat /\ DOMAIN gs = 1..Len(gs)
  <2> HIDE DEF T
  <2> QED
    BY <1>6, LenProperties
<1> QED
  BY <1>7 DEF gs

LEMMA NoGroups == Work!Groups(<<>>) = <<>> /\ Len(Work!Groups(<<>>)) = 0
<1> DEFINE F == {i \in DOMAIN <<>> : \A j \in 1..i-1 : <<>>[j].expert # <<>>[i].expert}
           order == Work!Ascending(F)
           gs == Work!Groups(<<>>)
<1>1. F = {}
  OBVIOUS
<1>2. gs = [k \in DOMAIN order |-> <<>>[order[k]].expert]
  BY DEF Work!Groups
<1>3. Cardinality(F) = 0 /\ F \in SUBSET Nat /\ IsFiniteSet(F)
  BY <1>1, FS_EmptySet
<1>4. DOMAIN order = {}
  <2> HIDE DEF F
  <2>1. DOMAIN order = 1..Cardinality(F)
    BY <1>3, AscendingType
  <2> QED
    BY <2>1, <1>3
<1> HIDE DEF F, order
<1>5. gs = <<>>
  BY <1>2, <1>4
<1> QED
  BY <1>5, EmptySeq

\* Every token of the list is the token of one of tok_used.
LEMMA UsedCover ==
  ASSUME NEW ts \in Listed
  PROVE  /\ Len(Work!UsedTokens(ts)) \in Nat
         /\ \A k \in 1..Len(Work!UsedTokens(ts)) : Work!UsedTokens(ts)[k] \in DOMAIN ts
         /\ \A i \in DOMAIN ts : \E k \in 1..Len(Work!UsedTokens(ts)) : ts[Work!UsedTokens(ts)[k]].t = ts[i].t
<1> DEFINE F == {i \in DOMAIN ts : \A j \in 1..i-1 : ts[j].t # ts[i].t}
           u == Work!Ascending(F)
<1>1. Work!UsedTokens(ts) = u
  BY DEF Work!UsedTokens
<1>2. F \in SUBSET DOMAIN ts
  OBVIOUS
<1>3. F \in SUBSET Nat /\ IsFiniteSet(F)
  <2> HIDE DEF F
  <2> QED
    BY <1>2, TaskSet, FS_Subset
<1>4. Cardinality(F) \in Nat /\ Len(u) = Cardinality(F) /\ u \in Seq(F) /\ \A i \in F : \E k \in 1..Cardinality(F) : u[k] = i
  <2> HIDE DEF F
  <2> QED
    BY <1>3, AscendingType, AscendingOnto
<1>5. \A k \in 1..Len(u) : u[k] \in F
  <2> HIDE DEF F, u
  <2> QED
    BY <1>4, ElementOfSeq
<1>6. ASSUME NEW i \in DOMAIN ts PROVE \E m \in F : ts[m].t = ts[i].t
  <2> DEFINE same == {j \in DOMAIN ts : ts[j].t = ts[i].t}
  <2>1. same \in SUBSET Nat /\ same # {}
    BY TaskSet
  <2>2. PICK m \in same : \A j \in same : m <= j
    <3> HIDE DEF same
    <3> QED
      BY <2>1, LeastOf
  <2>3. \A j \in 1..m-1 : j \in DOMAIN ts /\ j \notin same
    <3>1. 1..m-1 \subseteq DOMAIN ts /\ m \in Nat
      BY TaskSet
    <3> QED
      BY <2>2, <3>1
  <2>4. m \in F
    BY <2>3
  <2> QED
    BY <2>4
<1> HIDE DEF F, u
<1>7. \A i \in DOMAIN ts : \E k \in 1..Len(u) : ts[u[k]].t = ts[i].t
  <2> TAKE i \in DOMAIN ts
  <2>1. PICK m \in F : ts[m].t = ts[i].t
    BY <1>6
  <2>2. PICK k \in 1..Len(u) : u[k] = m
    BY <1>4
  <2> QED
    BY <2>1, <2>2
<1> QED
  BY <1>1, <1>2, <1>4, <1>5, <1>7

LEMMA TasksOfSeq ==
  ASSUME NEW ts \in Listed, NEW t
  PROVE  Work!TasksOf(ts, t) \in Seq(Nat) /\ <<>> \o Work!TasksOf(ts, t) = Work!TasksOf(ts, t)
<1> DEFINE F == {i \in DOMAIN ts : ts[i].t = t}
           s == Work!TasksOf(ts, t)
<1>1. s = Work!Ascending(F)
  BY DEF Work!TasksOf
<1>2. F \in SUBSET DOMAIN ts
  OBVIOUS
<1>3. F \in SUBSET Nat /\ IsFiniteSet(F)
  <2> HIDE DEF F
  <2> QED
    BY <1>2, TaskSet, FS_Subset
<1> HIDE DEF F, s
<1>4. s \in Seq(F)
  BY <1>1, <1>3, AscendingOnto
<1>5. s \in Seq(Nat)
  BY <1>3, <1>4, SeqMonotonic
<1>6. <<>> \o s = s
  BY <1>5, ConcatEmptySeq
<1> QED
  BY <1>5, <1>6 DEF s

-----------------------------------------------------------------------------
(* The lines of work of a state and their chunks *)

LEMMA Shape ==
  ASSUME WorkTyped
  PROVE  /\ tasks \in Listed /\ chunks \in Nat \ {0} /\ Work!Threads = 0..NThreads-1 /\ NThreads \in Nat \ {0}
         /\ Len(Work!Groups(tasks)) \in Nat /\ DOMAIN Work!Groups(tasks) = 1..Len(Work!Groups(tasks))
         /\ Work!AllRows = Len(Work!Groups(tasks)) * Rows /\ Work!AllRows \in Nat
         /\ Total \in Nat /\ NCut \in Nat \ {0} /\ (~(chunks > 1) => NCut = NThreads /\ chunks = 1)
<1>1. tasks \in Listed /\ chunks \in Nat \ {0} /\ NThreads \in Nat \ {0} /\ Rows \in Nat \ {0} /\ OutRows \in Nat
  BY TaskListsListed, ShapeAssumption DEF WorkTyped
<1>2. Len(Work!Groups(tasks)) \in Nat /\ DOMAIN Work!Groups(tasks) = 1..Len(Work!Groups(tasks))
  BY <1>1, GroupsShape
<1>3. Work!AllRows = Len(Work!Groups(tasks)) * Rows
  BY DEF Work!AllRows
<1>4. Work!AllRows \in Nat
  BY <1>1, <1>2, <1>3, MulMono
<1>5. Total \in Nat
  BY <1>1, <1>4 DEF Total
<1>6. \A n \in Nat : Work!NChunks(n) \in Nat \ {0} /\ (~(chunks > 1) => Work!NChunks(n) = NThreads)
  <2> TAKE n \in Nat
  <2>1. chunks * NThreads \in Nat
    BY <1>1
  <2> QED
    BY <1>1, <2>1 DEF Work!NChunks, Work!Max2, Work!Min2
<1>7. NCut \in Nat \ {0} /\ (~(chunks > 1) => NCut = NThreads)
  BY <1>5, <1>6 DEF NCut
<1>8. ~(chunks > 1) => chunks = 1
  BY <1>1
<1>9. Work!Threads = 0..NThreads-1
  BY DEF Work!Threads
<1> QED
  BY <1>1, <1>2, <1>3, <1>4, <1>5, <1>7, <1>8, <1>9

LEMMA CutShape ==
  ASSUME WorkTyped, NEW c \in 0..NCut-1
  PROVE  Low(c) \in Nat /\ High(c) \in Nat /\ Low(c) <= High(c) /\ High(c) <= Total
<1>1. c \in Nat /\ Total \in Nat /\ NCut \in Nat \ {0}
  BY Shape
<1> QED
  BY <1>1, SplitShape, SplitIn DEF Low, High

LEMMA CutsApart ==
  ASSUME WorkTyped, NEW c \in 0..NCut-1, NEW d \in 0..NCut-1, NEW r \in Cut(c), r \in Cut(d)
  PROVE  c = d
<1>1. Total \in Nat /\ NCut \in Nat \ {0}
  BY Shape
<1>2. ASSUME NEW a \in 0..NCut-1, NEW b \in 0..NCut-1, a < b, r \in Cut(a), r \in Cut(b) PROVE FALSE
  <2>1. a \in Nat /\ b \in Nat
    BY <1>1
  <2>2. High(a) <= Low(b)
    BY <1>1, <1>2, <2>1, SplitOrder DEF High, Low
  <2>3. Low(a) \in Nat /\ High(a) \in Nat /\ Low(b) \in Nat
    BY CutShape
  <2> QED
    BY <1>2, <2>2, <2>3 DEF Cut
<1>3. c < d \/ d < c \/ c = d
  BY <1>1
<1> QED
  BY <1>2, <1>3

LEMMA CutsCover ==
  ASSUME WorkTyped, NEW r \in 0..Total-1
  PROVE  \E c \in 0..NCut-1 : r \in Cut(c)
<1>1. Total \in Nat /\ NCut \in Nat \ {0}
  BY Shape
<1>2. PICK c \in 0..NCut-1 : Low(c) <= r /\ r < High(c)
  BY <1>1, SplitCovers DEF Low, High
<1> QED
  BY <1>2, CutShape DEF Cut

\* The lines and chunks stay while the job does.
LEMMA SameJob ==
  ASSUME UNCHANGED <<phase, tasks, chunks>>
  PROVE  /\ Total' = Total /\ NCut' = NCut /\ Claiming' = Claiming /\ Work!AllRows' = Work!AllRows
         /\ \A c : Low(c)' = Low(c) /\ High(c)' = High(c) /\ Cut(c)' = Cut(c)
<1>1. Work!AllRows' = Work!AllRows
  BY DEF Work!AllRows
<1>2. Total' = Total
  BY <1>1 DEF Total
<1>3. NCut' = NCut
  BY <1>2 DEF NCut, Work!NChunks
<1>4. \A c : Low(c)' = Low(c) /\ High(c)' = High(c)
  BY <1>2, <1>3 DEF Low, High, Work!Split
<1> QED
  BY <1>1, <1>2, <1>3, <1>4 DEF Cut, Claiming

\* the group of a line
LEMMA GroupOf ==
  ASSUME NEW r \in Nat
  PROVE  /\ Work!GroupAt(r) \in Nat \ {0}
         /\ (Work!GroupAt(r) - 1) * Rows <= r /\ r < Work!GroupAt(r) * Rows
<1>1. Rows \in Nat \ {0}
  BY ShapeAssumption
<1> DEFINE q == r \div Rows
<1>2. q \in Nat /\ Rows * q <= r /\ r < Rows * q + Rows
  BY <1>1, DivBounds
<1>3. Work!GroupAt(r) = q + 1
  BY DEF Work!GroupAt
<1> HIDE DEF q
<1>4. (q + 1) * Rows = Rows * q + Rows /\ ((q + 1) - 1) * Rows = Rows * q
  BY <1>1, <1>2
<1> QED
  BY <1>2, <1>3, <1>4

\* Two lines of different groups differ; a group's lines are Rows many.
LEMMA GroupLines ==
  ASSUME NEW g \in Nat \ {0}
  PROVE  /\ (g - 1) * Rows \in Nat /\ g * Rows = (g - 1) * Rows + Rows
         /\ Group(g) \subseteq Nat /\ IsFiniteSet(Group(g)) /\ Cardinality(Group(g)) = Rows
<1>1. Rows \in Nat \ {0}
  BY ShapeAssumption
<1>2. g - 1 \in Nat
  OBVIOUS
<1>3. (g - 1) * Rows \in Nat /\ g * Rows = (g - 1) * Rows + Rows
  BY <1>1, <1>2
<1> DEFINE a == (g - 1) * Rows
           b == g * Rows
<1>4. a \in Nat /\ b = a + Rows /\ Group(g) = a .. b - 1
  BY <1>3 DEF Group
<1> HIDE DEF a, b
<1>5. IsFiniteSet(Group(g)) /\ Cardinality(Group(g)) = Rows
  BY <1>1, <1>4, FS_Interval
<1> QED
  BY <1>3, <1>4, <1>5

LEMMA GroupUnique ==
  ASSUME NEW g \in Nat \ {0}, NEW r \in Group(g)
  PROVE  r \in Nat /\ Work!GroupAt(r) = g
<1>1. Rows \in Nat \ {0} /\ r \in Nat
  BY ShapeAssumption, GroupLines
<1> DEFINE h == Work!GroupAt(r)
<1>2. h \in Nat \ {0} /\ (h - 1) * Rows <= r /\ r < h * Rows
  BY <1>1, GroupOf
<1>3. (g - 1) * Rows <= r /\ r < g * Rows
  <2> DEFINE a == (g - 1) * Rows
             b == g * Rows
  <2>1. a \in Nat /\ b = a + Rows /\ r \in a .. b - 1
    BY GroupLines DEF Group
  <2> HIDE DEF a, b
  <2>2. a <= r /\ r < b
    BY <1>1, <2>1
  <2> QED
    BY <2>2 DEF a, b
<1> HIDE DEF h
<1>4. ASSUME NEW a \in Nat \ {0}, NEW b \in Nat \ {0}, a < b, (b - 1) * Rows <= r, r < a * Rows PROVE FALSE
  <2>1. Rows * a <= Rows * (b - 1)
    BY <1>1, <1>4, MulMono
  <2>2. Rows * a = a * Rows /\ Rows * (b - 1) = (b - 1) * Rows /\ Rows * a \in Nat /\ Rows * (b - 1) \in Nat
    BY <1>1
  <2> QED
    BY <1>1, <1>4, <2>1, <2>2
<1>5. g < h \/ h < g \/ g = h
  BY <1>2
<1> QED
  BY <1>1, <1>2, <1>3, <1>4, <1>5 DEF h

LEMMA GroupInside ==
  ASSUME WorkTyped, NEW g \in DOMAIN Work!Groups(tasks)
  PROVE  g \in Nat \ {0} /\ Group(g) \subseteq 0..Work!AllRows-1
<1>1. g \in Nat \ {0} /\ g <= Len(Work!Groups(tasks)) /\ Len(Work!Groups(tasks)) \in Nat /\ Rows \in Nat \ {0}
      /\ Work!AllRows = Len(Work!Groups(tasks)) * Rows
  BY Shape, ShapeAssumption
<1> DEFINE n == Len(Work!Groups(tasks))
<1>2. Rows * g <= Rows * n /\ Rows * g \in Nat /\ Rows * n \in Nat /\ Rows * g = g * Rows /\ Rows * n = n * Rows
  BY <1>1, MulMono
<1>3. \A r \in Group(g) : r \in Nat /\ r < g * Rows
  <2> DEFINE a == (g - 1) * Rows
             b == g * Rows
  <2>1. a \in Nat /\ b = a + Rows /\ Group(g) = a .. b - 1
    BY <1>1, GroupLines DEF Group
  <2> HIDE DEF a, b
  <2>2. \A r \in Group(g) : r \in Nat /\ r < b
    BY <1>1, <2>1
  <2> QED
    BY <2>2 DEF b
<1> QED
  BY <1>1, <1>2, <1>3

LEMMA GroupAtInside ==
  ASSUME WorkTyped, NEW r \in 0..Work!AllRows-1
  PROVE  Work!GroupAt(r) \in DOMAIN Work!Groups(tasks)
<1> DEFINE n == Len(Work!Groups(tasks))
           h == Work!GroupAt(r)
<1>1. n \in Nat /\ DOMAIN Work!Groups(tasks) = 1..n /\ Rows \in Nat \ {0} /\ Work!AllRows = n * Rows /\ Work!AllRows \in Nat
  BY Shape, ShapeAssumption
<1>2. r \in Nat /\ h \in Nat \ {0} /\ (h - 1) * Rows <= r
  <2>1. r \in Nat
    BY <1>1
  <2> QED
    BY <2>1, GroupOf
<1> HIDE DEF n, h
<1>3. SUFFICES ASSUME n < h PROVE FALSE
  BY <1>1, <1>2 DEF n, h
<1>4. Rows * n <= Rows * (h - 1) /\ Rows * n \in Nat /\ Rows * (h - 1) \in Nat
  BY <1>1, <1>2, <1>3, MulMono
<1>5. Rows * n = n * Rows /\ Rows * (h - 1) = (h - 1) * Rows
  BY <1>1, <1>2
<1> QED
  BY <1>1, <1>2, <1>4, <1>5

-----------------------------------------------------------------------------
(* The claims and the lines of a job *)

\* A thread that computes has claimed its chunk, and computes inside it.
LEMMA WorkingFacts ==
  ASSUME WorkTyped, ChunkHeld, Claiming, NEW p \in Work!Threads, Working(p)
  PROVE  /\ cur[p] \in 0..NCut-1 /\ Taken(cur[p])
         /\ at[p] \in Nat /\ end[p] \in Nat /\ at[p] <= end[p] /\ Low(cur[p]) <= at[p] /\ end[p] = High(cur[p])
         /\ end[p] <= Total
         /\ \A r \in Nat : at[p] <= r /\ r < end[p] => r \in Cut(cur[p])
         /\ \A q \in Work!Threads : cur[q] = cur[p] => q = p
<1>1. cur[p] \in 0..NCut-1 /\ Taken(cur[p]) /\ Low(cur[p]) <= at[p] /\ end[p] = High(cur[p])
      /\ \A q \in Work!Threads : cur[q] = cur[p] => q = p
  BY DEF ChunkHeld
<1>2. at[p] \in Nat /\ end[p] \in Nat /\ at[p] <= end[p]
  BY DEF WorkTyped
<1>3. Low(cur[p]) \in Nat /\ High(cur[p]) \in Nat /\ High(cur[p]) <= Total
  BY <1>1, CutShape
<1>4. \A r \in Nat : at[p] <= r /\ r < end[p] => r \in Cut(cur[p])
  BY <1>1, <1>2, <1>3 DEF Cut
<1> QED
  BY <1>1, <1>2, <1>3, <1>4

\* Lines of the chunk of p become ready, no other line changes.
Advances(p, till) ==
  /\ UNCHANGED <<phase, tasks, chunks, next, cur, end>>
  /\ at' = [at EXCEPT ![p] = till]
  /\ \A q \in Work!Threads : Working(q)' = Working(q) /\ (tpc'[q] = "done" <=> tpc[q] = "done")
  /\ \A r \in 0..Total-1 : IF at[p] <= r /\ r < till THEN Clean(r) => Ready(r)'
                                                     ELSE Clean(r)' = Clean(r) /\ Ready(r)' = Ready(r)

LEMMA LinesAdvance ==
  ASSUME WorkTyped, ChunkHeld, LinesOnce, Claiming, NEW p \in Work!Threads, Working(p),
         NEW till \in Nat, at[p] <= till, till <= end[p], Advances(p, till)
  PROVE  ChunkHeld' /\ LinesOnce'
<1>1. /\ cur[p] \in 0..NCut-1 /\ Taken(cur[p])
      /\ at[p] \in Nat /\ end[p] \in Nat /\ at[p] <= end[p] /\ Low(cur[p]) <= at[p] /\ end[p] = High(cur[p])
      /\ \A r \in Nat : at[p] <= r /\ r < end[p] => r \in Cut(cur[p])
      /\ \A q \in Work!Threads : cur[q] = cur[p] => q = p
  BY WorkingFacts
<1>2. /\ Total' = Total /\ NCut' = NCut /\ Claiming'
      /\ \A c : Low(c)' = Low(c) /\ High(c)' = High(c) /\ Cut(c)' = Cut(c)
  BY SameJob DEF Advances
<1>3. cur' = cur /\ end' = end /\ next' = next /\ chunks' = chunks /\ (\A c : Taken(c)' = Taken(c))
  BY DEF Advances, Taken
<1>4. at'[p] = till /\ \A q \in Work!Threads : q # p => at'[q] = at[q]
  BY DEF Advances, WorkTyped
<1>5. \A q \in Work!Threads : Working(q)' = Working(q) /\ (tpc'[q] = "done" <=> tpc[q] = "done")
  BY DEF Advances
<1>6. ASSUME NEW c \in 0..NCut-1, NEW r \in Cut(c)
      PROVE  /\ r \in 0..Total-1 /\ r \in Nat
             /\ c # cur[p] => ~(at[p] <= r /\ r < till)
  <2>1. r \in 0..Total-1 /\ r \in Nat
    <3>1. Low(c) \in Nat /\ High(c) \in Nat /\ High(c) <= Total /\ Total \in Nat
      BY CutShape, Shape
    <3> QED
      BY <3>1 DEF Cut
  <2>2. at[p] <= r /\ r < till => r \in Cut(cur[p])
    BY <1>1, <2>1
  <2> QED
    BY <1>1, <2>1, <2>2, CutsApart
<1>7. \A c \in 0..NCut-1 : \A r \in Cut(c) : c # cur[p] => Clean(r)' = Clean(r) /\ Ready(r)' = Ready(r)
  BY <1>6 DEF Advances
<1>8. ChunkHeld'
  <2>1. ASSUME NEW q \in Work!Threads, NEW c \in 0..NCut-1, Working(q), cur[q] = c PROVE Low(c) <= at'[q] /\ end[q] = High(c)
    <3>1. CASE q = p
      <4>1. Low(c) \in Nat
        BY CutShape
      <4> QED
        BY <1>1, <1>4, <2>1, <3>1, <4>1
    <3>2. CASE q # p
      BY <1>4, <2>1, <3>2 DEF ChunkHeld
    <3> QED
      BY <3>1, <3>2
  <2>2. \A q \in Work!Threads, c \in 0..NCut'-1 : Working(q)' /\ cur'[q] = c => Low(c)' <= at'[q] /\ end'[q] = High(c)'
    BY <1>2, <1>3, <1>5, <2>1
  <2>3. \A q \in Work!Threads, c \in 0..NCut'-1 : cur'[q] = c => Taken(c)'
    BY <1>2, <1>3 DEF ChunkHeld
  <2>4. \A q \in Work!Threads : cur'[q] # Work!NoChunk => cur'[q] \in 0..NCut'-1 /\ (chunks' = 1 => cur'[q] = q)
    BY <1>2, <1>3 DEF ChunkHeld
  <2>5. \A q, u \in Work!Threads : cur'[q] = cur'[u] /\ cur'[q] # Work!NoChunk => q = u
    BY <1>3 DEF ChunkHeld
  <2>6. \A q \in Work!Threads : Working(q)' => cur'[q] # Work!NoChunk
    BY <1>3, <1>5 DEF ChunkHeld
  <2>7. \A q \in Work!Threads : tpc'[q] = "done" => IF chunks' > 1 THEN NCut' <= next' ELSE cur'[q] # Work!NoChunk
    BY <1>2, <1>3, <1>5 DEF ChunkHeld
  <2> QED
    BY <2>2, <2>3, <2>4, <2>5, <2>6, <2>7 DEF ChunkHeld
<1>9. LinesOnce'
  <2>0. SUFFICES ASSUME NEW c \in 0..NCut-1, NEW r \in Cut(c)
                 PROVE  /\ ~Taken(c) => Clean(r)'
                        /\ \A q \in Work!Threads : Working(q) /\ cur[q] = c => IF r < at'[q] THEN Ready(r)' ELSE Clean(r)'
                        /\ Taken(c) /\ (\A q \in Work!Threads : Working(q) => cur[q] # c) => Ready(r)'
    BY <1>2, <1>3, <1>5 DEF LinesOnce
  <2>1. ASSUME ~Taken(c) PROVE Clean(r)'
    BY <1>1, <1>7, <2>1 DEF LinesOnce
  <2>2. ASSUME NEW q \in Work!Threads, Working(q), cur[q] = c PROVE IF r < at'[q] THEN Ready(r)' ELSE Clean(r)'
    <3>2. IF r < at[q] THEN Ready(r) ELSE Clean(r)
      BY <2>2 DEF LinesOnce
    <3>3. CASE q # p
      BY <1>1, <1>4, <1>7, <2>2, <3>2, <3>3
    <3>4. CASE q = p
      <4>1. r \in 0..Total-1 /\ r \in Nat
        BY <1>6
      <4>2. CASE r < at[p]
        <5>1. r < till /\ Ready(r)
          BY <1>1, <3>2, <3>4, <4>1, <4>2
        <5>2. Ready(r)' = Ready(r)
          BY <1>1, <4>1, <4>2 DEF Advances
        <5> QED
          BY <1>4, <3>4, <5>1, <5>2
      <4>3. CASE at[p] <= r /\ r < till
        <5>1. Clean(r)
          BY <1>1, <3>2, <3>4, <4>1, <4>3
        <5>2. Ready(r)'
          BY <4>1, <4>3, <5>1 DEF Advances
        <5> QED
          BY <1>4, <3>4, <4>3, <5>2
      <4>4. CASE till <= r
        <5>1. ~(r < till) /\ Clean(r)
          BY <1>1, <3>2, <3>4, <4>1, <4>4
        <5>2. Clean(r)' = Clean(r)
          BY <4>1, <5>1 DEF Advances
        <5> QED
          BY <1>4, <3>4, <5>1, <5>2
      <4> QED
        BY <1>1, <4>1, <4>2, <4>3, <4>4
    <3> QED
      BY <3>3, <3>4
  <2>3. ASSUME Taken(c), \A q \in Work!Threads : Working(q) => cur[q] # c PROVE Ready(r)'
    BY <1>7, <2>3 DEF LinesOnce
  <2> QED
    BY <2>1, <2>2, <2>3
<1> QED
  BY <1>8, <1>9

\* A claim hands out a chunk nobody had, or finds that none is left.
LEMMA ClaimedChunk ==
  ASSUME WorkTyped, ChunkHeld, Claiming, NEW p \in Work!Threads, tpc[p] = "claim"
  PROVE  /\ Work!Claimed(p) \in Nat
         /\ Work!Claimed(p) < NCut =>
              /\ Work!Claimed(p) \in 0..NCut-1 /\ ~Taken(Work!Claimed(p)) /\ (chunks = 1 => Work!Claimed(p) = p)
              /\ \A q \in Work!Threads : cur[q] # Work!Claimed(p)
         /\ ~(Work!Claimed(p) < NCut) => IF chunks > 1 THEN NCut <= next ELSE cur[p] # Work!NoChunk
<1>1. chunks \in Nat \ {0} /\ Work!Threads = 0..NThreads-1 /\ NThreads \in Nat \ {0} /\ NCut \in Nat \ {0} /\ next \in Nat
      /\ (~(chunks > 1) => NCut = NThreads /\ chunks = 1)
  BY Shape DEF WorkTyped
<1> DEFINE c == Work!Claimed(p)
<1>2. c = IF chunks > 1 THEN next ELSE IF cur[p] = Work!NoChunk THEN p ELSE NThreads
  BY DEF Work!Claimed
<1>3. p \in Nat /\ p < NThreads
  BY <1>1
<1> HIDE DEF c
<1>4. c \in Nat
  BY <1>1, <1>2, <1>3
<1>5. ~(c < NCut) => IF chunks > 1 THEN NCut <= next ELSE cur[p] # Work!NoChunk
  BY <1>1, <1>2, <1>3, <1>4
<1>6. ASSUME c < NCut PROVE ~Taken(c) /\ (chunks = 1 => c = p /\ cur[p] = Work!NoChunk)
  <2>1. CASE chunks > 1
    BY <1>1, <1>2, <2>1 DEF Taken
  <2>2. CASE ~(chunks > 1)
    <3>1. c = p /\ cur[p] = Work!NoChunk
      BY <1>1, <1>2, <1>3, <1>6, <2>2
    <3> QED
      BY <2>2, <3>1 DEF Taken
  <2> QED
    BY <2>1, <2>2
<1>7. c < NCut => c \in 0..NCut-1
  BY <1>1, <1>4
<1>8. ASSUME c < NCut, NEW q \in Work!Threads PROVE cur[q] # c
  BY <1>6, <1>7, <1>8 DEF ChunkHeld
<1> QED
  BY <1>4, <1>5, <1>6, <1>7, <1>8 DEF c

LEMMA ClaimLines ==
  ASSUME WorkTyped, ChunkHeld, LinesOnce, NEW p \in Work!Threads, Work!Claim(p)
  PROVE  ChunkHeld' /\ LinesOnce'
<1> DEFINE c == Work!Claimed(p)
<1>1. Claiming /\ tpc[p] = "claim" /\ UNCHANGED <<chunks, calls, phase, tasks, mine, xq, gu, rows_done, hq, out>>
  BY DEF Work!Claim, Claiming, Work!data
<1>2. /\ Total' = Total /\ NCut' = NCut /\ Claiming'
      /\ \A d : Low(d)' = Low(d) /\ High(d)' = High(d) /\ Cut(d)' = Cut(d)
  BY <1>1, SameJob
<1>3. \A r : Clean(r)' = Clean(r) /\ Ready(r)' = Ready(r)
  BY <1>1 DEF Clean, Ready
<1>4. chunks \in Nat \ {0} /\ NCut \in Nat \ {0} /\ next \in Nat /\ (~(chunks > 1) => chunks = 1) /\ Work!Threads = 0..NThreads-1
      /\ (~(chunks > 1) => NCut = NThreads)
  BY Shape DEF WorkTyped
<1>5. next' = IF chunks > 1 THEN next + 1 ELSE next
  BY DEF Work!Claim, Work!Advance
<1>6. /\ c \in Nat
      /\ c < NCut => c \in 0..NCut-1 /\ ~Taken(c) /\ (chunks = 1 => c = p) /\ \A q \in Work!Threads : cur[q] # c
      /\ ~(c < NCut) => IF chunks > 1 THEN NCut <= next ELSE cur[p] # Work!NoChunk
  BY <1>1, ClaimedChunk
<1>7. IF c < NCut
      THEN tpc' = [tpc EXCEPT ![p] = "rows"] /\ cur' = [cur EXCEPT ![p] = c]
           /\ at' = [at EXCEPT ![p] = Low(c)] /\ end' = [end EXCEPT ![p] = High(c)]
      ELSE tpc' = [tpc EXCEPT ![p] = "done"] /\ UNCHANGED <<cur, at, end>>
  BY DEF Work!Claim, NCut, Total, Low, High
<1> HIDE DEF c
<1>8. ~Working(p) /\ tpc[p] # "done"
  BY <1>1 DEF Working
<1>9. CASE c < NCut
  <2>1. /\ tpc'[p] = "rows" /\ cur'[p] = c /\ at'[p] = Low(c) /\ end'[p] = High(c)
        /\ \A q \in Work!Threads : q # p => tpc'[q] = tpc[q] /\ cur'[q] = cur[q] /\ at'[q] = at[q] /\ end'[q] = end[q]
    BY <1>7, <1>9 DEF WorkTyped
  <2>2. c \in 0..NCut-1 /\ c # Work!NoChunk /\ ~Taken(c) /\ (chunks = 1 => c = p)
    BY <1>6, <1>9 DEF Work!NoChunk
  <2>3. \A d \in 0..NCut-1 : Taken(d)' <=> (Taken(d) \/ d = c)
    <3>1. CASE chunks > 1
      <4>1. c = next
        BY <3>1 DEF c, Work!Claimed
      <4> QED
        BY <1>1, <1>4, <1>5, <3>1, <4>1 DEF Taken
    <3>2. CASE ~(chunks > 1)
      <4>1. c = p /\ \A d \in 0..NCut-1 : d \in Work!Threads
        BY <1>4, <2>2, <3>2
      <4> QED
        BY <1>1, <2>1, <2>2, <3>2, <4>1 DEF Taken
    <3> QED
      BY <3>1, <3>2
  <2>4. Working(p)' /\ \A q \in Work!Threads : q # p => Working(q)' = Working(q)
    BY <2>1 DEF Working
  <2>5. ChunkHeld'
    <3>1. \A q \in Work!Threads : cur'[q] # Work!NoChunk => cur'[q] \in 0..NCut'-1 /\ (chunks' = 1 => cur'[q] = q)
      BY <1>1, <1>2, <2>1, <2>2 DEF ChunkHeld
    <3>2. \A q, u \in Work!Threads : cur'[q] = cur'[u] /\ cur'[q] # Work!NoChunk => q = u
      BY <1>1, <1>6, <1>9, <2>1 DEF ChunkHeld
    <3>3. \A q \in Work!Threads : Working(q)' => cur'[q] # Work!NoChunk
      BY <1>1, <2>1, <2>2, <2>4 DEF ChunkHeld
    <3>4. \A q \in Work!Threads, d \in 0..NCut'-1 : cur'[q] = d => Taken(d)'
      BY <1>1, <1>2, <2>1, <2>3 DEF ChunkHeld
    <3>5. \A q \in Work!Threads, d \in 0..NCut'-1 : Working(q)' /\ cur'[q] = d => Low(d)' <= at'[q] /\ end'[q] = High(d)'
      <4> SUFFICES ASSUME NEW q \in Work!Threads, NEW d \in 0..NCut-1, Working(q)', cur'[q] = d
                   PROVE  Low(d) <= at'[q] /\ end'[q] = High(d)
        BY <1>2
      <4>1. CASE q = p
        BY <2>1, <4>1, CutShape
      <4>2. CASE q # p
        BY <1>1, <2>1, <2>4, <4>2 DEF ChunkHeld
      <4> QED
        BY <4>1, <4>2
    <3>6. \A q \in Work!Threads : tpc'[q] = "done" => IF chunks' > 1 THEN NCut' <= next' ELSE cur'[q] # Work!NoChunk
      BY <1>1, <1>2, <1>4, <1>5, <2>1 DEF ChunkHeld
    <3> QED
      BY <3>1, <3>2, <3>3, <3>4, <3>5, <3>6 DEF ChunkHeld
  <2>6. LinesOnce'
    <3> SUFFICES ASSUME NEW d \in 0..NCut-1, NEW r \in Cut(d)
                 PROVE  /\ ~Taken(d)' => Clean(r)
                        /\ \A q \in Work!Threads : Working(q)' /\ cur'[q] = d => IF r < at'[q] THEN Ready(r) ELSE Clean(r)
                        /\ Taken(d)' /\ (\A q \in Work!Threads : Working(q)' => cur'[q] # d) => Ready(r)
      BY <1>2, <1>3 DEF LinesOnce
    <3>1. /\ ~Taken(d) => Clean(r)
          /\ \A q \in Work!Threads : Working(q) /\ cur[q] = d => IF r < at[q] THEN Ready(r) ELSE Clean(r)
          /\ Taken(d) /\ (\A q \in Work!Threads : Working(q) => cur[q] # d) => Ready(r)
      BY <1>1 DEF LinesOnce
    <3>2. ~Taken(d)' => Clean(r)
      BY <2>3, <3>1
    <3>3. ASSUME NEW q \in Work!Threads, Working(q)', cur'[q] = d PROVE IF r < at'[q] THEN Ready(r) ELSE Clean(r)
      <4>1. CASE q = p
        <5>1. d = c /\ Clean(r)
          BY <2>1, <2>2, <3>1, <3>3, <4>1
        <5>2. ~(r < Low(d))
          <6>1. Low(d) \in Nat /\ High(d) \in Nat
            BY CutShape
          <6> QED
            BY <6>1 DEF Cut
        <5> QED
          BY <2>1, <4>1, <5>1, <5>2
      <4>2. CASE q # p
        BY <2>1, <2>4, <3>1, <3>3, <4>2
      <4> QED
        BY <4>1, <4>2
    <3>4. ASSUME Taken(d)', \A q \in Work!Threads : Working(q)' => cur'[q] # d PROVE Ready(r)
      <4>1. d # c /\ Taken(d)
        BY <2>1, <2>3, <2>4, <3>4
      <4>2. \A q \in Work!Threads : Working(q) => cur[q] # d
        BY <1>8, <2>1, <2>4, <3>4
      <4> QED
        BY <3>1, <4>1, <4>2
    <3> QED
      BY <3>2, <3>3, <3>4
  <2> QED
    BY <2>5, <2>6
<1>10. CASE ~(c < NCut)
  <2>1. /\ tpc'[p] = "done" /\ cur' = cur /\ at' = at /\ end' = end
        /\ \A q \in Work!Threads : q # p => tpc'[q] = tpc[q]
    BY <1>7, <1>10 DEF WorkTyped
  <2>2. IF chunks > 1 THEN NCut <= next ELSE cur[p] # Work!NoChunk
    BY <1>6, <1>10
  <2>3. \A d \in 0..NCut-1 : Taken(d)' <=> Taken(d)
    BY <1>1, <1>4, <1>5, <2>1, <2>2 DEF Taken
  <2>4. \A q \in Work!Threads : Working(q)' = Working(q)
    BY <1>8, <2>1 DEF Working
  <2>5. \A q \in Work!Threads : tpc'[q] = "done" => IF chunks' > 1 THEN NCut' <= next' ELSE cur'[q] # Work!NoChunk
    BY <1>1, <1>2, <1>4, <1>5, <2>1, <2>2 DEF ChunkHeld
  <2>6. ChunkHeld'
    <3>1. \A q \in Work!Threads : cur'[q] # Work!NoChunk => cur'[q] \in 0..NCut'-1 /\ (chunks' = 1 => cur'[q] = q)
      BY <1>1, <1>2, <2>1 DEF ChunkHeld
    <3>2. \A q, u \in Work!Threads : cur'[q] = cur'[u] /\ cur'[q] # Work!NoChunk => q = u
      BY <1>1, <2>1 DEF ChunkHeld
    <3>3. \A q \in Work!Threads : Working(q)' => cur'[q] # Work!NoChunk
      BY <1>1, <2>1, <2>4 DEF ChunkHeld
    <3>4. \A q \in Work!Threads, d \in 0..NCut'-1 : cur'[q] = d => Taken(d)'
      BY <1>1, <1>2, <2>1, <2>3 DEF ChunkHeld
    <3>5. \A q \in Work!Threads, d \in 0..NCut'-1 : Working(q)' /\ cur'[q] = d => Low(d)' <= at'[q] /\ end'[q] = High(d)'
      BY <1>1, <1>2, <2>1, <2>4 DEF ChunkHeld
    <3> QED
      BY <3>1, <3>2, <3>3, <3>4, <3>5, <2>5 DEF ChunkHeld
  <2>7. LinesOnce'
    BY <1>1, <1>2, <1>3, <2>1, <2>3, <2>4 DEF LinesOnce
  <2> QED
    BY <2>6, <2>7
<1> QED
  BY <1>9, <1>10

LEMMA RangeDoneLines ==
  ASSUME WorkTyped, ChunkHeld, LinesOnce, NEW p \in Work!Threads, Work!RangeDone(p)
  PROVE  ChunkHeld' /\ LinesOnce'
<1>1. Claiming /\ tpc[p] = "rows" /\ at[p] = end[p] /\ tpc' = [tpc EXCEPT ![p] = "claim"]
      /\ UNCHANGED <<chunks, calls, phase, tasks, next, cur, at, end, mine, xq, gu, rows_done, hq, out>>
  BY DEF Work!RangeDone, Claiming, Work!data
<1>2. /\ Total' = Total /\ NCut' = NCut /\ Claiming'
      /\ \A d : Low(d)' = Low(d) /\ High(d)' = High(d) /\ Cut(d)' = Cut(d)
  BY <1>1, SameJob
<1>3. \A r : Clean(r)' = Clean(r) /\ Ready(r)' = Ready(r)
  BY <1>1 DEF Clean, Ready
<1>4. (\A d : Taken(d)' = Taken(d)) /\ Working(p)
  BY <1>1 DEF Taken, Working
<1>5. tpc'[p] = "claim" /\ \A q \in Work!Threads : q # p => tpc'[q] = tpc[q]
  BY <1>1 DEF WorkTyped
<1>6. ~Working(p)' /\ \A q \in Work!Threads : (q # p => Working(q)' = Working(q)) /\ (Working(q)' => Working(q))
                                             /\ (tpc'[q] = "done" => tpc[q] = "done")
  BY <1>4, <1>5 DEF Working
<1>7. ChunkHeld'
  <2>1. \A q \in Work!Threads : cur'[q] # Work!NoChunk => cur'[q] \in 0..NCut'-1 /\ (chunks' = 1 => cur'[q] = q)
    BY <1>1, <1>2 DEF ChunkHeld
  <2>2. \A q, u \in Work!Threads : cur'[q] = cur'[u] /\ cur'[q] # Work!NoChunk => q = u
    BY <1>1 DEF ChunkHeld
  <2>3. \A q \in Work!Threads : Working(q)' => cur'[q] # Work!NoChunk
    BY <1>1, <1>6 DEF ChunkHeld
  <2>4. \A q \in Work!Threads, d \in 0..NCut'-1 : cur'[q] = d => Taken(d)'
    BY <1>1, <1>2, <1>4 DEF ChunkHeld
  <2>5. \A q \in Work!Threads, d \in 0..NCut'-1 : Working(q)' /\ cur'[q] = d => Low(d)' <= at'[q] /\ end'[q] = High(d)'
    BY <1>1, <1>2, <1>6 DEF ChunkHeld
  <2>6. \A q \in Work!Threads : tpc'[q] = "done" => IF chunks' > 1 THEN NCut' <= next' ELSE cur'[q] # Work!NoChunk
    BY <1>1, <1>2, <1>6 DEF ChunkHeld
  <2> QED
    BY <2>1, <2>2, <2>3, <2>4, <2>5, <2>6 DEF ChunkHeld
<1>8. LinesOnce'
  <2> SUFFICES ASSUME NEW d \in 0..NCut-1, NEW r \in Cut(d)
               PROVE  /\ ~Taken(d) => Clean(r)
                      /\ \A q \in Work!Threads : Working(q)' /\ cur[q] = d => IF r < at[q] THEN Ready(r) ELSE Clean(r)
                      /\ Taken(d) /\ (\A q \in Work!Threads : Working(q)' => cur[q] # d) => Ready(r)
    BY <1>1, <1>2, <1>3, <1>4 DEF LinesOnce
  <2>1. /\ ~Taken(d) => Clean(r)
        /\ \A q \in Work!Threads : Working(q) /\ cur[q] = d => IF r < at[q] THEN Ready(r) ELSE Clean(r)
        /\ Taken(d) /\ (\A q \in Work!Threads : Working(q) => cur[q] # d) => Ready(r)
    BY <1>1 DEF LinesOnce
  <2>2. ASSUME Taken(d), \A q \in Work!Threads : Working(q)' => cur[q] # d PROVE Ready(r)
    <3>1. CASE cur[p] = d
      <4>1. end[p] = High(d) /\ Low(d) \in Nat /\ High(d) \in Nat
        BY <1>1, <1>4, <3>1, CutShape DEF ChunkHeld
      <4>2. r < at[p]
        BY <1>1, <4>1 DEF Cut
      <4> QED
        BY <1>4, <2>1, <3>1, <4>2
    <3>2. CASE cur[p] # d
      BY <1>6, <2>1, <2>2, <3>2
    <3> QED
      BY <3>1, <3>2
  <2> QED
    BY <1>6, <2>1, <2>2
<1> QED
  BY <1>7, <1>8

-----------------------------------------------------------------------------
(* The counters of the groups *)

\* Only p moves, and neither from nor to the counting of a group.
CountersRest ==
  /\ UNCHANGED <<phase, tasks, chunks, gu, rows_done, hq, mine>>
  /\ \A q \in Work!Threads : /\ tpc'[q] = "count" <=> tpc[q] = "count"
                             /\ tpc'[q] = "swiglu" <=> tpc[q] = "swiglu"
                             /\ tpc[q] \in {"count", "swiglu"} => at'[q] = at[q] /\ cur'[q] = cur[q]

LEMMA CountersStay ==
  ASSUME MineRight, CountsRight, CountersRest
  PROVE  MineRight' /\ CountsRight'
<1>1. NCut' = NCut /\ \A c : Low(c)' = Low(c)
  BY SameJob DEF CountersRest
<1>2. \A q \in Work!Threads : tpc'[q] \in {"count", "swiglu"} <=> tpc[q] \in {"count", "swiglu"}
  BY DEF CountersRest
<1>3. MineRight'
  <2> SUFFICES ASSUME NEW q \in Work!Threads, tpc'[q] \in {"count", "swiglu"}
               PROVE  /\ phase' = "gateup"
                      /\ mine'[q].lo < mine'[q].hi /\ mine'[q].hi = at'[q] /\ (\A c \in 0..NCut'-1 : cur'[q] = c => Low(c)' <= mine'[q].lo)
                      /\ mine'[q].hi <= Work!GroupAt(mine'[q].lo) * Rows
    BY DEF MineRight
  <2>1. mine' = mine /\ phase' = phase /\ at'[q] = at[q] /\ cur'[q] = cur[q] /\ tpc[q] \in {"count", "swiglu"}
    BY <1>2 DEF CountersRest
  <2> QED
    BY <1>1, <2>1 DEF MineRight
<1>4. \A g : Counted(g)' = Counted(g)
  <2>1. \A r : Uncounted(r)' = Uncounted(r)
    BY DEF Uncounted, CountersRest
  <2> QED
    BY <2>1 DEF Counted, CountersRest, Group
<1>5. \A q \in Work!Threads : \A g : AtSwiGlu(q, g)' = AtSwiGlu(q, g)
  BY DEF AtSwiGlu, CountersRest
<1>6. CountsRight'
  BY <1>4, <1>5 DEF CountsRight, CountersRest
<1> QED
  BY <1>3, <1>6

\* The lines a counting thread holds: its own, computed, of one group.
LEMMA MineFacts ==
  ASSUME WorkTyped, ChunkHeld, LinesOnce, MineRight, NEW p \in Work!Threads, tpc[p] \in {"count", "swiglu"}
  PROVE  /\ phase = "gateup" /\ Claiming /\ Working(p)
         /\ mine[p].lo \in Nat /\ mine[p].hi \in Nat /\ mine[p].lo < mine[p].hi
         /\ Work!GroupAt(mine[p].lo) \in DOMAIN Work!Groups(tasks)
         /\ \A r \in Nat : mine[p].lo <= r /\ r < mine[p].hi =>
              /\ r \in Cut(cur[p]) /\ r \in Group(Work!GroupAt(mine[p].lo)) /\ gu[r] = 1
              /\ \A q \in Work!Threads : tpc[q] = "count" /\ mine[q].lo <= r /\ r < mine[q].hi => q = p
<1>1. phase = "gateup" /\ Claiming /\ Working(p)
  BY DEF MineRight, Claiming, Working
<1>2. \A q \in Work!Threads : mine[q].lo \in Nat /\ mine[q].hi \in Nat
  BY DEF WorkTyped
<1>3. ASSUME NEW q \in Work!Threads, tpc[q] \in {"count", "swiglu"}
      PROVE  /\ mine[q].lo < mine[q].hi /\ mine[q].hi = at[q]
             /\ mine[q].hi <= Work!GroupAt(mine[q].lo) * Rows
             /\ cur[q] \in 0..NCut-1 /\ Working(q) /\ at[q] <= end[q] /\ end[q] <= Total
             /\ \A r \in Nat : mine[q].lo <= r /\ r < mine[q].hi => r \in Cut(cur[q])
  <2>1. Working(q)
    BY <1>3 DEF Working
  <2>2. cur[q] \in 0..NCut-1 /\ end[q] = High(cur[q]) /\ at[q] \in Nat /\ end[q] \in Nat /\ at[q] <= end[q] /\ end[q] <= Total
    BY <1>1, <2>1, WorkingFacts
  <2>3. mine[q].lo < mine[q].hi /\ mine[q].hi = at[q] /\ Low(cur[q]) <= mine[q].lo /\ mine[q].hi <= Work!GroupAt(mine[q].lo) * Rows
    BY <1>3, <2>2 DEF MineRight
  <2>4. Low(cur[q]) \in Nat /\ High(cur[q]) \in Nat
    BY <2>2, CutShape
  <2>5. \A r \in Nat : mine[q].lo <= r /\ r < mine[q].hi => r \in Cut(cur[q])
    BY <1>2, <2>2, <2>3, <2>4 DEF Cut
  <2> QED
    BY <2>1, <2>2, <2>3, <2>5
<1>4. Total \in Nat /\ Total = Work!AllRows /\ at[p] \in Nat /\ end[p] \in Nat
  BY <1>1, Shape DEF Total, WorkTyped
<1>5. mine[p].lo \in 0..Work!AllRows-1
  BY <1>2, <1>3, <1>4
<1>6. Work!GroupAt(mine[p].lo) \in DOMAIN Work!Groups(tasks)
  BY <1>5, GroupAtInside
<1>7. ASSUME NEW r \in Nat, mine[p].lo <= r, r < mine[p].hi
      PROVE  /\ r \in Cut(cur[p]) /\ r \in Group(Work!GroupAt(mine[p].lo)) /\ gu[r] = 1
             /\ \A q \in Work!Threads : tpc[q] = "count" /\ mine[q].lo <= r /\ r < mine[q].hi => q = p
  <2>1. r \in Cut(cur[p]) /\ cur[p] \in 0..NCut-1
    BY <1>3, <1>7
  <2>2. gu[r] = 1
    <3>1. Ready(r)
      BY <1>1, <1>3, <1>7, <2>1 DEF LinesOnce
    <3> QED
      BY <1>1, <3>1 DEF Ready
  <2>3. r \in Group(Work!GroupAt(mine[p].lo))
    <3> DEFINE h == Work!GroupAt(mine[p].lo)
               a == (h - 1) * Rows
               b == h * Rows
    <3>1. a \in Nat /\ b = a + Rows /\ Rows \in Nat /\ a <= mine[p].lo /\ mine[p].hi <= b
      <4>1. h \in Nat \ {0} /\ a <= mine[p].lo
        BY <1>2, GroupOf
      <4>2. a \in Nat /\ b = a + Rows
        <5> HIDE DEF h
        <5> QED
          BY <4>1, GroupLines
      <4> QED
        BY <1>3, <4>1, <4>2, ShapeAssumption
    <3>2. Group(h) = a .. b - 1
      BY DEF Group
    <3> HIDE DEF a, b, h
    <3>3. r \in Group(h)
      BY <1>2, <1>7, <3>1, <3>2
    <3> QED
      BY <3>3 DEF h
  <2>4. ASSUME NEW q \in Work!Threads, tpc[q] = "count", mine[q].lo <= r, r < mine[q].hi PROVE q = p
    <3>1. r \in Cut(cur[q]) /\ cur[q] \in 0..NCut-1
      BY <1>3, <2>4
    <3>2. cur[q] = cur[p]
      BY <2>1, <3>1, CutsApart
    <3> QED
      BY <1>1, <3>2, WorkingFacts
  <2> QED
    BY <2>1, <2>2, <2>3, <2>4
<1> QED
  BY <1>1, <1>2, <1>3, <1>6, <1>7

-----------------------------------------------------------------------------
(* The steps of a thread *)

LEMMA ClaimInv ==
  ASSUME WInv, NEW p \in Work!Threads, Work!Claim(p)
  PROVE  WInv'
<1> USE DEF WInv
<1>1. /\ Claiming /\ phase # "quantize" /\ phase # "idle" /\ tpc[p] = "claim"
      /\ UNCHANGED <<chunks, calls, phase, tasks, mine, xq, gu, rows_done, hq, out>>
  BY DEF Work!Claim, Claiming, Work!data
<1>2. ChunkHeld' /\ LinesOnce'
  BY ClaimLines
<1>3. /\ next' \in Nat
      /\ \/ tpc' = [tpc EXCEPT ![p] = "done"] /\ UNCHANGED <<cur, at, end>>
         \/ /\ tpc' = [tpc EXCEPT ![p] = "rows"]
            /\ \E c \in 0..NCut-1 : cur' = [cur EXCEPT ![p] = c] /\ at' = [at EXCEPT ![p] = Low(c)] /\ end' = [end EXCEPT ![p] = High(c)]
  <2> DEFINE c == Work!Claimed(p)
  <2>1. next' \in Nat
    BY DEF Work!Claim, Work!Advance, WorkTyped
  <2>2. c < NCut => c \in 0..NCut-1
    BY <1>1, ClaimedChunk
  <2>3. IF c < NCut
        THEN tpc' = [tpc EXCEPT ![p] = "rows"] /\ cur' = [cur EXCEPT ![p] = c]
             /\ at' = [at EXCEPT ![p] = Low(c)] /\ end' = [end EXCEPT ![p] = High(c)]
        ELSE tpc' = [tpc EXCEPT ![p] = "done"] /\ UNCHANGED <<cur, at, end>>
    BY DEF Work!Claim, NCut, Total, Low, High
  <2> HIDE DEF c
  <2> QED
    BY <2>1, <2>2, <2>3
<1>4. WorkTyped'
  <2>1. Work!AllRows' = Work!AllRows
    BY <1>1, SameJob
  <2>2. \A c \in 0..NCut-1 : Low(c) \in Nat /\ High(c) \in Nat /\ Low(c) <= High(c) /\ c \in Int
    BY CutShape
  <2>3. /\ tpc' \in [Work!Threads -> {"claim", "rows", "count", "swiglu", "done"}]
        /\ cur' \in [Work!Threads -> Int] /\ at' \in [Work!Threads -> Nat] /\ end' \in [Work!Threads -> Nat]
        /\ \A q \in Work!Threads : at'[q] <= end'[q]
    <3>1. CASE tpc' = [tpc EXCEPT ![p] = "done"] /\ UNCHANGED <<cur, at, end>>
      BY <3>1 DEF WorkTyped
    <3>2. ASSUME NEW c \in 0..NCut-1, tpc' = [tpc EXCEPT ![p] = "rows"],
                 cur' = [cur EXCEPT ![p] = c], at' = [at EXCEPT ![p] = Low(c)], end' = [end EXCEPT ![p] = High(c)]
          PROVE  /\ tpc' \in [Work!Threads -> {"claim", "rows", "count", "swiglu", "done"}]
                 /\ cur' \in [Work!Threads -> Int] /\ at' \in [Work!Threads -> Nat] /\ end' \in [Work!Threads -> Nat]
                 /\ \A q \in Work!Threads : at'[q] <= end'[q]
      <4>1. tpc' \in [Work!Threads -> {"claim", "rows", "count", "swiglu", "done"}]
        BY <3>2 DEF WorkTyped
      <4>2. cur' \in [Work!Threads -> Int] /\ at' \in [Work!Threads -> Nat] /\ end' \in [Work!Threads -> Nat]
        BY <2>2, <3>2 DEF WorkTyped
      <4>3. \A q \in Work!Threads : at'[q] <= end'[q]
        BY <2>2, <3>2 DEF WorkTyped
      <4> QED
        BY <4>1, <4>2, <4>3
    <3> QED
      BY <1>3, <3>1, <3>2
  <2> QED
    BY <1>1, <1>3, <2>1, <2>3 DEF WorkTyped
<1>5. CountersRest
  <2>1. \A q \in Work!Threads : q # p => tpc'[q] = tpc[q] /\ at'[q] = at[q] /\ cur'[q] = cur[q]
    BY <1>3 DEF WorkTyped
  <2>2. tpc'[p] \in {"rows", "done"}
    BY <1>3 DEF WorkTyped
  <2> QED
    BY <1>1, <2>1, <2>2 DEF CountersRest
<1>6. MineRight' /\ CountsRight'
  BY <1>5, CountersStay
<1>7. FirstJob' /\ LeftBehind'
  BY <1>1 DEF FirstJob, LeftBehind, Work!Tokens
<1> QED
  BY <1>2, <1>4, <1>6, <1>7

LEMMA RangeDoneInv ==
  ASSUME WInv, NEW p \in Work!Threads, Work!RangeDone(p)
  PROVE  WInv'
<1> USE DEF WInv
<1>1. /\ phase # "quantize" /\ phase # "idle" /\ tpc[p] = "rows" /\ tpc' = [tpc EXCEPT ![p] = "claim"]
      /\ UNCHANGED <<chunks, calls, phase, tasks, next, cur, at, end, mine, xq, gu, rows_done, hq, out>>
  BY DEF Work!RangeDone, Work!data
<1>2. ChunkHeld' /\ LinesOnce'
  BY RangeDoneLines
<1>3. tpc' \in [Work!Threads -> {"claim", "rows", "count", "swiglu", "done"}] /\ tpc'[p] = "claim"
      /\ \A q \in Work!Threads : q # p => tpc'[q] = tpc[q]
  BY <1>1 DEF WorkTyped
<1>4. WorkTyped'
  <2>1. Work!AllRows' = Work!AllRows
    BY <1>1, SameJob
  <2> QED
    BY <1>1, <1>3, <2>1 DEF WorkTyped
<1>5. CountersRest
  BY <1>1, <1>3 DEF CountersRest
<1>6. MineRight' /\ CountsRight'
  BY <1>5, CountersStay
<1>7. FirstJob' /\ LeftBehind'
  BY <1>1 DEF FirstJob, LeftBehind, Work!Tokens
<1> QED
  BY <1>2, <1>4, <1>6, <1>7

LEMMA OutputRowInv ==
  ASSUME WInv, NEW p \in Work!Threads, Work!OutputRow(p)
  PROVE  WInv'
<1> USE DEF WInv
<1>1. /\ phase = "output" /\ Claiming /\ tpc[p] = "rows" /\ Working(p) /\ at[p] < end[p]
      /\ UNCHANGED <<chunks, calls, phase, tasks, next, tpc, cur, end, mine, xq, gu, rows_done, hq>>
      /\ at' = [at EXCEPT ![p] = at[p] + 1]
      /\ out' = [x \in DOMAIN out |-> IF x[2] = at[p] THEN out[x] \o Work!TasksOf(tasks, x[1]) ELSE out[x]]
  BY DEF Work!OutputRow, Claiming, Working
<1>2. at[p] \in Nat /\ end[p] \in Nat /\ at[p] + 1 \in Nat /\ at[p] <= at[p] + 1 /\ at[p] + 1 <= end[p]
  BY <1>1 DEF WorkTyped
<1>3. \A t \in 0..Window-1, r \in 0..OutRows-1 :
        out'[<<t, r>>] = IF r = at[p] THEN out[<<t, r>>] \o Work!TasksOf(tasks, t) ELSE out[<<t, r>>]
  <2>1. DOMAIN out = (0..Window-1) \X (0..OutRows-1)
    BY DEF WorkTyped
  <2> QED
    BY <1>1, <2>1
<1>4. Total = OutRows /\ OutRows \in Nat /\ tasks \in Listed
  BY <1>1, Shape DEF Total
<1>5. Advances(p, at[p] + 1)
  <2>1. ASSUME NEW r \in 0..Total-1
        PROVE  IF at[p] <= r /\ r < at[p] + 1 THEN Clean(r) => Ready(r)' ELSE Clean(r)' = Clean(r) /\ Ready(r)' = Ready(r)
    <3>1. (at[p] <= r /\ r < at[p] + 1) <=> r = at[p]
      BY <1>2, <1>4
    <3>2. CASE r = at[p]
      <4>1. ASSUME Clean(r) PROVE Ready(r)'
        <5>1. \A t \in 0..Window-1 : out'[<<t, r>>] = <<>> \o Work!TasksOf(tasks, t)
          BY <1>1, <1>3, <1>4, <3>2, <4>1 DEF Clean
        <5>2. \A t \in 0..Window-1 : out'[<<t, r>>] = Work!TasksOf(tasks, t)
          BY <1>4, <5>1, TasksOfSeq
        <5> QED
          BY <1>1, <5>2 DEF Ready
      <4> QED
        BY <3>1, <3>2, <4>1
    <3>3. CASE r # at[p]
      <4>1. \A t \in 0..Window-1 : out'[<<t, r>>] = out[<<t, r>>]
        BY <1>3, <1>4, <3>3
      <4>2. Clean(r)' = Clean(r) /\ Ready(r)' = Ready(r)
        BY <1>1, <4>1 DEF Clean, Ready
      <4> QED
        BY <3>1, <3>3, <4>2
    <3> QED
      BY <3>2, <3>3
  <2>2. \A q \in Work!Threads : Working(q)' = Working(q) /\ (tpc'[q] = "done" <=> tpc[q] = "done")
    BY <1>1 DEF Working
  <2> QED
    BY <1>1, <2>1, <2>2 DEF Advances
<1>6. ChunkHeld' /\ LinesOnce'
  BY <1>1, <1>2, <1>5, LinesAdvance
<1>7. WorkTyped'
  <2>1. Work!AllRows' = Work!AllRows
    BY <1>1, SameJob
  <2>2. at' \in [Work!Threads -> Nat] /\ \A q \in Work!Threads : at'[q] <= end'[q]
    BY <1>1, <1>2 DEF WorkTyped
  <2>3. out' = [x \in (0..Window-1) \X (0..OutRows-1) |-> out'[x]]
    BY <1>1 DEF WorkTyped
  <2> QED
    BY <1>1, <2>1, <2>2, <2>3 DEF WorkTyped
<1>8. CountersRest
  BY <1>1 DEF CountersRest, WorkTyped
<1>9. MineRight' /\ CountsRight'
  BY <1>8, CountersStay
<1>10. FirstJob' /\ LeftBehind'
  BY <1>1 DEF FirstJob, LeftBehind
<1> QED
  BY <1>6, <1>7, <1>9, <1>10

LEMMA GateUpRowsInv ==
  ASSUME WInv, NEW p \in Work!Threads, Work!GateUpRows(p)
  PROVE  WInv'
<1> USE DEF WInv
<1> DEFINE g == Work!GroupAt(at[p])
           till == Work!Min2(end[p], g * Rows)
<1>1. /\ phase = "gateup" /\ Claiming /\ tpc[p] = "rows" /\ Working(p) /\ at[p] < end[p]
      /\ UNCHANGED <<chunks, calls, phase, tasks, next, cur, end, xq, rows_done, hq, out>>
      /\ tpc' = [tpc EXCEPT ![p] = "count"]
      /\ at' = [at EXCEPT ![p] = till] /\ mine' = [mine EXCEPT ![p] = [lo |-> at[p], hi |-> till]]
      /\ gu' = [r \in DOMAIN gu |-> IF at[p] <= r /\ r < till THEN gu[r] + 1 ELSE gu[r]]
  BY DEF Work!GateUpRows, Claiming, Working
<1>2. at[p] \in Nat /\ end[p] \in Nat /\ end[p] <= Total /\ Total = Work!AllRows /\ Total \in Nat
  BY <1>1, WorkingFacts, Shape DEF Total
<1>3. till \in Nat /\ at[p] < till /\ till <= end[p] /\ till <= g * Rows
  <2>1. g \in Nat \ {0} /\ at[p] < g * Rows
    BY <1>2, GroupOf
  <2>2. g * Rows \in Nat
    <3> HIDE DEF g
    <3>1. Rows \in Nat
      BY ShapeAssumption
    <3> QED
      BY <2>1, <3>1
  <2> HIDE DEF g
  <2> QED
    BY <1>1, <1>2, <2>1, <2>2 DEF Work!Min2
<1> HIDE DEF till
<1>4. DOMAIN gu = 0..Total-1 /\ gu \in [0..Total-1 -> Nat]
  BY <1>2 DEF WorkTyped
<1>5. \A r \in 0..Total-1 : gu'[r] = IF at[p] <= r /\ r < till THEN gu[r] + 1 ELSE gu[r]
  BY <1>1, <1>4
<1>6. tpc'[p] = "count" /\ mine'[p] = [lo |-> at[p], hi |-> till] /\ at'[p] = till
      /\ \A q \in Work!Threads : q # p => tpc'[q] = tpc[q] /\ mine'[q] = mine[q] /\ at'[q] = at[q]
  BY <1>1 DEF WorkTyped
<1>7. Advances(p, till)
  <2>1. \A q \in Work!Threads : Working(q)' = Working(q) /\ (tpc'[q] = "done" <=> tpc[q] = "done")
    BY <1>1, <1>6 DEF Working
  <2>2. ASSUME NEW r \in 0..Total-1
        PROVE  IF at[p] <= r /\ r < till THEN Clean(r) => Ready(r)' ELSE Clean(r)' = Clean(r) /\ Ready(r)' = Ready(r)
    BY <1>1, <1>5 DEF Clean, Ready
  <2> QED
    BY <1>1, <2>1, <2>2 DEF Advances
<1>8. ChunkHeld' /\ LinesOnce'
  BY <1>1, <1>2, <1>3, <1>7, LinesAdvance
<1>9. WorkTyped'
  <2>1. Work!AllRows' = Work!AllRows
    BY <1>1, SameJob
  <2>2. gu' \in [0..Total-1 -> Nat]
    <3>1. gu' = [r \in 0..Total-1 |-> gu'[r]]
      BY <1>1, <1>4
    <3>2. \A r \in 0..Total-1 : gu'[r] \in Nat
      BY <1>4, <1>5
    <3> QED
      BY <3>1, <3>2
  <2>3. at' \in [Work!Threads -> Nat] /\ mine' \in [Work!Threads -> [lo : Nat, hi : Nat]]
    BY <1>1, <1>2, <1>3 DEF WorkTyped
  <2>4. \A q \in Work!Threads : at'[q] <= end'[q] /\ mine'[q].lo <= mine'[q].hi
    BY <1>1, <1>2, <1>3, <1>6 DEF WorkTyped
  <2>5. tpc' \in [Work!Threads -> {"claim", "rows", "count", "swiglu", "done"}]
    BY <1>1 DEF WorkTyped
  <2> QED
    BY <1>1, <1>2, <2>1, <2>2, <2>3, <2>4, <2>5 DEF WorkTyped
<1>10. MineRight'
  <2>1. NCut' = NCut /\ \A c : Low(c)' = Low(c)
    BY <1>1, SameJob
  <2>2. \A c \in 0..NCut-1 : cur[p] = c => Low(c) <= at[p]
    BY <1>1 DEF ChunkHeld
  <2> SUFFICES ASSUME NEW q \in Work!Threads, tpc'[q] \in {"count", "swiglu"}
               PROVE  /\ phase' = "gateup"
                      /\ mine'[q].lo < mine'[q].hi /\ mine'[q].hi = at'[q] /\ (\A c \in 0..NCut'-1 : cur'[q] = c => Low(c)' <= mine'[q].lo)
                      /\ mine'[q].hi <= Work!GroupAt(mine'[q].lo) * Rows
    BY DEF MineRight
  <2>3. CASE q = p
    BY <1>1, <1>3, <1>6, <2>1, <2>2, <2>3
  <2>4. CASE q # p
    BY <1>1, <1>6, <2>1, <2>4 DEF MineRight
  <2> QED
    BY <2>3, <2>4
<1>11. CountsRight'
  <2>1. \A h : \A q \in Work!Threads : AtSwiGlu(q, h)' = AtSwiGlu(q, h)
    BY <1>1, <1>6 DEF AtSwiGlu
  <2>2. ASSUME NEW h \in DOMAIN rows_done PROVE Counted(h)' = Counted(h)
    <3>1. Group(h) \subseteq 0..Total-1
      BY <1>2, GroupInside DEF WorkTyped
    <3>2. ASSUME NEW r \in Group(h) PROVE (gu'[r] = 1 /\ ~Uncounted(r)') <=> (gu[r] = 1 /\ ~Uncounted(r))
      <4>1. r \in 0..Total-1 /\ r \in Nat
        BY <1>2, <3>1
      <4>2. CASE at[p] <= r /\ r < till
        <5>1. Uncounted(r)'
          BY <1>6, <4>2 DEF Uncounted
        <5>2. r \in Cut(cur[p]) /\ cur[p] \in 0..NCut-1
          BY <1>1, <1>2, <1>3, <4>1, <4>2, WorkingFacts
        <5>3. Clean(r)
          <6>1. ~(r < at[p])
            BY <1>2, <4>1, <4>2
          <6> QED
            BY <1>1, <5>2, <6>1 DEF LinesOnce
        <5>4. gu[r] = 0
          BY <1>1, <5>3 DEF Clean
        <5> QED
          BY <5>1, <5>4
      <4>3. CASE ~(at[p] <= r /\ r < till)
        <5>1. gu'[r] = gu[r]
          BY <1>5, <4>1, <4>3
        <5>2. Uncounted(r)' <=> Uncounted(r)
          BY <1>1, <1>6, <4>3 DEF Uncounted
        <5> QED
          BY <5>1, <5>2
      <4> QED
        BY <4>2, <4>3
    <3>3. Group(h)' = Group(h)
      BY DEF Group
    <3> QED
      BY <3>2, <3>3 DEF Counted
  <2> QED
    BY <1>1, <2>1, <2>2 DEF CountsRight
<1>12. FirstJob' /\ LeftBehind'
  BY <1>1 DEF FirstJob, LeftBehind, Work!Tokens
<1> QED
  BY <1>8, <1>9, <1>10, <1>11, <1>12

\* fetch_add(mine): the rows of p are counted; the group is complete for one thread only.
LEMMA CountRowsInv ==
  ASSUME WInv, NEW p \in Work!Threads, Work!CountRows(p)
  PROVE  WInv'
<1> USE DEF WInv
<1>0. PICK g : g = Work!GroupAt(mine[p].lo)
  OBVIOUS
<1> DEFINE n == mine[p].hi - mine[p].lo
           new == rows_done[g] + n
<1>1. /\ phase = "gateup" /\ Claiming /\ tpc[p] = "count" /\ Working(p)
      /\ UNCHANGED <<chunks, calls, phase, tasks, next, cur, at, end, mine, xq, gu, hq, out>>
      /\ rows_done' = [rows_done EXCEPT ![g] = new]
      /\ tpc' = [tpc EXCEPT ![p] = IF rows_done'[g] = Rows THEN "swiglu" ELSE "rows"]
  BY <1>0 DEF Work!CountRows, Work!Mine, Work!LastOfGroup, Claiming, Working
<1>2. /\ mine[p].lo \in Nat /\ mine[p].hi \in Nat /\ mine[p].lo < mine[p].hi /\ g \in DOMAIN Work!Groups(tasks)
      /\ \A r \in Nat : mine[p].lo <= r /\ r < mine[p].hi =>
           /\ r \in Group(g) /\ gu[r] = 1
           /\ \A q \in Work!Threads : tpc[q] = "count" /\ mine[q].lo <= r /\ r < mine[q].hi => q = p
  BY <1>0, <1>1, MineFacts
<1>3. g \in Nat \ {0} /\ g \in DOMAIN rows_done /\ DOMAIN rows_done = DOMAIN Work!Groups(tasks)
      /\ rows_done \in [DOMAIN Work!Groups(tasks) -> Nat]
  BY <1>2, GroupInside DEF WorkTyped
<1>4. n \in Nat \ {0} /\ rows_done[g] \in Nat /\ new \in Nat
  BY <1>2, <1>3
<1>5. rows_done'[g] = new /\ DOMAIN rows_done' = DOMAIN rows_done /\ \A h \in DOMAIN rows_done : h # g => rows_done'[h] = rows_done[h]
  BY <1>1, <1>3
<1>6. tpc'[p] = (IF new = Rows THEN "swiglu" ELSE "rows") /\ \A q \in Work!Threads : q # p => tpc'[q] = tpc[q]
  <2>1. tpc' = [tpc EXCEPT ![p] = IF new = Rows THEN "swiglu" ELSE "rows"]
    BY <1>1, <1>5
  <2> HIDE DEF new
  <2> QED
    BY <2>1 DEF WorkTyped
<1> DEFINE own == mine[p].lo .. mine[p].hi - 1
<1>7. own \subseteq Nat /\ IsFiniteSet(own) /\ Cardinality(own) = n
  <2>1. mine[p].lo \in Int /\ mine[p].hi - 1 \in Int /\ ~(mine[p].lo > mine[p].hi - 1)
        /\ (mine[p].hi - 1) - mine[p].lo + 1 = n
    BY <1>2
  <2>2. IsFiniteSet(own) /\ Cardinality(own) = (mine[p].hi - 1) - mine[p].lo + 1
    <3> HIDE DEF n, new
    <3> QED
      BY <2>1, FS_Interval
  <2>3. own \subseteq Nat
    BY <1>2
  <2> QED
    BY <2>1, <2>2, <2>3
<1>8. \A r \in own : r \in Group(g) /\ gu[r] = 1 /\ Uncounted(r) /\ ~Uncounted(r)'
  <2> TAKE r \in own
  <2>1. r \in Nat /\ mine[p].lo <= r /\ r < mine[p].hi
    BY <1>2
  <2>2. Uncounted(r)
    BY <1>1, <2>1 DEF Uncounted
  <2>3. ~Uncounted(r)'
    <3> SUFFICES ASSUME NEW q \in Work!Threads, tpc'[q] = "count", mine[q].lo <= r, r < mine[q].hi PROVE FALSE
      BY <1>1 DEF Uncounted
    <3>1. q # p /\ tpc[q] = "count"
      BY <1>6
    <3> QED
      BY <1>2, <2>1, <3>1
  <2> QED
    BY <1>2, <2>1, <2>2, <2>3
<1>9. \A r \in Nat \ own : Uncounted(r)' <=> Uncounted(r)
  <2> TAKE r \in Nat \ own
  <2>1. ~(mine[p].lo <= r /\ r < mine[p].hi)
    BY <1>2
  <2> QED
    BY <1>1, <1>6, <2>1 DEF Uncounted
<1>10. \A h \in Nat \ {0} : Group(h) \subseteq Nat /\ Group(h)' = Group(h) /\ IsFiniteSet(Group(h)) /\ Cardinality(Group(h)) = Rows
  BY GroupLines DEF Group
<1> HIDE DEF own
<1>11. Counted(g)' = Counted(g) \cup own /\ Counted(g) \cap own = {}
  BY <1>1, <1>3, <1>7, <1>8, <1>9, <1>10 DEF Counted
<1>12. ASSUME NEW h \in DOMAIN rows_done, h # g PROVE Counted(h)' = Counted(h)
  <2>1. h \in Nat \ {0}
    BY <1>3, <1>12, GroupInside
  <2>2. Group(h) \cap own = {}
    <3> SUFFICES ASSUME NEW r \in Group(h), r \in own PROVE FALSE
      OBVIOUS
    <3>1. Work!GroupAt(r) = h
      BY <2>1, GroupUnique
    <3>2. Work!GroupAt(r) = g
      BY <1>3, <1>8, GroupUnique
    <3> QED
      BY <1>12, <3>1, <3>2
  <2> QED
    BY <1>1, <1>9, <1>10, <2>1, <2>2 DEF Counted
<1>13. IsFiniteSet(Counted(g)) /\ IsFiniteSet(Counted(g)') /\ Cardinality(Counted(g)) = rows_done[g] /\ Cardinality(Counted(g)') <= Rows
  <2>1. Counted(g) \in SUBSET Group(g) /\ Counted(g)' \in SUBSET Group(g)
    BY <1>3, <1>10 DEF Counted
  <2>2. Cardinality(Counted(g)) = rows_done[g]
    BY <1>1, <1>3 DEF CountsRight
  <2> QED
    BY <1>3, <1>10, <2>1, <2>2, FS_Subset
<1>14. Cardinality(Counted(g)') = new /\ new <= Rows /\ rows_done[g] # Rows
  <2>1. Cardinality(Counted(g) \cup own) = rows_done[g] + n
    <3>1. Cardinality(Counted(g) \cup own) = Cardinality(Counted(g)) + Cardinality(own) - Cardinality(Counted(g) \cap own)
      BY <1>7, <1>13, FS_Union
    <3>2. Cardinality(Counted(g) \cap own) = 0
      BY <1>11, FS_EmptySet
    <3> QED
      BY <1>4, <1>7, <1>13, <3>1, <3>2
  <2>2. Rows \in Nat
    BY ShapeAssumption
  <2> QED
    BY <1>4, <1>11, <1>13, <2>1, <2>2
<1>15. ChunkHeld' /\ LinesOnce'
  <2>1. at[p] \in Nat /\ end[p] \in Nat /\ at[p] <= at[p] /\ at[p] <= end[p] /\ at' = [at EXCEPT ![p] = at[p]]
    BY <1>1 DEF WorkTyped
  <2>2. Advances(p, at[p])
    <3>1. \A q \in Work!Threads : Working(q)' = Working(q) /\ (tpc'[q] = "done" <=> tpc[q] = "done")
      BY <1>1, <1>6 DEF Working
    <3>2. \A r : Clean(r)' = Clean(r) /\ Ready(r)' = Ready(r)
      BY <1>1 DEF Clean, Ready
    <3>3. \A r \in 0..Total-1 : ~(at[p] <= r /\ r < at[p])
      BY <2>1, Shape
    <3> QED
      BY <1>1, <2>1, <3>1, <3>2, <3>3 DEF Advances
  <2> QED
    BY <1>1, <2>1, <2>2, LinesAdvance
<1>16. WorkTyped'
  <2>1. Work!AllRows' = Work!AllRows
    BY <1>1, SameJob
  <2>2. rows_done' \in [DOMAIN Work!Groups(tasks) -> Nat]
    BY <1>1, <1>3, <1>4
  <2>3. tpc' \in [Work!Threads -> {"claim", "rows", "count", "swiglu", "done"}]
    BY <1>1 DEF WorkTyped
  <2> QED
    BY <1>1, <2>1, <2>2, <2>3 DEF WorkTyped
<1>17. MineRight'
  <2>1. NCut' = NCut /\ \A c : Low(c)' = Low(c)
    BY <1>1, SameJob
  <2>2. \A q \in Work!Threads : tpc'[q] \in {"count", "swiglu"} => tpc[q] \in {"count", "swiglu"}
    BY <1>1, <1>6
  <2> QED
    BY <1>1, <2>1, <2>2 DEF MineRight
<1>18. CountsRight'
  <2>1. \A q \in Work!Threads : ~AtSwiGlu(q, g) /\ (q # p => AtSwiGlu(q, g)' = AtSwiGlu(q, g)) /\ (AtSwiGlu(p, g)' <=> new = Rows)
    <3>1. \A q \in Work!Threads : ~AtSwiGlu(q, g)
      BY <1>1, <1>3, <1>14 DEF CountsRight
    <3> QED
      BY <1>0, <1>1, <1>6, <3>1 DEF AtSwiGlu
  <2>2. \A h : h # g => \A q \in Work!Threads : AtSwiGlu(q, h)' = AtSwiGlu(q, h)
    BY <1>0, <1>1, <1>6 DEF AtSwiGlu
  <2>3. hq[g] = 0
    BY <1>1, <1>3, <1>14 DEF CountsRight
  <2> SUFFICES ASSUME NEW h \in DOMAIN rows_done
               PROVE  /\ rows_done'[h] = Cardinality(Counted(h)')
                      /\ \A q \in Work!Threads : AtSwiGlu(q, h)' => rows_done'[h] = Rows
                      /\ \A q, u \in Work!Threads : AtSwiGlu(q, h)' /\ AtSwiGlu(u, h)' => q = u
                      /\ hq[h] = IF rows_done'[h] = Rows /\ (\A q \in Work!Threads : ~AtSwiGlu(q, h)') THEN 1 ELSE 0
    BY <1>1, <1>5 DEF CountsRight
  <2>4. CASE h = g
    BY <1>5, <1>14, <2>1, <2>3, <2>4
  <2>5. CASE h # g
    BY <1>1, <1>5, <1>12, <2>2, <2>5 DEF CountsRight
  <2> QED
    BY <2>4, <2>5
<1>19. FirstJob' /\ LeftBehind'
  BY <1>1 DEF FirstJob, LeftBehind, Work!Tokens
<1> QED
  BY <1>15, <1>16, <1>17, <1>18, <1>19

LEMMA SwiGluInv ==
  ASSUME WInv, NEW p \in Work!Threads, Work!SwiGlu(p)
  PROVE  WInv'
<1> USE DEF WInv
<1>0. PICK g : g = Work!GroupAt(mine[p].lo)
  OBVIOUS
<1>1. /\ phase = "gateup" /\ Claiming /\ tpc[p] = "swiglu" /\ Working(p)
      /\ UNCHANGED <<chunks, calls, phase, tasks, next, cur, at, end, mine, xq, gu, rows_done, out>>
      /\ hq' = [hq EXCEPT ![g] = hq[g] + 1] /\ tpc' = [tpc EXCEPT ![p] = "rows"]
  BY <1>0 DEF Work!SwiGlu, Claiming, Working
<1>2. g \in DOMAIN Work!Groups(tasks) /\ DOMAIN rows_done = DOMAIN Work!Groups(tasks)
      /\ hq \in [DOMAIN Work!Groups(tasks) -> Nat]
  BY <1>0, <1>1, MineFacts DEF WorkTyped
<1>3. tpc'[p] = "rows" /\ \A q \in Work!Threads : q # p => tpc'[q] = tpc[q]
  BY <1>1 DEF WorkTyped
<1>4. hq'[g] = hq[g] + 1 /\ \A h \in DOMAIN rows_done : h # g => hq'[h] = hq[h]
  BY <1>1, <1>2
<1>5. ChunkHeld' /\ LinesOnce'
  <2>1. at[p] \in Nat /\ end[p] \in Nat /\ at[p] <= at[p] /\ at[p] <= end[p] /\ at' = [at EXCEPT ![p] = at[p]]
    BY <1>1 DEF WorkTyped
  <2>2. Advances(p, at[p])
    <3>1. \A q \in Work!Threads : Working(q)' = Working(q) /\ (tpc'[q] = "done" <=> tpc[q] = "done")
      BY <1>1, <1>3 DEF Working
    <3>2. \A r : Clean(r)' = Clean(r) /\ Ready(r)' = Ready(r)
      BY <1>1 DEF Clean, Ready
    <3>3. \A r \in 0..Total-1 : ~(at[p] <= r /\ r < at[p])
      BY <2>1, Shape
    <3> QED
      BY <1>1, <2>1, <3>1, <3>2, <3>3 DEF Advances
  <2> QED
    BY <1>1, <2>1, <2>2, LinesAdvance
<1>6. WorkTyped'
  <2>1. Work!AllRows' = Work!AllRows
    BY <1>1, SameJob
  <2>2. hq' \in [DOMAIN Work!Groups(tasks) -> Nat]
    BY <1>1, <1>2
  <2>3. tpc' \in [Work!Threads -> {"claim", "rows", "count", "swiglu", "done"}]
    BY <1>1 DEF WorkTyped
  <2> QED
    BY <1>1, <2>1, <2>2, <2>3 DEF WorkTyped
<1>7. MineRight'
  <2>1. NCut' = NCut /\ \A c : Low(c)' = Low(c)
    BY <1>1, SameJob
  <2>2. \A q \in Work!Threads : tpc'[q] \in {"count", "swiglu"} => tpc[q] \in {"count", "swiglu"}
    BY <1>1, <1>3
  <2> QED
    BY <1>1, <2>1, <2>2 DEF MineRight
<1>8. CountsRight'
  <2>1. AtSwiGlu(p, g) /\ ~AtSwiGlu(p, g)' /\ \A q \in Work!Threads : q # p => ~AtSwiGlu(q, g)
    BY <1>0, <1>1, <1>2, <1>3 DEF AtSwiGlu, CountsRight
  <2>2. \A q \in Work!Threads : \A h : q # p \/ h # g => AtSwiGlu(q, h)' = AtSwiGlu(q, h)
    BY <1>0, <1>1, <1>3 DEF AtSwiGlu
  <2>3. hq[g] = 0 /\ rows_done[g] = Rows
    BY <1>1, <1>2, <2>1 DEF CountsRight
  <2>4. \A h : Counted(h)' = Counted(h)
    <3>1. \A r : Uncounted(r)' = Uncounted(r)
      BY <1>1, <1>3 DEF Uncounted
    <3> QED
      BY <1>1, <3>1 DEF Counted, Group
  <2> SUFFICES ASSUME NEW h \in DOMAIN rows_done
               PROVE  /\ rows_done[h] = Cardinality(Counted(h)')
                      /\ \A q \in Work!Threads : AtSwiGlu(q, h)' => rows_done[h] = Rows
                      /\ \A q, u \in Work!Threads : AtSwiGlu(q, h)' /\ AtSwiGlu(u, h)' => q = u
                      /\ hq'[h] = IF rows_done[h] = Rows /\ (\A q \in Work!Threads : ~AtSwiGlu(q, h)') THEN 1 ELSE 0
    BY <1>1 DEF CountsRight
  <2>5. CASE h = g
    <3>1. \A q \in Work!Threads : ~AtSwiGlu(q, g)'
      BY <2>1, <2>2
    <3> QED
      BY <1>1, <1>4, <2>3, <2>4, <2>5, <3>1 DEF CountsRight
  <2>6. CASE h # g
    BY <1>1, <1>4, <2>2, <2>4, <2>6 DEF CountsRight
  <2> QED
    BY <2>5, <2>6
<1>9. FirstJob' /\ LeftBehind'
  BY <1>1 DEF FirstJob, LeftBehind, Work!Tokens
<1> QED
  BY <1>5, <1>6, <1>7, <1>8, <1>9

LEMMA QuantizeInv ==
  ASSUME WInv, NEW p \in Work!Threads, Work!Quantize(p)
  PROVE  WInv'
<1> USE DEF WInv
<1> DEFINE used == Work!UsedTokens(tasks)
           u == Work!Split(Len(used), p, NThreads)
           z == Work!Split(Window, p, NThreads)
<1>1. /\ phase = "quantize" /\ tpc[p] = "claim"
      /\ UNCHANGED <<chunks, calls, phase, tasks, next, cur, at, end, mine, gu, rows_done, hq>>
      /\ tpc' = [tpc EXCEPT ![p] = "done"]
      /\ xq' = xq \cup {tasks[used[k]].t : k \in u.b + 1 .. u.e}
      /\ out' = [x \in DOMAIN out |-> IF z.b <= x[1] /\ x[1] < z.e THEN <<>> ELSE out[x]]
  BY DEF Work!Quantize
<1>2. tasks \in Listed /\ p \in 0..NThreads-1 /\ NThreads \in Nat \ {0} /\ Window \in Nat
  BY Shape, ShapeAssumption
<1>3. Len(used) \in Nat /\ \A k \in 1..Len(used) : used[k] \in DOMAIN tasks
  BY <1>2, UsedCover
<1>4. u.b + 1 .. u.e \subseteq 1..Len(used)
  <2>1. p \in Nat
    BY <1>2
  <2>2. u.b \in Nat /\ u.e \in Nat /\ u.e <= Len(used)
    <3> HIDE DEF used
    <3> QED
      BY <1>2, <1>3, <2>1, SplitShape, SplitIn
  <2> HIDE DEF u, used
  <2> QED
    BY <1>3, <2>2
<1> HIDE DEF u, used
<1>5. \A k \in u.b + 1 .. u.e : tasks[used[k]].t \in Work!Tokens(tasks) /\ tasks[used[k]].t \in 0..Window-1
  BY <1>2, <1>3, <1>4, TaskSet DEF Work!Tokens
<1>6. xq \subseteq xq' /\ xq' \subseteq Work!Tokens(tasks) /\ xq' \subseteq 0..Window-1
  BY <1>1, <1>5 DEF FirstJob, WorkTyped
<1>7. DOMAIN out' = DOMAIN out /\ \A x \in DOMAIN out : out'[x] = IF z.b <= x[1] /\ x[1] < z.e THEN <<>> ELSE out[x]
  BY <1>1
<1>8. tpc'[p] = "done" /\ tpc' \in [Work!Threads -> {"claim", "rows", "count", "swiglu", "done"}]
      /\ \A q \in Work!Threads : q # p => tpc'[q] = tpc[q]
  BY <1>1 DEF WorkTyped
<1>9. WorkTyped'
  <2>1. Work!AllRows' = Work!AllRows
    BY <1>1, SameJob
  <2>2. out' = [x \in (0..Window-1) \X (0..OutRows-1) |-> out'[x]]
    BY <1>1, <1>7 DEF WorkTyped
  <2> QED
    BY <1>1, <1>6, <1>8, <2>1, <2>2 DEF WorkTyped
<1>10. ShareDone(p)'
  <2>1. \A k \in u.b + 1 .. u.e : tasks[used[k]].t \in xq'
    BY <1>1
  <2>2. \A x \in DOMAIN out' : z.b <= x[1] /\ x[1] < z.e => out'[x] = <<>>
    BY <1>7
  <2> QED
    BY <1>1, <2>1, <2>2 DEF ShareDone, u, used
<1>11. ASSUME NEW q \in Work!Threads, ShareDone(q) PROVE ShareDone(q)'
  <2>1. LET v == Work!Split(Len(Work!UsedTokens(tasks)), q, NThreads)
        IN  \A k \in v.b + 1 .. v.e : tasks[Work!UsedTokens(tasks)[k]].t \in xq'
    BY <1>6, <1>11 DEF ShareDone
  <2>2. LET y == Work!Split(Window, q, NThreads)
        IN  \A x \in DOMAIN out' : y.b <= x[1] /\ x[1] < y.e => out'[x] = <<>>
    BY <1>7, <1>11 DEF ShareDone
  <2> QED
    BY <1>1, <2>1, <2>2 DEF ShareDone
<1>12. FirstJob'
  <2>1. xq' \subseteq Work!Tokens(tasks)'
    BY <1>1, <1>6 DEF Work!Tokens
  <2>2. ASSUME NEW q \in Work!Threads PROVE tpc'[q] \in {"claim", "done"} /\ (tpc'[q] = "done" => ShareDone(q)')
    <3>1. CASE q = p
      BY <1>8, <1>10, <3>1
    <3>2. CASE q # p
      BY <1>1, <1>8, <1>11, <3>2 DEF FirstJob
    <3> QED
      BY <3>1, <3>2
  <2> QED
    BY <1>1, <2>1, <2>2 DEF FirstJob
<1>13. ~Claiming' /\ phase' # "gateup"
  BY <1>1 DEF Claiming
<1>14. MineRight'
  <2>1. \A q \in Work!Threads : tpc'[q] \notin {"count", "swiglu"}
    BY <1>1, <1>12 DEF FirstJob
  <2> QED
    BY <2>1 DEF MineRight
<1> QED
  BY <1>1, <1>9, <1>12, <1>13, <1>14 DEF ChunkHeld, LinesOnce, CountsRight, LeftBehind

LEMMA ThreadStepInv ==
  ASSUME WInv, NEW p \in Work!Threads, Work!ThreadStep(p)
  PROVE  WInv'
BY ClaimInv, RangeDoneInv, OutputRowInv, GateUpRowsInv, CountRowsInv, SwiGluInv, QuantizeInv DEF Work!ThreadStep

-----------------------------------------------------------------------------
(* Between the jobs *)

\* When every thread is done, every line of the job is ready.
LEMMA AllReady ==
  ASSUME WorkTyped, ChunkHeld, LinesOnce, Claiming, \A p \in Work!Threads : tpc[p] = "done"
  PROVE  \A r \in 0..Total-1 : Ready(r)
<1>1. chunks \in Nat \ {0} /\ NCut \in Nat \ {0} /\ next \in Nat /\ Work!Threads = 0..NThreads-1 /\ NThreads \in Nat \ {0}
      /\ (~(chunks > 1) => NCut = NThreads)
  BY Shape DEF WorkTyped
<1>2. \A c \in 0..NCut-1 : Taken(c)
  <2> TAKE c \in 0..NCut-1
  <2>1. CASE chunks > 1
    <3>1. 0 \in Work!Threads
      BY <1>1
    <3>2. NCut <= next
      BY <2>1, <3>1 DEF ChunkHeld
    <3> QED
      BY <1>1, <2>1, <3>2 DEF Taken
  <2>2. CASE ~(chunks > 1)
    <3>1. c \in Work!Threads
      BY <1>1, <2>2
    <3>2. cur[c] # Work!NoChunk
      BY <2>2, <3>1 DEF ChunkHeld
    <3> QED
      BY <2>2, <3>2 DEF Taken
  <2> QED
    BY <2>1, <2>2
<1>3. \A p \in Work!Threads : ~Working(p)
  BY DEF Working
<1> TAKE r \in 0..Total-1
<1>4. PICK c \in 0..NCut-1 : r \in Cut(c)
  BY CutsCover
<1> QED
  BY <1>2, <1>3, <1>4 DEF LinesOnce

\* ... and every group is complete.
LEMMA AllCounted ==
  ASSUME WInv, phase = "gateup", \A p \in Work!Threads : tpc[p] = "done"
  PROVE  \A g \in DOMAIN hq : hq[g] = 1
<1> USE DEF WInv
<1>1. \A r \in 0..Work!AllRows-1 : gu[r] = 1
  <2>1. \A r \in 0..Total-1 : Ready(r)
    BY AllReady DEF Claiming
  <2> QED
    BY <2>1 DEF Ready, Total
<1>2. DOMAIN hq = DOMAIN Work!Groups(tasks) /\ DOMAIN rows_done = DOMAIN Work!Groups(tasks)
  BY DEF WorkTyped
<1> TAKE g \in DOMAIN hq
<1>3. g \in Nat \ {0} /\ Group(g) \subseteq 0..Work!AllRows-1
  BY <1>2, GroupInside
<1>4. \A r : ~Uncounted(r)
  BY DEF Uncounted
<1>5. Counted(g) = Group(g)
  BY <1>1, <1>3, <1>4 DEF Counted
<1>6. rows_done[g] = Rows
  <2>1. rows_done[g] = Cardinality(Counted(g))
    BY <1>2 DEF CountsRight
  <2>2. Cardinality(Group(g)) = Rows
    BY <1>3, GroupLines
  <2> QED
    BY <1>5, <2>1, <2>2
<1>7. \A p \in Work!Threads : ~AtSwiGlu(p, g)
  BY DEF AtSwiGlu
<1> QED
  BY <1>2, <1>6, <1>7 DEF CountsRight

\* The shares of the first job are everything.
LEMMA AllShares ==
  ASSUME WInv, phase = "quantize", \A p \in Work!Threads : tpc[p] = "done"
  PROVE  xq = Work!Tokens(tasks) /\ \A x \in DOMAIN out : out[x] = <<>>
<1> USE DEF WInv
<1>1. \A p \in Work!Threads : ShareDone(p)
  BY DEF FirstJob
<1>2. tasks \in Listed /\ NThreads \in Nat \ {0} /\ Work!Threads = 0..NThreads-1 /\ Window \in Nat
  BY Shape, ShapeAssumption
<1> DEFINE used == Work!UsedTokens(tasks)
<1>3. Len(used) \in Nat /\ \A i \in DOMAIN tasks : \E k \in 1..Len(used) : tasks[used[k]].t = tasks[i].t
  BY <1>2, UsedCover
<1>4. \A k \in 1..Len(used) : tasks[used[k]].t \in xq
  <2> TAKE k \in 1..Len(used)
  <2>1. k - 1 \in 0..Len(used)-1
    BY <1>3
  <2>2. PICK p \in 0..NThreads-1 : Work!Split(Len(used), p, NThreads).b <= k - 1 /\ k - 1 < Work!Split(Len(used), p, NThreads).e
    <3> HIDE DEF used
    <3> QED
      BY <1>2, <1>3, <2>1, SplitCovers
  <2>3. Work!Split(Len(used), p, NThreads).b \in Nat /\ Work!Split(Len(used), p, NThreads).e \in Nat
    <3>1. p \in Nat
      BY <1>2
    <3> HIDE DEF used
    <3> QED
      BY <1>2, <1>3, <3>1, SplitShape
  <2>4. k \in Work!Split(Len(used), p, NThreads).b + 1 .. Work!Split(Len(used), p, NThreads).e
    <3> HIDE DEF used
    <3> QED
      BY <1>3, <2>2, <2>3
  <2> QED
    BY <1>1, <1>2, <2>4 DEF ShareDone
<1>5. Work!Tokens(tasks) \subseteq xq
  <2> HIDE DEF used
  <2> QED
    BY <1>3, <1>4 DEF Work!Tokens
<1>6. \A x \in DOMAIN out : out[x] = <<>>
  <2> TAKE x \in DOMAIN out
  <2>1. x[1] \in 0..Window-1
    BY DEF WorkTyped
  <2>2. PICK p \in 0..NThreads-1 : Work!Split(Window, p, NThreads).b <= x[1] /\ x[1] < Work!Split(Window, p, NThreads).e
    BY <1>2, <2>1, SplitCovers
  <2> QED
    BY <1>1, <1>2, <2>2 DEF ShareDone
<1> QED
  BY <1>5, <1>6 DEF FirstJob

LEMMA Restarted ==
  ASSUME Work!StartJob
  PROVE  /\ next' = 0 /\ (\A p \in Work!Threads : tpc'[p] = "claim" /\ cur'[p] = Work!NoChunk)
         /\ tpc' \in [Work!Threads -> {"claim", "rows", "count", "swiglu", "done"}]
         /\ cur' \in [Work!Threads -> Int] /\ at' \in [Work!Threads -> Nat] /\ end' \in [Work!Threads -> Nat]
         /\ mine' \in [Work!Threads -> [lo : Nat, hi : Nat]]
         /\ \A p \in Work!Threads : at'[p] <= end'[p] /\ mine'[p].lo <= mine'[p].hi
         /\ \A p \in Work!Threads : ~Working(p)'
         /\ MineRight'
<1>1. next' = 0 /\ tpc' = [p \in Work!Threads |-> "claim"] /\ cur' = [p \in Work!Threads |-> Work!NoChunk]
      /\ at' = [p \in Work!Threads |-> 0] /\ end' = [p \in Work!Threads |-> 0]
      /\ mine' = [p \in Work!Threads |-> [lo |-> 0, hi |-> 0]]
  BY DEF Work!StartJob, Work!NoRows
<1>2. \A p \in Work!Threads : ~Working(p)'
  BY <1>1 DEF Working
<1>3. MineRight'
  BY <1>1 DEF MineRight
<1> QED
  BY <1>1, <1>2, <1>3 DEF Work!NoChunk

ChunksShape == chunks \in Nat \ {0} /\ NCut \in Nat \ {0} /\ (~(chunks > 1) => NCut = NThreads)

LEMMA ShapeOfChunks == WorkTyped => ChunksShape
BY Shape DEF ChunksShape

\* A job starts with nothing claimed.
LEMMA FreshClaims ==
  ASSUME WorkTyped', Work!StartJob, \A c \in 0..NCut'-1 : \A r \in Cut(c)' : Clean(r)'
  PROVE  ChunkHeld' /\ LinesOnce'
<1>1. next' = 0 /\ (\A p \in Work!Threads : tpc'[p] = "claim" /\ cur'[p] = Work!NoChunk /\ ~Working(p)')
  BY Restarted
<1>2. chunks' \in Nat \ {0} /\ NCut' \in Nat \ {0} /\ Work!Threads = 0..NThreads-1 /\ (~(chunks' > 1) => NCut' = NThreads)
  <2>1. ChunksShape'
    BY ShapeOfChunks, PTL
  <2> QED
    BY <2>1 DEF ChunksShape, Work!Threads
<1>3. \A c \in 0..NCut'-1 : ~Taken(c)'
  <2> SUFFICES ASSUME NEW c \in 0..NCut'-1 PROVE ~Taken(c)'
    OBVIOUS
  <2>1. CASE chunks' > 1
    <3>1. ~(c < next')
      BY <1>1, <1>2
    <3> QED
      BY <2>1, <3>1 DEF Taken
  <2>2. CASE ~(chunks' > 1)
    <3>1. c \in Work!Threads
      BY <1>2, <2>2
    <3> QED
      BY <1>1, <2>2, <3>1 DEF Taken
  <2> QED
    BY <2>1, <2>2
<1>4. Work!NoChunk \notin 0..NCut'-1
  BY <1>2 DEF Work!NoChunk
<1>5. ChunkHeld'
  BY <1>1, <1>4 DEF ChunkHeld
<1>6. LinesOnce'
  BY <1>1, <1>3 DEF LinesOnce
<1> QED
  BY <1>5, <1>6

CutsInside == \A c \in 0..NCut-1 : \A r \in Cut(c) : r \in 0..Total-1

LEMMA CutInside == WorkTyped => CutsInside
<1> SUFFICES ASSUME WorkTyped, NEW c \in 0..NCut-1, NEW r \in Cut(c) PROVE r \in 0..Total-1
  BY DEF CutsInside
<1>1. Low(c) \in Nat /\ High(c) \in Nat /\ High(c) <= Total /\ Total \in Nat
  BY CutShape, Shape
<1> QED
  BY <1>1 DEF Cut

LEMMA BeginInv ==
  ASSUME WInv, NEW ts \in TaskLists, Work!Begin(ts)
  PROVE  WInv'
<1> USE DEF WInv
<1> DEFINE gs == Work!Groups(ts)
<1>1. /\ phase = "idle" /\ calls < MaxCalls /\ calls' = calls + 1 /\ phase' = "quantize" /\ tasks' = ts
      /\ Work!StartJob /\ xq' = {} /\ chunks' = chunks
      /\ gu' = [r \in 0..(Len(gs) * Rows - 1) |-> 0]
      /\ rows_done' = [g \in DOMAIN gs |-> 0] /\ hq' = [g \in DOMAIN gs |-> 0]
      /\ out' = [x \in DOMAIN out |-> Work!Dirty]
  BY DEF Work!Begin, Work!ResetCounts
<1>2. Work!AllRows' = Len(gs) * Rows /\ DOMAIN Work!Groups(tasks)' = DOMAIN gs
  BY <1>1 DEF Work!AllRows
<1> HIDE DEF gs
<1>3. WorkTyped'
  <2>1. calls' \in 0..MaxCalls
    <3>1. calls' = calls + 1 /\ calls < MaxCalls
      BY <1>1
    <3>2. calls \in 0..MaxCalls /\ MaxCalls \in Nat
      BY ShapeAssumption DEF WorkTyped
    <3> QED
      BY <3>1, <3>2
  <2>2. gu' \in [0..Work!AllRows'-1 -> Nat]
    BY <1>1, <1>2
  <2>3. rows_done' \in [DOMAIN Work!Groups(tasks)' -> Nat] /\ hq' \in [DOMAIN Work!Groups(tasks)' -> Nat]
    BY <1>1, <1>2
  <2>4. out' = [x \in (0..Window-1) \X (0..OutRows-1) |-> out'[x]]
    BY <1>1 DEF WorkTyped
  <2>5. tasks' \in TaskLists \cup {<<>>} /\ next' \in Nat /\ xq' \subseteq 0..Window-1 /\ chunks' \in Chunkings
    BY <1>1, Restarted DEF WorkTyped
  <2>6. Work!Threads' = Work!Threads
    BY DEF Work!Threads
  <2> QED
    BY <1>1, <2>1, <2>2, <2>3, <2>4, <2>5, <2>6, Restarted DEF WorkTyped
<1>4. FirstJob'
  <2>1. \A p \in Work!Threads : tpc'[p] = "claim"
    BY <1>1, Restarted
  <2> QED
    BY <1>1, <2>1 DEF FirstJob
<1>5. MineRight' /\ ~Claiming'
  BY <1>1, Restarted DEF Claiming
<1> QED
  BY <1>1, <1>3, <1>4, <1>5 DEF ChunkHeld, LinesOnce, CountsRight, LeftBehind

LEMMA EndJobInv ==
  ASSUME WInv, Work!EndJob
  PROVE  WInv'
<1> USE DEF WInv
<1>1. /\ phase # "idle" /\ (\A p \in Work!Threads : tpc[p] = "done")
      /\ Work!StartJob
      /\ UNCHANGED <<chunks, calls, tasks, xq, gu, rows_done, hq, out>>
  BY DEF Work!EndJob, Work!data
<1>2. \/ phase = "quantize" /\ phase' = "gateup"
      \/ phase = "gateup" /\ phase' = "output"
      \/ phase = "output" /\ phase' = "idle"
  <2>1. phase' = CASE phase = "quantize" -> "gateup" [] phase = "gateup" -> "output" [] phase = "output" -> "idle"
    BY DEF Work!EndJob
  <2> QED
    BY <1>1, <2>1 DEF WorkTyped
<1>3. Work!AllRows' = Work!AllRows /\ Work!Threads' = Work!Threads
  BY <1>1 DEF Work!AllRows, Work!Threads
<1>4. WorkTyped'
  <2>1. phase' \in {"idle", "quantize", "gateup", "output"}
    BY <1>2
  <2>2. next' \in Nat
    BY <1>1, Restarted
  <2> QED
    BY <1>1, <1>3, <2>1, <2>2, Restarted DEF WorkTyped
<1>5. MineRight'
  BY <1>1, Restarted
<1>6. CASE phase = "quantize"
  <2>1. phase' = "gateup"
    BY <1>2, <1>6
  <2>2. xq = Work!Tokens(tasks) /\ \A x \in DOMAIN out : out[x] = <<>>
    BY <1>1, <1>6, AllShares
  <2>3. LeftBehind'
    BY <1>1, <2>1, <2>2 DEF LeftBehind, Work!Tokens
  <2>4. \A c \in 0..NCut'-1 : \A r \in Cut(c)' : Clean(r)'
    <3>1. \A c \in 0..NCut'-1 : \A r \in Cut(c)' : r \in 0..Total'-1
      <4>1. CutsInside'
        BY <1>4, CutInside, PTL
      <4> QED
        BY <4>1 DEF CutsInside
    <3>2. Total' = Work!AllRows
      BY <1>3, <2>1 DEF Total
    <3>3. \A r \in 0..Work!AllRows-1 : gu[r] = 0
      BY <1>6 DEF FirstJob, WorkTyped
    <3> QED
      BY <1>1, <2>1, <3>1, <3>2, <3>3 DEF Clean
  <2>5. ChunkHeld' /\ LinesOnce'
    BY <1>1, <1>4, <2>4, FreshClaims
  <2>6. CountsRight'
    <3>1. \A g \in DOMAIN rows_done : Counted(g)' = {}
      <4> TAKE g \in DOMAIN rows_done
      <4>1. \A r \in Group(g) : gu[r] = 0
        BY <1>6, GroupInside DEF FirstJob, WorkTyped
      <4>2. Group(g)' = Group(g)
        BY DEF Group
      <4> QED
        BY <1>1, <4>1, <4>2 DEF Counted
    <3>2. Cardinality({}) = 0 /\ Rows # 0
      BY FS_EmptySet, ShapeAssumption
    <3>3. \A g : \A p \in Work!Threads : ~AtSwiGlu(p, g)'
      BY <1>1, Restarted DEF AtSwiGlu
    <3> QED
      BY <1>1, <1>6, <3>1, <3>2, <3>3 DEF CountsRight, FirstJob
  <2> QED
    BY <1>4, <1>5, <2>1, <2>3, <2>5, <2>6 DEF FirstJob
<1>7. CASE phase = "gateup"
  <2>1. phase' = "output"
    BY <1>2, <1>7
  <2>2. \A g \in DOMAIN hq : hq[g] = 1
    BY <1>1, <1>7, AllCounted
  <2>3. LeftBehind'
    BY <1>1, <2>1, <2>2 DEF LeftBehind
  <2>4. \A c \in 0..NCut'-1 : \A r \in Cut(c)' : Clean(r)'
    <3>1. \A c \in 0..NCut'-1 : \A r \in Cut(c)' : r \in 0..Total'-1
      <4>1. CutsInside'
        BY <1>4, CutInside, PTL
      <4> QED
        BY <4>1 DEF CutsInside
    <3>2. Total' = OutRows
      BY <2>1 DEF Total
    <3>3. \A t \in 0..Window-1, r \in 0..OutRows-1 : out[<<t, r>>] = <<>>
      <4>1. DOMAIN out = (0..Window-1) \X (0..OutRows-1)
        BY DEF WorkTyped
      <4> QED
        BY <1>7, <4>1 DEF LeftBehind
    <3> QED
      BY <1>1, <2>1, <3>1, <3>2, <3>3 DEF Clean
  <2>5. ChunkHeld' /\ LinesOnce'
    BY <1>1, <1>4, <2>4, FreshClaims
  <2> QED
    BY <1>4, <1>5, <2>1, <2>3, <2>5 DEF FirstJob, CountsRight
<1>8. CASE phase = "output"
  <2>1. phase' = "idle"
    BY <1>2, <1>8
  <2>2. \A r \in 0..OutRows-1 : Ready(r)
    BY <1>1, <1>8, AllReady DEF Claiming, Total
  <2>3. \A r \in 0..OutRows-1 : Ready(r)'
    BY <1>1, <1>8, <2>1, <2>2 DEF Ready
  <2> QED
    BY <1>4, <1>5, <2>1, <2>3 DEF ChunkHeld, LinesOnce, Claiming, FirstJob, CountsRight, LeftBehind
<1> QED
  BY <1>2, <1>6, <1>7, <1>8

LEMMA WorkInit == Work!Init => WInv
<1> SUFFICES ASSUME Work!Init PROVE WInv
  OBVIOUS
<1>1. /\ chunks \in Chunkings /\ calls = 0 /\ phase = "idle" /\ tasks = <<>> /\ next = 0
      /\ tpc = [p \in Work!Threads |-> "claim"] /\ cur = [p \in Work!Threads |-> Work!NoChunk]
      /\ at = [p \in Work!Threads |-> 0] /\ end = [p \in Work!Threads |-> 0] /\ mine = [p \in Work!Threads |-> [lo |-> 0, hi |-> 0]]
      /\ xq = {} /\ gu = <<>> /\ rows_done = <<>> /\ hq = <<>>
      /\ out = [x \in (0..Window-1) \X (0..OutRows-1) |-> Work!Dirty]
  BY DEF Work!Init, Work!NoRows
<1>2. Work!AllRows = 0 /\ DOMAIN Work!Groups(tasks) = {}
  <2>1. Work!Groups(tasks) = <<>> /\ Len(Work!Groups(tasks)) = 0
    BY <1>1, NoGroups
  <2>2. Rows \in Nat
    BY ShapeAssumption
  <2>3. 0 * Rows = 0
    BY <2>2
  <2> QED
    BY <2>1, <2>3 DEF Work!AllRows
<1>3. WorkTyped
  <2>1. <<>> \in [{} -> Nat] /\ 0..Work!AllRows-1 = {}
    BY <1>2
  <2>2. gu \in [0..Work!AllRows-1 -> Nat] /\ rows_done \in [DOMAIN Work!Groups(tasks) -> Nat] /\ hq \in [DOMAIN Work!Groups(tasks) -> Nat]
    BY <1>1, <1>2, <2>1
  <2>3. out = [x \in (0..Window-1) \X (0..OutRows-1) |-> out[x]]
    BY <1>1
  <2>4. calls \in 0..MaxCalls
    BY <1>1, ShapeAssumption
  <2>5. cur \in [Work!Threads -> Int]
    BY <1>1 DEF Work!NoChunk
  <2>6. mine \in [Work!Threads -> [lo : Nat, hi : Nat]] /\ \A p \in Work!Threads : at[p] <= end[p] /\ mine[p].lo <= mine[p].hi
    BY <1>1
  <2> QED
    BY <1>1, <2>2, <2>3, <2>4, <2>5, <2>6 DEF WorkTyped
<1> QED
  BY <1>1, <1>3 DEF WInv, ChunkHeld, LinesOnce, Claiming, MineRight, CountsRight, FirstJob, LeftBehind

-----------------------------------------------------------------------------
(* What the properties read off the invariant *)

\* The counter of a group never passes its rows; at all of them the rows are all there.
LEMMA CountedAll ==
  ASSUME WInv, phase = "gateup", NEW g \in DOMAIN rows_done
  PROVE  rows_done[g] <= Rows /\ (rows_done[g] = Rows => \A r \in Group(g) : gu[r] = 1)
<1>1. g \in Nat \ {0}
  BY GroupInside DEF WInv, WorkTyped
<1>2. IsFiniteSet(Group(g)) /\ Cardinality(Group(g)) = Rows
  BY <1>1, GroupLines
<1>3. Counted(g) \subseteq Group(g)
  BY DEF Counted
<1>4. /\ Cardinality(Counted(g)) <= Cardinality(Group(g))
      /\ Cardinality(Counted(g)) = Cardinality(Group(g)) => Counted(g) = Group(g)
  BY <1>2, <1>3, FS_Subset
<1>5. rows_done[g] = Cardinality(Counted(g))
  BY DEF WInv, CountsRight
<1> QED
  BY <1>2, <1>4, <1>5 DEF Counted

\* The counters outlive their job unchanged.
CountsBounded == \A g \in DOMAIN rows_done : rows_done[g] <= Rows

LEMMA CountsInJob == WInv /\ phase = "gateup" => CountsBounded
BY CountedAll DEF CountsBounded

CpuInv == WInv /\ CountsBounded /\ inside \in Callers \cup {None}

\* The rows of the group under a thread at its SwiGLU are all computed.
LEMMA SwiGluReady == WInv => Work!SwiGluReadsAll
<1> SUFFICES ASSUME WInv, NEW p \in Work!Threads, tpc[p] = "swiglu"
             PROVE  \A r \in Group(Work!GroupAt(mine[p].lo)) : gu[r] = 1
  BY DEF Work!SwiGluReadsAll, Group
<1> DEFINE g == Work!GroupAt(mine[p].lo)
<1>1. phase = "gateup" /\ g \in DOMAIN rows_done
  BY MineFacts DEF WInv, WorkTyped
<1>2. rows_done[g] = Rows
  BY <1>1 DEF WInv, CountsRight, AtSwiGlu
<1> QED
  BY <1>1, <1>2, CountedAll

LEMMA InvGivesResult == WInv => ResultComplete /\ ReadsComplete
<1> SUFFICES ASSUME WInv PROVE ResultComplete /\ ReadsComplete
  OBVIOUS
<1>1. Work!ResultComplete
  BY DEF WInv, LeftBehind, Ready, Work!ResultComplete
<1>2. Work!DownReadsAll /\ Work!InputsReady
  BY DEF WInv, LeftBehind, Work!DownReadsAll, Work!InputsReady
<1> QED
  BY <1>1, <1>2, SwiGluReady DEF ResultComplete, ReadsComplete

LEMMA InvGivesType == WInv /\ CountsBounded => Work!TypeOK
<1> SUFFICES ASSUME WInv, CountsBounded PROVE Work!TypeOK
  OBVIOUS
<1>1. WorkTyped
  BY DEF WInv
<1>2. rows_done \in [DOMAIN Work!Groups(tasks) -> 0..Rows]
  <2>1. rows_done \in [DOMAIN Work!Groups(tasks) -> Nat] /\ Rows \in Nat
    BY <1>1, ShapeAssumption DEF WorkTyped
  <2>2. \A g \in DOMAIN Work!Groups(tasks) : rows_done[g] \in 0..Rows
    BY <2>1 DEF CountsBounded
  <2> QED
    BY <2>1, <2>2
<1>3. DOMAIN out = (0..Window-1) \X (0..OutRows-1)
  BY <1>1 DEF WorkTyped
<1>4. \A p \in Work!Threads : cur[p] \in Int /\ 0 <= at[p] /\ at[p] <= end[p] /\ mine[p].lo <= mine[p].hi
  BY <1>1 DEF WorkTyped
<1> QED
  BY <1>1, <1>2, <1>3, <1>4 DEF WorkTyped, Work!TypeOK

-----------------------------------------------------------------------------
(* The composed system *)

\* Whatever step is taken, the computation makes one of its own steps or stands still.
LEMMA WorkStep ==
  ASSUME [CpuNext]_cpuVars
  PROVE  \/ UNCHANGED work
         \/ \E ts \in TaskLists : Work!Begin(ts)
         \/ \E p \in Work!Threads : Work!ThreadStep(p)
         \/ Work!EndJob
<1>1. CASE UNCHANGED cpuVars
  BY <1>1 DEF cpuVars
<1>2. ASSUME NEW c \in Callers, NEW ts \in TaskLists, RunExperts(c, ts) PROVE Work!Begin(ts)
  BY <1>2 DEF RunExperts
<1>3. CASE Gather \/ EngineStep
  BY <1>3 DEF Gather, EngineStep
<1>4. ASSUME NEW c \in Callers, CallerGoesOn(c) PROVE UNCHANGED work \/ Work!ThreadStep(0) \/ Work!EndJob
  BY <1>4 DEF CallerGoesOn, NextJob, Compute
<1>5. ASSUME NEW w \in Workers, WorkerGoesOn(w) PROVE UNCHANGED work \/ Work!ThreadStep(w)
  BY <1>5 DEF WorkerGoesOn, Compute
<1>6. 0 \in Work!Threads /\ Workers \subseteq Work!Threads
  BY ShapeAssumption DEF Work!Threads
<1> QED
  BY <1>1, <1>2, <1>3, <1>4, <1>5, <1>6 DEF CpuNext

\* A step of another part of the system leaves the computation's invariant alone.
LEMMA WorkStays ==
  ASSUME WInv, CountsBounded, UNCHANGED work
  PROVE  WInv' /\ CountsBounded'
<1>1. UNCHANGED <<chunks, calls, phase, tasks, next, tpc, cur, at, end, mine, xq, gu, rows_done, hq, out>>
  BY DEF work
<1>2. /\ Total' = Total /\ NCut' = NCut /\ Claiming' = Claiming /\ Work!AllRows' = Work!AllRows
      /\ \A c : Low(c)' = Low(c) /\ High(c)' = High(c) /\ Cut(c)' = Cut(c)
  BY <1>1, SameJob
<1> USE <1>1, <1>2 DEF WInv
<1>3. WorkTyped'
  BY DEF WorkTyped, Work!Threads
<1>4. \A c : Taken(c)' = Taken(c) /\ Clean(c)' = Clean(c) /\ Ready(c)' = Ready(c) /\ Working(c)' = Working(c)
  BY DEF Taken, Clean, Ready, Working, Work!NoChunk
<1>5. ChunkHeld' /\ LinesOnce'
  BY <1>4 DEF ChunkHeld, LinesOnce, Work!Threads
<1>6. MineRight'
  BY DEF MineRight, Work!Threads
<1>7. \A g : Group(g)' = Group(g) /\ Counted(g)' = Counted(g)
  BY DEF Group, Counted, Uncounted, Work!Threads
<1>8. \A p, g : AtSwiGlu(p, g)' = AtSwiGlu(p, g)
  BY DEF AtSwiGlu, Work!GroupAt
<1>9. CountsRight' /\ CountsBounded'
  BY <1>7, <1>8 DEF CountsRight, CountsBounded, Work!Threads
<1>10. FirstJob'
  BY DEF FirstJob, ShareDone, Work!Threads, Work!Tokens, Work!Split
<1>11. LeftBehind'
  BY <1>4 DEF LeftBehind, Work!Tokens
<1> QED
  BY <1>3, <1>5, <1>6, <1>9, <1>10, <1>11

\* A step of the computation keeps it.
LEMMA WorkGoesOn ==
  ASSUME WInv, CountsBounded,
         \/ \E ts \in TaskLists : Work!Begin(ts)
         \/ \E p \in Work!Threads : Work!ThreadStep(p)
         \/ Work!EndJob
  PROVE  WInv' /\ CountsBounded'
<1>1. WInv'
  BY BeginInv, ThreadStepInv, EndJobInv
<1>2. CASE phase' = "gateup"
  <2>1. (phase = "gateup")'
    BY <1>2
  <2> QED
    BY <1>1, <2>1, CountsInJob, PTL
<1>3. CASE phase' = "quantize"
  <2>1. \A g \in DOMAIN rows_done' : rows_done'[g] = 0
    BY <1>1, <1>3 DEF WInv, FirstJob
  <2> QED
    BY <1>1, <2>1, ShapeAssumption DEF CountsBounded
<1>4. CASE phase' \notin {"gateup", "quantize"}
  <2>1. rows_done' = rows_done
    BY <1>4 DEF Work!Begin, Work!ThreadStep, Work!EndJob, Work!data, Work!Claim, Work!RangeDone, Work!Quantize,
                Work!GateUpRows, Work!CountRows, Work!SwiGlu, Work!OutputRow
  <2> QED
    BY <1>1, <2>1 DEF CountsBounded
<1> QED
  BY <1>2, <1>3, <1>4

LEMMA CpuStep ==
  ASSUME CpuInv, [CpuNext]_cpuVars
  PROVE  CpuInv'
<1>1. WInv' /\ CountsBounded'
  BY WorkStep, WorkStays, WorkGoesOn DEF CpuInv
<1>2. inside' \in Callers \cup {None}
  BY DEF CpuInv, CpuNext, cpuVars, RunExperts, Gather, EngineStep, CallerGoesOn, NextJob, Compute, WorkerGoesOn
<1> QED
  BY <1>1, <1>2 DEF CpuInv

\* Whatever step is taken, the pool makes one of its own steps or stands still.
LEMMA PoolStep ==
  ASSUME [CpuNext]_cpuVars
  PROVE  [Next]_vars
<1>1. CASE UNCHANGED cpuVars
  BY <1>1 DEF cpuVars
<1>2. ASSUME NEW c \in Callers, NEW ts \in TaskLists, RunExperts(c, ts) PROVE RunLocked(c)
  BY <1>2 DEF RunExperts
<1>3. CASE Gather
  BY <1>3 DEF Gather, Next
<1>4. CASE EngineStep
  BY <1>4 DEF EngineStep, Next
<1>5. ASSUME NEW c \in Callers, CallerGoesOn(c) PROVE RunLocked(c) \/ CallerStep(c) \/ UNCHANGED vars
  BY <1>5 DEF CallerGoesOn, NextJob, Compute, CallerStep
<1>6. ASSUME NEW w \in Workers, WorkerGoesOn(w) PROVE WorkerStep(w) \/ UNCHANGED vars
  BY <1>6 DEF WorkerGoesOn, Compute, WorkerStep
<1> QED
  BY <1>1, <1>2, <1>3, <1>4, <1>5, <1>6 DEF CpuNext, Next

\* CpuExpertPool::run drives the pool as SpinPool lets its callers drive it, so what is proved of the
\* pool holds while the experts are computed on it.
THEOREM CpuImplementsPool == CpuSpec => Spec
<1>1. CpuInit => Init
  BY DEF CpuInit
<1>2. [CpuNext]_cpuVars => [Next]_vars
  BY PoolStep
<1> QED
  BY <1>1, <1>2, PTL DEF CpuSpec, Spec

\* The closure the workers execute while the experts are computed is one and alive.
THEOREM CpuOneLiveClosure == CpuSpec => []OneLiveClosure
BY CpuImplementsPool, OneClosureAndAlive, PTL

\* The jobs of CpuExpertPool::run pass the barrier one at a time, each part once.
THEOREM CpuImplementsBarrier == CpuSpec => ImplementsBarrier
BY CpuImplementsPool, PoolImplementsBarrier, PTL

\* The invariant holds in every state of the composed system.
THEOREM CpuInvariant == CpuSpec => []CpuInv
<1>1. CpuInit => CpuInv
  <2> SUFFICES ASSUME CpuInit PROVE CpuInv
    OBVIOUS
  <2>1. WInv /\ inside \in Callers \cup {None}
    BY WorkInit DEF CpuInit
  <2>2. CountsBounded
    BY DEF CpuInit, Work!Init, CountsBounded
  <2> QED
    BY <2>1, <2>2 DEF CpuInv
<1>2. CpuInv /\ [CpuNext]_cpuVars => CpuInv'
  BY CpuStep
<1> QED
  BY <1>1, <1>2, PTL DEF CpuSpec

\* When CpuExpertPool::run returns every output element is the sum of its token's tasks, each once and in
\* task order; no SwiGLU reads a row that is not computed, no down product a group without its h, no
\* first product an activation that is not quantized: for any number of threads, any cut of the rows
\* and any task lists.
THEOREM ResultRightHolds == CpuSpec => []ResultRight
<1>1. CpuInv => Work!TypeOK /\ ResultComplete /\ ReadsComplete /\ inside \in Callers \cup {None}
  BY InvGivesResult, InvGivesType DEF CpuInv
<1>2. TypeOK /\ CpuInv => ResultRight
  BY <1>1 DEF ResultRight, CpuTypeOK
<1> QED
  BY <1>2, CpuInvariant, CpuImplementsPool, PoolTypeCorrect, PTL
=============================================================================
