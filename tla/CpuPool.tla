------------------------------- MODULE CpuPool -------------------------------
(***************************************************************************)
(* The CPU experts on the worker pool: CpuExpertPool::run and parallel     *)
(* (src/cpu/expert_pool.cpp and .h) as the engine's threads call them,     *)
(* composed of SpinPool (how a closure reaches the threads) and CpuExperts *)
(* (what the threads compute).  run() is three closures of the pool under  *)
(* one lock; parallel() is one without it (a gather, whose work is left    *)
(* out).  A thread computes only inside the pool's call of the job's       *)
(* closure, part 0 in the caller.                                          *)
(*                                                                         *)
(* SpinPool locks and unlocks per closure; `inside' is mu_ as the code     *)
(* holds it, from the first job of a call to the end of the last.          *)
(***************************************************************************)
EXTENDS SpinPool, Integers, Sequences, FiniteSets

CONSTANTS NThreads,                                                   \* SpinPool::size()
          Chunkings, Rows, OutRows, TaskLists, Window, MaxCalls       \* as CpuExperts has them

ASSUME ShapeAssumption ==
  /\ NThreads \in Nat \ {0} /\ Workers = 1..NThreads-1
  /\ Chunkings \subseteq Nat \ {0}
  /\ Rows \in Nat \ {0} /\ OutRows \in Nat \ {0} /\ Window \in Nat /\ MaxCalls \in Nat
  /\ \A ts \in TaskLists : ts # <<>> /\ ts \in Seq([t : 0..Window-1, expert : Nat])

VARIABLES
  chunks, calls, phase, tasks, next, tpc, cur, at, end, mine, xq, gu, rows_done, hq, out, \* CpuExperts
  inside                                                            \* the thread in CpuExpertPool::run

work == <<chunks, calls, phase, tasks, next, tpc, cur, at, end, mine, xq, gu, rows_done, hq, out>>
cpuVars == <<vars, work, inside>>

Work == INSTANCE CpuExperts WITH Parts <- NThreads

CpuTypeOK == TypeOK /\ Work!TypeOK /\ inside \in Callers \cup {None}

CpuInit == Init /\ Work!Init /\ inside = None

-----------------------------------------------------------------------------
\* CpuExpertPool::run: the lock, the grouping, the first closure
RunExperts(c, ts) ==
  /\ made + 3 <= MaxRuns
  /\ inside = None /\ inside' = c
  /\ RunLocked(c)
  /\ Work!Begin(ts)

\* the second and the third closure of the same call
NextJob(c) ==
  /\ inside = c /\ phase # "idle"
  /\ RunLocked(c)
  /\ UNCHANGED <<work, inside>>

\* CpuExpertPool::parallel, outside of run()
Gather == inside # Main /\ Parallel /\ UNCHANGED <<work, inside>>

\* the part a thread executes, and whether it has computed all of it
Executing(p) == IF p = 0 THEN inside # None /\ cpc[inside] = "part0" ELSE wpc[p] = "call"
PartOver(p) == phase # "idle" => tpc[p] = "done"

Compute(p) == Executing(p) /\ Work!ThreadStep(p) /\ UNCHANGED <<vars, inside>>

CallerGoesOn(c) ==
  \/ NextJob(c)
  \/ Bump(c) /\ UNCHANGED <<work, inside>>
  \/ PartOver(0) /\ EndPart0(c) /\ UNCHANGED <<work, inside>>
  \/ inside = c /\ Compute(0)
  \/ inside # c /\ ReturnFromRun(c) /\ UNCHANGED <<work, inside>>
  \/ /\ inside = c /\ ReturnFromRun(c) /\ Work!EndJob
     /\ inside' = IF phase' = "idle" THEN None ELSE c

WorkerGoesOn(w) ==
  \/ Wake(w) /\ UNCHANGED <<work, inside>>
  \/ Exit(w) /\ UNCHANGED <<work, inside>>
  \/ Call(w) /\ UNCHANGED <<work, inside>>
  \/ Compute(w)
  \/ PartOver(w) /\ EndCall(w) /\ UNCHANGED <<work, inside>>
  \/ MarkDone(w) /\ UNCHANGED <<work, inside>>

\* the engine thread, between its own calls: a stage's helper comes and goes, the pool ends
EngineStep ==
  /\ inside # Main
  /\ \/ \E h \in Helpers : CreateHelper(h)
     \/ \E h \in Helpers \ {inside} : JoinHelper(h)
     \/ Destroy
  /\ UNCHANGED <<work, inside>>

CpuNext ==
  \/ \E c \in Callers, ts \in TaskLists : RunExperts(c, ts)
  \/ Gather \/ EngineStep
  \/ \E c \in Callers : CallerGoesOn(c)
  \/ \E w \in Workers : WorkerGoesOn(w)

\* Every thread that has a step keeps being scheduled: they spin or compute, none waits on another program.
CpuSpec ==
  /\ CpuInit /\ [][CpuNext]_cpuVars
  /\ \A c \in Callers : WF_cpuVars(CallerGoesOn(c))
  /\ \A w \in Workers : WF_cpuVars(WorkerGoesOn(w))

-----------------------------------------------------------------------------
(* Properties, beside those of SpinPool: OneLiveClosure, ImplementsBarrier *)

\* When run() returns, every output element is the sum of its token's tasks, each once (CpuExperts).
ResultComplete == Work!ResultComplete

\* Nothing is read before it is computed: the SwiGLU of a group reads rows that are all there and no
\* thread still writes, the down product the h of every group, the first product quantized activations.
ReadsComplete == Work!SwiGluReadsAll /\ Work!DownReadsAll /\ Work!InputsReady

\* The result is whole and was computed from whole inputs, whichever thread took which rows.
ResultRight == CpuTypeOK /\ ResultComplete /\ ReadsComplete

\* A call of run() or parallel() returns, and the destructor's join ends.
EverythingEnds ==
  /\ \A c \in Callers : (cpc[c] # "idle" \/ inside = c) ~> (cpc[c] = "idle" /\ inside # c)
  /\ \A w \in Workers : stop ~> wpc[w] = "exit"
=============================================================================
