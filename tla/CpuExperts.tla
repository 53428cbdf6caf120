----------------------------- MODULE CpuExperts -----------------------------
(***************************************************************************)
(* CpuExpertPool::run (src/cpu/expert_pool.cpp): the routed experts of one *)
(* layer computed on the pool, in three jobs of the barrier WorkBarrier:   *)
(*   quantize  the activations of the tokens the tasks name, and zero out; *)
(*   gateup    the gate and up rows of every expert group, cut in ranges;  *)
(*             the thread that completes a group applies its SwiGLU;       *)
(*   output    the down product, row by row, summed into every token.      *)
(* Ranges are fixed slices, or claimed from a shared counter when          *)
(* chunks_per_thread_ > 1.  An activation is a set of what it was computed *)
(* from; an output element is the sequence of tasks summed into it.        *)
(***************************************************************************)
EXTENDS Integers, Sequences, FiniteSets

CONSTANTS
  Parts,       \* threads, the caller's included (SpinPool::size)
  Chunkings,   \* the values chunks_per_thread_ may have
  Rows,        \* 2 * n_ff: gate and up rows of an expert
  OutRows,     \* n_embd
  TaskLists,   \* the task lists run() may be called with: sequences of [t, expert]
  Window,      \* T, the rows of x and out
  MaxCalls     \* bound: calls explored

Threads == 0..Parts-1
NoChunk == -1

VARIABLES
  chunks,    \* chunks_per_thread_
  calls,     \* calls of run() so far
  phase,     \* idle, or the job under way
  tasks,
  next,      \* next1 / next2
  tpc,       \* per thread: at the claim, computing rows, counting them, last of a group, done
  cur,       \* the chunk it holds
  at, end,   \* the rows of it still to compute: [at, end)
  mine,      \* the rows just computed, not yet counted: [lo, hi)
  xq,        \* tokens quantized in this call
  gu,        \* rows computed in this call, by how often
  rows_done, \* rows_done_
  hq,        \* groups whose h is quantized, by how often
  out        \* the tasks summed into every output element; unwritten memory is not zero

work == <<next, tpc, cur, at, end, mine>>
data == <<xq, gu, rows_done, hq, out>>
vars == <<chunks, calls, phase, tasks, work, data>>

Tokens(ts) == {ts[i].t : i \in DOMAIN ts}
Dirty == <<-1>>      \* what an output element holds before it is zeroed

-----------------------------------------------------------------------------
(* Pure parts *)

\* the numbers of a finite set, ascending
Ascending(S) == [k \in 1..Cardinality(S) |-> CHOOSE i \in S : Cardinality({j \in S : j < i}) = k - 1]

\* groups_: the tasks' experts in the order of their first task
Groups(ts) ==
  LET order == Ascending({i \in DOMAIN ts : \A j \in 1..i-1 : ts[j].expert # ts[i].expert})
  IN  [k \in DOMAIN order |-> ts[order[k]].expert]

\* tok_used: the first tasks of the tokens, in order
UsedTokens(ts) == Ascending({i \in DOMAIN ts : \A j \in 1..i-1 : ts[j].t # ts[i].t})

\* the tasks of a token, in order
TasksOf(ts, t) == Ascending({i \in DOMAIN ts : ts[i].t = t})

Split(n, part, nparts) == [b |-> (n * part) \div nparts, e |-> (n * (part + 1)) \div nparts]

AllRows == Len(Groups(tasks)) * Rows

Min2(a, b) == IF a < b THEN a ELSE b
Max2(a, b) == IF a < b THEN b ELSE a

\* nchunk1 / nchunk2 for n rows of work
NChunks(n) == IF chunks > 1 THEN Max2(1, Min2(n, chunks * Parts)) ELSE Parts

TypeOK ==
  /\ chunks \in Chunkings
  /\ calls \in 0..MaxCalls
  /\ phase \in {"idle", "quantize", "gateup", "output"}
  /\ tasks \in TaskLists \cup {<<>>}
  /\ next \in Nat
  /\ tpc \in [Threads -> {"claim", "rows", "count", "swiglu", "done"}]
  /\ \A p \in Threads : cur[p] \in Int /\ 0 <= at[p] /\ at[p] <= end[p] /\ mine[p].lo <= mine[p].hi
  /\ xq \subseteq 0..Window-1
  /\ gu \in [0..AllRows-1 -> Nat]
  /\ rows_done \in [DOMAIN Groups(tasks) -> 0..Rows]
  /\ hq \in [DOMAIN Groups(tasks) -> Nat]
  /\ DOMAIN out = (0..Window-1) \X (0..OutRows-1)

NoRows == [p \in Threads |-> [lo |-> 0, hi |-> 0]]

Init ==
  /\ chunks \in Chunkings
  /\ calls = 0 /\ phase = "idle" /\ tasks = <<>>
  /\ next = 0
  /\ tpc = [p \in Threads |-> "claim"] /\ cur = [p \in Threads |-> NoChunk]
  /\ at = [p \in Threads |-> 0] /\ end = [p \in Threads |-> 0] /\ mine = NoRows
  /\ xq = {} /\ gu = <<>> /\ rows_done = <<>> /\ hq = <<>>
  /\ out = [x \in (0..Window-1) \X (0..OutRows-1) |-> Dirty]

-----------------------------------------------------------------------------
\* pool_->run: every thread enters the job, with a counter of its own.
StartJob ==
  /\ next' = 0
  /\ tpc' = [p \in Threads |-> "claim"] /\ cur' = [p \in Threads |-> NoChunk]
  /\ at' = [p \in Threads |-> 0] /\ end' = [p \in Threads |-> 0] /\ mine' = NoRows

ResetCounts(ts) == rows_done' = [g \in DOMAIN Groups(ts) |-> 0]

\* run() up to the first job: the lock, the grouping, the reset of rows_done_.
Begin(ts) ==
  /\ phase = "idle" /\ calls < MaxCalls
  /\ calls' = calls + 1 /\ phase' = "quantize" /\ tasks' = ts
  /\ StartJob
  /\ xq' = {}
  /\ gu' = [r \in 0..(Len(Groups(ts)) * Rows - 1) |-> 0]
  /\ ResetCounts(ts)
  /\ hq' = [g \in DOMAIN Groups(ts) |-> 0]
  /\ out' = [x \in DOMAIN out |-> Dirty]
  /\ UNCHANGED chunks

\* the first job: this part's share of the named tokens and of out's rows
Quantize(p) ==
  /\ phase = "quantize" /\ tpc[p] = "claim"
  /\ LET u == Split(Len(UsedTokens(tasks)), p, Parts)
         z == Split(Window, p, Parts)
     IN  /\ xq' = xq \cup {tasks[UsedTokens(tasks)[k]].t : k \in u.b + 1 .. u.e}
         /\ out' = [x \in DOMAIN out |-> IF z.b <= x[1] /\ x[1] < z.e THEN <<>> ELSE out[x]]
  /\ tpc' = [tpc EXCEPT ![p] = "done"]
  /\ UNCHANGED <<chunks, calls, phase, tasks, next, cur, at, end, mine, gu, rows_done, hq>>

\* The chunk thread p takes next: from the counter, or its own slice once.
Claimed(p) == IF chunks > 1 THEN next ELSE IF cur[p] = NoChunk THEN p ELSE Parts

Advance(p) == next' = IF chunks > 1 THEN next + 1 ELSE next

Claim(p) ==
  /\ phase \in {"gateup", "output"} /\ tpc[p] = "claim"
  /\ Advance(p)
  /\ LET n == IF phase = "gateup" THEN AllRows ELSE OutRows
         c == Claimed(p)
         range == Split(n, c, NChunks(n))
     IN  IF c < NChunks(n)
         THEN /\ tpc' = [tpc EXCEPT ![p] = "rows"] /\ cur' = [cur EXCEPT ![p] = c]
              /\ at' = [at EXCEPT ![p] = range.b] /\ end' = [end EXCEPT ![p] = range.e]
         ELSE tpc' = [tpc EXCEPT ![p] = "done"] /\ UNCHANGED <<cur, at, end>>
  /\ UNCHANGED <<chunks, calls, phase, tasks, mine, data>>

\* A range is used up: back to the claim.
RangeDone(p) ==
  /\ phase \in {"gateup", "output"} /\ tpc[p] = "rows" /\ at[p] = end[p]
  /\ tpc' = [tpc EXCEPT ![p] = "claim"]
  /\ UNCHANGED <<chunks, calls, phase, tasks, next, cur, at, end, mine, data>>

\* the second job: the rows of one group inside the range
GroupAt(r) == r \div Rows + 1        \* gi, counted from 1

GateUpRows(p) ==
  /\ phase = "gateup" /\ tpc[p] = "rows" /\ at[p] < end[p]
  /\ LET stop == Min2(end[p], GroupAt(at[p]) * Rows)     \* r_end
     IN  /\ gu' = [r \in DOMAIN gu |-> IF at[p] <= r /\ r < stop THEN gu[r] + 1 ELSE gu[r]]
         /\ mine' = [mine EXCEPT ![p] = [lo |-> at[p], hi |-> stop]]
         /\ at' = [at EXCEPT ![p] = stop]
  /\ tpc' = [tpc EXCEPT ![p] = "count"]
  /\ UNCHANGED <<chunks, calls, phase, tasks, next, cur, end, xq, rows_done, hq, out>>

\* mutant: the rows counted from the range's start
MineFromStart(p) == mine[p].hi - Split(AllRows, cur[p], NChunks(AllRows)).b

Mine(p) == mine[p].hi - mine[p].lo
LastOfGroup(done) == done = Rows

\* rows_done_[gi].fetch_add(mine): one thread sees the group complete.
CountRows(p) ==
  /\ phase = "gateup" /\ tpc[p] = "count"
  /\ LET g == GroupAt(mine[p].lo)
     IN  /\ rows_done' = [rows_done EXCEPT ![g] = @ + Mine(p)]
         /\ tpc' = [tpc EXCEPT ![p] = IF LastOfGroup(rows_done'[g]) THEN "swiglu" ELSE "rows"]
  /\ UNCHANGED <<chunks, calls, phase, tasks, next, cur, at, end, mine, xq, gu, hq, out>>

\* gate times up of the whole group, quantized for the down product
SwiGlu(p) ==
  /\ phase = "gateup" /\ tpc[p] = "swiglu"
  /\ hq' = [hq EXCEPT ![GroupAt(mine[p].lo)] = @ + 1]
  /\ tpc' = [tpc EXCEPT ![p] = "rows"]
  /\ UNCHANGED <<chunks, calls, phase, tasks, next, cur, at, end, mine, xq, gu, rows_done, out>>

\* the third job: one output row, every task's contribution added to its token in task order
OutputRow(p) ==
  /\ phase = "output" /\ tpc[p] = "rows" /\ at[p] < end[p]
  /\ out' = [x \in DOMAIN out |->
               IF x[2] = at[p] THEN out[x] \o TasksOf(tasks, x[1]) ELSE out[x]]
  /\ at' = [at EXCEPT ![p] = @ + 1]
  /\ UNCHANGED <<chunks, calls, phase, tasks, next, tpc, cur, end, mine, xq, gu, rows_done, hq>>

\* pool_->run returns when every part has ended; the counters of the next job are fresh.
EndJob ==
  /\ phase # "idle" /\ \A p \in Threads : tpc[p] = "done"
  /\ phase' = CASE phase = "quantize" -> "gateup" [] phase = "gateup" -> "output" [] phase = "output" -> "idle"
  /\ StartJob
  /\ UNCHANGED <<chunks, calls, tasks, data>>

ThreadStep(p) ==
  \/ Quantize(p) \/ Claim(p) \/ RangeDone(p)
  \/ GateUpRows(p) \/ CountRows(p) \/ SwiGlu(p) \/ OutputRow(p)

Next ==
  \/ \E ts \in TaskLists : Begin(ts)
  \/ \E p \in Threads : ThreadStep(p)
  \/ EndJob

Spec == Init /\ [][Next]_vars

-----------------------------------------------------------------------------
(* Properties *)

\* When run() returns every output element is the sum of its token's tasks, each once and in task
\* order (the order a one-token window uses, so that speculation reproduces plain decoding), on
\* memory that was zeroed first, however the rows were cut and whichever thread took them.
ResultComplete ==
  phase = "idle" /\ calls > 0 =>
    \A t \in 0..Window-1, r \in 0..OutRows-1 :
      out[<<t, r>>] = TasksOf(tasks, t)

\* The SwiGLU of a group reads gate and up rows that are all computed, its own included, and no
\* thread still writes one.
SwiGluReadsAll ==
  \A p \in Threads : tpc[p] = "swiglu" =>
    LET g == GroupAt(mine[p].lo) IN \A r \in (g - 1) * Rows .. g * Rows - 1 : gu[r] = 1

\* The down product reads the h of every group, written exactly once.
DownReadsAll == phase = "output" => \A g \in DOMAIN hq : hq[g] = 1

\* The gate and up product reads quantized activations only.
InputsReady == phase = "gateup" => xq = Tokens(tasks)
=============================================================================
