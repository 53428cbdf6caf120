-------------------------- MODULE SparseAttention --------------------------
(* The sparse attention of a full-attention layer (src/kernels/qsa.cu, called by Engine::attn, Engine::pf_attn    *)
(* and MtpLayer::enqueue).  Ratio consecutive cells are a block, with a pooled key.  A row near the start attends *)
(* to every cell; any other scores the complete blocks before its own, selects the TopBlocks best (TopK) and      *)
(* attends to their cells and to its tail.                                                                        *)
(*                                                                                                                *)
(* A window of T rows at cell pos0 stores its keys and pools the blocks it completes, then its rows read.  Of     *)
(* what is stored only this matters: is it of the text before the row, or left over from rows that were refused   *)
(* or rolled back?  The layer's kernels differ in who reads which cell; each is the set of the reads it makes.    *)
EXTENDS TopK, SequencesExt

CONSTANTS
  Ratio, TopBlocks,
  Cells,             \* of the context
  MaxRows,           \* of a window
  Tile,              \* rows, and blocks, of a tile of qsa_score_tiled_k
  KeyTile,           \* QA_KT: keys of a tile of a prompt row's attention
  Splits, MinKeys,   \* kQsaSplits, and the 64 keys a split has at least
  Neighbours,        \* the numbers of rows a block of qsa_attn_prefill_multi_k may take
  Scores             \* what a block may score: floats that are not negative

ASSUME SparseAttentionAssumption ==
  /\ {Ratio, TopBlocks, Cells, MaxRows, Tile, KeyTile, Splits, MinKeys} \subseteq Nat \ {0}
  /\ Neighbours \subseteq Nat \ {0} /\ Scores \subseteq 0..Sign - 1

dense_cells == TopBlocks * Ratio + Ratio - 1
max_blocks == Cells \div Ratio + 1

Complete(q) == (q + 1) \div Ratio              \* the blocks before q's tail
TailStart(q) == Complete(q) * Ratio
Dense(q) == q + 1 <= dense_cells

-----------------------------------------------------------------------------
(* What is stored: the cells whose raw keys, and the blocks whose pooled keys, are of the text. *)

Below(pos) == [kraw |-> 0..pos - 1, pooled |-> 0..pos \div Ratio - 1]

qsa_store_keys(kept, pos0, T) == [kept EXCEPT !.kraw = @ \cup (pos0..pos0 + T - 1)]

\* Of `grid' candidate blocks, those that end in the window are pooled.
PoolOf(kept, pos0, T, grid) ==
  LET ending == {b \in pos0 \div Ratio .. pos0 \div Ratio + grid - 1 :
                   b * Ratio + Ratio - 1 \in pos0..pos0 + T - 1}
      right == {b \in ending : b * Ratio .. b * Ratio + Ratio - 1 \subseteq kept.kraw}
  IN [kept EXCEPT !.pooled = (@ \ ending) \cup right]

\* mutant: enough blocks only for windows that start one
PoolAligned(kept, pos0, T) == PoolOf(kept, pos0, T, T \div Ratio)

qsa_pool(kept, pos0, T) == PoolOf(kept, pos0, T, T \div Ratio + 2)

Stored(pos0, T) == qsa_pool(qsa_store_keys(Below(pos0), pos0, T), pos0, T)

Windows == {w \in (0..Cells - 1) \X (1..MaxRows) : w[1] + w[2] <= Cells}

-----------------------------------------------------------------------------
(* The scores each kernel writes into the scratch, as <<row, block>>. *)

\* x is of a sparse row of the window at pos0, and of a block before its tail
Selectable(pos0, x) == ~Dense(pos0 + x[1]) /\ x[2] < Complete(pos0 + x[1])

Scored(pos0, T) == {x \in (0..T - 1) \X (0..max_blocks - 1) : Selectable(pos0, x)}

qsa_score_k(pos0, T) ==
  UNION {{<<t, b>> : b \in 0..Complete(pos0 + t) - 1} : t \in {u \in 0..T - 1 : ~Dense(pos0 + u)}}

\* One thread per block takes all rows of the window.
qsa_score_win_k(pos0, T) == {x \in (0..T - 1) \X (0..(pos0 + T) \div Ratio - 1) : Selectable(pos0, x)}

\* The tiles of the grid, by their first row and block.
Tiles(T) == {x \in {Tile * i : i \in 0..T} \X {Tile * i : i \in 0..max_blocks} : x[1] < T /\ x[2] < max_blocks}

TileWrites(tiles, pos0, T) ==
  UNION {{x \in (m[1]..Min({T, m[1] + Tile}) - 1) \X (m[2]..m[2] + Tile - 1) : Selectable(pos0, x)} : m \in tiles}

\* mutant: a tile is skipped by its first row
TilesByFirstRow(pos0, T) == TileWrites({x \in Tiles(T) : x[2] < Complete(pos0 + x[1])}, pos0, T)

\* Tiles that no row reaches, the last one included, are skipped.
qsa_score_tiled_k(pos0, T) ==
  TileWrites({x \in Tiles(T) : x[2] < Complete(pos0 + Min({T, x[1] + Tile}) - 1)}, pos0, T)

-----------------------------------------------------------------------------
(* Selection, and the cells a row reads. *)

\* The selected blocks of a sparse row, in block order; none for a dense one.
qsa_topk(scores, q) ==
  IF Dense(q) THEN <<>>
  ELSE LET writes == topk_rows([b \in 0..Complete(q) - 1 |-> scores[b]], TopBlocks)
       IN [s \in 1..TopBlocks |-> CHOOSE b \in 0..Complete(q) - 1 : <<s - 1, b>> \in writes]

qsa_cell(i, sel, tail) ==
  LET nsc == Len(sel) * Ratio
  IN IF i < nsc THEN sel[i \div Ratio + 1] * Ratio + (i % Ratio) ELSE tail + i - nsc

Keys(sel, q) == IF sel = <<>> THEN q + 1 ELSE Len(sel) * Ratio + (q + 1 - TailStart(q))

CellOf(i, sel, q) == IF sel = <<>> THEN i ELSE qsa_cell(i, sel, TailStart(q))

\* A decode row: its keys are split, and the partial results combined.  Reads are <<split, key, cell>>.
qsa_attention(sel, q) ==
  LET n == Keys(sel, q)
      kps == Max({MinKeys, (n + Splits - 1) \div Splits})
  IN UNION {{<<s, i, CellOf(i, sel, q)>> : i \in s * kps .. Min({n, s * kps + kps}) - 1} : s \in 0..Splits - 1}

\* A prompt row on its own, a tile of keys at a time, the last one masked.
qsa_attention_prefill(sel, q) ==
  LET n == Keys(sel, q)
  IN UNION {{<<k0, k, CellOf(k0 + k, sel, q)>> : k \in 0..Min({KeyTile, n - k0}) - 1} :
              k0 \in {k \in 0..n - 1 : k % KeyTile = 0}}

\* The lower bound in a sorted selection.
contains(sel, b) ==
  LET lo == Cardinality({i \in DOMAIN sel : sel[i] < b}) + 1
  IN lo \in DOMAIN sel /\ sel[lo] = b

NbMin(sels, q0) == Min({Complete(q0 + rr - 1) : rr \in DOMAIN sels})

\* The blocks rows selected up to a bound, each once, with the rows it is for; then every cell from nb_min on, with its
\* rows.  Reads are <<part, block, cell>>, by row.
UnionAndTails(sels, q0, bound) ==
  LET nb_min == NbMin(sels, q0)
      Q(rr) == q0 + rr - 1
      blocks == UNION {{b \in Range(sels[rr]) : b < bound} : rr \in DOMAIN sels}
      FromUnion(rr) == {<<0, b, b * Ratio + i>> : b \in {x \in blocks : contains(sels[rr], x)}, i \in 0..Ratio - 1}
      FromTails(rr) == {<<1, c \div Ratio, c>> :
                          c \in {d \in nb_min * Ratio .. Q(rr) :
                                   \/ d >= TailStart(Q(rr))
                                   \/ d \div Ratio < Complete(Q(rr)) /\ contains(sels[rr], d \div Ratio)}}
  IN [rr \in DOMAIN sels |-> FromUnion(rr) \cup FromTails(rr)]

\* mutant: the block at nb_min is in the union too
UnionOneMore(sels, q0) == UnionAndTails(sels, q0, NbMin(sels, q0) + 1)

\* Neighbouring sparse rows, from q0 on.
qsa_attention_prefill_multi(sels, q0) == UnionAndTails(sels, q0, NbMin(sels, q0))

\* pf_attn: the first row of N that selects.
FirstSparse(pos0, N) == Max({0, Min({N, dense_cells - pos0})})

\* What a row should attend to: everything, or the cells of the best blocks and its tail.
Context(scores, q) ==
  IF Dense(q) THEN 0..q
  ELSE {c \in 0..q : c >= TailStart(q) \/ c \div Ratio \in Largest([b \in 0..Complete(q) - 1 |-> scores[b]], TopBlocks)}

Once(reads, cells) ==
  /\ {x[3] : x \in reads} = cells
  /\ Cardinality(reads) = Cardinality(cells)

ContextRows == 0..Cells - 1

AllScores(q) == [0..Max({0, Complete(q) - 1}) -> Scores]

\* Sets of TopBlocks of the first n blocks, in block order; and the cells a row attends to that selected so, or not at all.
Selections(n) ==
  {sel \in [1..TopBlocks -> 0..n - 1] : \A i, j \in 1..TopBlocks : i < j => sel[i] < sel[j]}

Attended(sel, q) == {c \in 0..q : sel = <<>> \/ c >= TailStart(q) \/ c \div Ratio \in Range(sel)}

\* A decode row and a prompt row attend to each cell of their context once, wherever the splits fall (ReadsOnce); and
\* rows that share a launch of qsa_attn_prefill_multi_k each to their own, whatever each selects (SharedReadOnce).
ReadsOnce(q) ==
  \A scores \in AllScores(q) :
    LET sel == qsa_topk(scores, q) IN
    /\ Once(qsa_attention(sel, q), Context(scores, q))
    /\ Once(qsa_attention_prefill(sel, q), Context(scores, q))

SharedReadOnce(q0) ==
  \A R \in Neighbours :
       (~Dense(q0) /\ q0 + R <= Cells) =>
         \A sels \in [1..R -> Selections(Complete(q0 + R - 1))] :
           (\A rr \in 1..R : sels[rr] \in Selections(Complete(q0 + rr - 1))) =>
             \A rr \in 1..R : Once(qsa_attention_prefill_multi(sels, q0)[rr], Attended(sels[rr], q0 + rr - 1))

\* Whatever window stores its keys, the selection of each of its rows sees scores of this launch, of pooled keys of the
\* text: the kernels score the blocks before a sparse row's tail and no others (the scratch keeps an earlier launch's
\* scores); they are pooled by then, and stay so however many rows are accepted (qsa_pool's guard and grid: no refused
\* row's key is left in a block); and the rows pf_attn gives to the shared launch all select.
SeesItsText(pos0, T) ==
    LET kept == Stored(pos0, T) IN
    /\ \A kernel \in {qsa_score_k(pos0, T), qsa_score_win_k(pos0, T), qsa_score_tiled_k(pos0, T)} :
         kernel = Scored(pos0, T)
    /\ \A t \in 0..T - 1 :
         /\ 0..Complete(pos0 + t) - 1 \subseteq kept.pooled
         /\ Below(pos0 + t + 1).kraw \subseteq kept.kraw /\ Below(pos0 + t + 1).pooled \subseteq kept.pooled
         /\ Dense(pos0 + t) <=> t < FirstSparse(pos0, T)
=============================================================================
