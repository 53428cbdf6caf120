------------------------------- MODULE TopK -------------------------------
(* The K largest of a row of logits, as one block of GPU threads finds them (topk_rows_k of src/kernels/ops.cu;
   qsa_topk_k of src/kernels/qsa.cu selects attention blocks the same way): a radix select of the K-th largest key, a
   digit at a time, then every thread takes what is above it and the first equal ones of its range, and two scans, in
   warps and over them, say where it writes them.

   A row is a function from 0..n-1 to floats; a float is its bits, sign first. *)
EXTENDS Integers, Sequences, FiniteSets, FiniteSetsExt

CONSTANTS
  Digits, Radix,   \* the radix digits of a float's bits: 4 of 8 bits
  Threads, Warp    \* threads of a block, and of a warp

ASSUME TopKAssumption ==
  /\ Digits \in Nat \ {0} /\ Radix \in Nat \ {0} /\ Radix % 2 = 0
  /\ Threads \in Nat \ {0} /\ Warp \in 1..Threads /\ Threads % Warp = 0

\* What a digit counts that has i digits below it: 1 << shift.
Place[i \in 0..Digits] == IF i = 0 THEN 1 ELSE Radix * Place[i - 1]

\* the top bit; without negative zero, floats are ordered by their values alone
Sign == Place[Digits] \div 2
Floats == (0..2 * Sign - 1) \ {Sign}

IsRow(row) ==
  /\ IsFiniteSet(DOMAIN row) /\ DOMAIN row # {} /\ DOMAIN row = 0..Cardinality(DOMAIN row) - 1
  /\ \A b \in DOMAIN row : row[b] \in Floats

ValueOf(f) == IF f < Sign THEN f ELSE Sign - f

\* Unsigned integers with the order of the floats: negative ones flipped, positive ones given the top bit.
order_key(f) == IF f >= Sign THEN 2 * Sign - 1 - f ELSE f + Sign

Holds(row, b, digits, prefix) == order_key(row[b]) \div Place[Digits - digits] = prefix

\* hist[d..], summed: keys that match the prefix and whose next digit is d or more
AtLeast(row, digits, prefix, d) ==
  Cardinality({b \in DOMAIN row : \E e \in d..Radix - 1 : Holds(row, b, digits + 1, prefix * Radix + e)})

\* The digit whose bin holds the want-th largest; the walk down the bins ends at 0 at the latest.
DigitOf(row, digits, sel) ==
  Max({0} \cup {d \in 1..Radix - 1 : AtLeast(row, digits, sel.prefix, d) >= sel.want})

\* mutant: the bin's own keys count as those above it
DigitTaken(row, digits, sel) ==
  LET d == DigitOf(row, digits, sel) IN
  [prefix |-> sel.prefix * Radix + d, want |-> sel.want - AtLeast(row, digits, sel.prefix, d)]

\* One digit: the prefix grows, and the keys above the digit's bin are no longer wanted among the equal ones.
NextDigit(row, digits, sel) ==
  LET d == DigitOf(row, digits, sel) IN
  [prefix |-> sel.prefix * Radix + d, want |-> sel.want - AtLeast(row, digits, sel.prefix, d + 1)]

\* The K-th largest key, and how many of the keys equal to it are among the K.
Selected(row, k) ==
  LET after[i \in 0..Digits] ==
        IF i = 0 THEN [prefix |-> 0, want |-> k] ELSE NextDigit(row, i - 1, after[i - 1])
  IN after[Digits]

\* The contiguous range of a thread.
RangeOf(row, t) ==
  LET n == Cardinality(DOMAIN row)
      per == (n + Threads - 1) \div Threads
  IN t * per .. Min({n, (t + 1) * per}) - 1

\* The counts of us added up: as many pairs.
SumOver(counts, us) == Cardinality(UNION {{u} \X (1..counts[u]) : u \in us})

\* A block's exclusive scan: inclusive in each warp, then over the warps' totals.
Before(counts, t) ==
  LET w == t \div Warp
      totals == [v \in 0..w - 1 |-> SumOver(counts, v * Warp .. v * Warp + Warp - 1)]
  IN SumOver(totals, 0..w - 1) + SumOver(counts, w * Warp .. t) - counts[t]

AboveCut(row, sel) == {b \in DOMAIN row : order_key(row[b]) > sel.prefix}
AtCut(row, sel) == {b \in DOMAIN row : order_key(row[b]) = sel.prefix}

\* How many of S thread t counts before b: those of the threads before it by the scan, and its own on its way to b.
CountedBefore(S, row, t, b) ==
  Before([u \in 0..Threads - 1 |-> Cardinality(S \cap RangeOf(row, u))], t)
    + Cardinality({c \in S \cap RangeOf(row, t) : c < b})

\* What a thread writes: <<slot, index>> pairs.
Writes(row, sel, t) ==
  LET ia(b) == CountedBefore(AboveCut(row, sel), row, t, b)
      ie(b) == CountedBefore(AtCut(row, sel), row, t, b)
  IN {<<ia(b) + Min({ie(b), sel.want}), b>> : b \in AboveCut(row, sel) \cap RangeOf(row, t)}
       \cup {<<ia(b) + ie(b), b>> : b \in {c \in AtCut(row, sel) \cap RangeOf(row, t) : ie(c) < sel.want}}

topk_rows(row, k) == UNION {Writes(row, Selected(row, k), t) : t \in 0..Threads - 1}

Ahead(row, a, b) ==
  ValueOf(row[a]) > ValueOf(row[b]) \/ (ValueOf(row[a]) = ValueOf(row[b]) /\ a < b)

Largest(row, k) == {b \in DOMAIN row : Cardinality({c \in DOMAIN row : Ahead(row, c, b)}) < k}

\* The block writes every slot once, and what it writes are the K largest, of equal ones the first: the scans of
\* two kinds of picks (topk_rows_k's ia and ie) never meet, whatever the ties.
SelectsLargest(row) ==
  \A k \in 1..Cardinality(DOMAIN row) :
    LET writes == topk_rows(row, k) IN
    /\ Cardinality(writes) = k
    /\ {x[1] : x \in writes} = 0..k - 1
    /\ {x[2] : x \in writes} = Largest(row, k)
=============================================================================
