----------------------------- MODULE Sampling -----------------------------
(* What a token is drawn from (src/engine/sampler.cpp): a row of logits becomes a distribution either from the   *)
(* whole row, on the host, or from its most likely tokens, which the GPU selects (TopK), and the sum over all.   *)
(*                                                                                                               *)
(* Probabilities are integer weights.  exp((logit - max) / temperature) is a falling function of the distance to *)
(* the largest logit, 0 from 30 nats on.  Ids are the row's indices.                                             *)
EXTENDS TopK

CONSTANTS
  Exps,                 \* exp by distance: Exps[1] for the largest logit
  FirstHead, HeadGrowth,     \* 64 and 8: how many candidates are sorted at first, and how that number grows
  kTopkMax,             \* the most candidates the GPU selects
  Params,               \* sampling parameters: records of top_k, and min_p and top_p in parts of One
  One

ASSUME SamplingAssumption ==
  /\ Exps \in Seq(Nat \ {0}) /\ Exps # <<>> /\ \A i \in 1..Len(Exps) - 1 : Exps[i] > Exps[i + 1]
  /\ FirstHead \in Nat \ {0} /\ HeadGrowth \in Nat \ {0, 1} /\ kTopkMax \in Nat \ {0} /\ One \in Nat \ {0}
  /\ Params \subseteq [top_k : 0..kTopkMax, min_p : 0..One, top_p : 1..One]

Exp(row, b) ==
  LET distance == Max({ValueOf(row[c]) : c \in DOMAIN row}) - ValueOf(row[b])
  IN IF distance < Len(Exps) THEN Exps[distance + 1] ELSE 0

ExpSum(row, tokens) == SumOver([b \in tokens |-> Exp(row, b)], tokens)

\* A candidate's place in the order of the walk, most likely first.
Index(row, tokens, b) == Cardinality({c \in tokens : Ahead(row, c, b)})

\* The walk over the first `head' candidates breaks before one that is out of reach (where z is of all tokens) or below
\* min-p, and after the one that completes top-p: how many are kept at each place where it would.
Ends(row, tokens, head, sp, z, whole) ==
  LET w(b) == Index(row, tokens, b)
      walked == {b \in tokens : w(b) < head}
      Refused(b) == \/ whole /\ Exp(row, b) = 0
                    \/ sp.min_p > 0 /\ w(b) > 0 /\ Exp(row, b) * One < sp.min_p * Exps[1]
      Enough(b) == sp.top_p < One /\ ExpSum(row, {c \in tokens : ~Ahead(row, b, c)}) * One >= sp.top_p * z
  IN {w(b) : b \in {c \in walked : Refused(c)}} \cup {w(b) + 1 : b \in {c \in walked : Enough(c)}}

\* How many of n candidates are sorted, before all are: 64, and 8 times as many each time no cut is among them.
Heads(n) == {h \in 1..n : h = n \/ \E i \in 0..n : h = FirstHead * HeadGrowth^i}

NoDistribution == {}

\* mutant: the candidates the GPU selected are always enough
TrustedHead(row, tokens, sp, z_all) ==
  LET n == Cardinality(tokens)
      z == IF z_all > 0 THEN z_all ELSE ExpSum(row, tokens)
      kept == Min(Ends(row, tokens, n, sp, z, z_all > 0) \cup {n})
  IN {b \in tokens : Index(row, tokens, b) < kept}

\* Sampler::finish: what is kept of the candidates.  z_all > 0 is the sum over all tokens, of which these are the
\* head; there is no distribution if the cut lies beyond it.
finish(row, tokens, sp, z_all) ==
  LET n == Cardinality(tokens)
      whole == z_all > 0
      z == IF whole THEN z_all ELSE ExpSum(row, tokens)
      trunc == sp.min_p > 0 \/ sp.top_p < One
      ends(head) == Ends(row, tokens, head, sp, z, whole)
      head == Min({h \in (IF ~whole /\ trunc THEN Heads(n) ELSE {n}) : h = n \/ ends(h) # {}})
      kept == Min(ends(head) \cup {head})
  IN IF whole /\ ends(head) = {} THEN NoDistribution ELSE {b \in tokens : Index(row, tokens, b) < kept}

Selection(row, k) == {x[2] : x \in topk_rows(row, k)}

\* From the whole row, on the host: which of equal tokens are among the top k is left open (nth_element).
HostDistributions(row, sp) ==
  LET ids == DOMAIN row
      TopSet(S) == \A a \in S, b \in ids \ S : ValueOf(row[a]) >= ValueOf(row[b])
  IN IF sp.top_k \in 1..Cardinality(ids) - 1
     THEN {finish(row, S, sp, 0) : S \in {T \in kSubset(sp.top_k, ids) : TopSet(T)}}
     ELSE {finish(row, {b \in ids : Exp(row, b) > 0}, sp, 0)}

\* From the GPU's candidates.
row_distribution(row, sp) ==
  IF sp.top_k > 0 THEN finish(row, Selection(row, sp.top_k), sp, 0)
  ELSE finish(row, Selection(row, kTopkMax), sp, ExpSum(row, DOMAIN row))

\* Of a vocabulary that is larger than what the GPU selects, its candidates give a distribution the host could have, or
\* are refused.
SamePaths(row) ==
  \A sp \in Params :
    LET d == row_distribution(row, sp) IN d = NoDistribution \/ d \in HostDistributions(row, sp)

=============================================================================
