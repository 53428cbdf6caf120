---------------------------- MODULE MC_TwoStages ----------------------------
(* A request decodes on slot 2, a token alone or with two drafts of which the second is wrong, while the prompt of
   slot 1 is read: two chunks, or two and a tail.  Then both decode, together or in lanes.

   What the stages' layers read and add up is checked one launch at a time: a behaviour runs forwards, or it is one
   launch.  Rows of up to five floats with ties, negative ones and infinity, every cut; every window in a context of
   six blocks of two cells of which two are selected, with ties; three experts, one of them in a cold band, two per row,
   in windows of three rows; and every cut of the rows of logits that are drawn from.  Negative zero (Sign) is left out. *)
EXTENDS TwoStages, SparseAttention, RoutedExperts, Sampling

CONSTANT FloatRows    \* rows of logits or scores to select from

ASSUME FloatRowsAssumption == \A row \in FloatRows : IsRow(row)

VARIABLE launch

MCPrompts  == {4, 5}
MCDecoding == {2}
MCHows     == {<<1, 1>>, <<3, 2>>}
MCBands    == <<{1}>>
MCFourBands == <<{0}, {1}, {2}, {3}>>
MCRows     == UNION {[0..3 -> {0, 1, 2, 3}], [0..2 -> Floats], [0..4 -> {1, 5}]}

MCExps     == <<4, 2, 1>>
MCParams   == [top_k : 0..2, min_p : 0..2, top_p : 2..4]

NoLaunch == [what |-> "none"]
Launches == {[what |-> "window", pos0 |-> w[1], T |-> w[2]] : w \in Windows}
              \cup [what : {"selection"}, row : FloatRows]
              \cup [what : {"draw"}, row : {r \in FloatRows : Cardinality(DOMAIN r) > kTopkMax}]
              \cup [what : {"attention"}, q : ContextRows]
              \cup [what : {"experts"}, window : RoutedWindows]

\* A behaviour with a launch is that launch, and over.
RunForwards == launch = NoLaunch /\ Next /\ UNCHANGED launch

MCInit == Init /\ launch \in {NoLaunch} \cup Launches
MCSpec == MCInit /\ [][RunForwards]_<<vars, launch>> /\ Fairness

\* SelectsLargest of every row that is selected from: the block of threads takes the K largest, each once, whatever K.
TopKRight == launch.what = "selection" => SelectsLargest(launch.row)

\* SamePaths of every row that is drawn from: the head the GPU sends gives the host's distribution, or is refused.
SameOnBothPaths == launch.what = "draw" => SamePaths(launch.row)

\* SeesItsText of every window that is stored: no layer selects by a score or a pooled key an earlier text left.
SelectionSeesItsText == launch.what = "window" => SeesItsText(launch.pos0, launch.T)

\* Every row that attends, in a decode window, a prompt or a launch shared with neighbours, reads its context once.
ContextReadOnce == launch.what = "attention" => ReadsOnce(launch.q) /\ SharedReadOnce(launch.q)

\* AddsUpAlone of every window that is routed: a row's sum does not depend on the rows beside it, nor with BNK_EXACT on
\* whether there are any.
RowsAddUpAlone == launch.what = "experts" => AddsUpAlone(launch.window)

\* AddsItsOwn of every window that is routed.  README: not with MCFourBands.
RowsAddTheirOwn == launch.what = "experts" => AddsItsOwn(launch.window)
=============================================================================
