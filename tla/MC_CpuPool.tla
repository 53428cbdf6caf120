----------------------------- MODULE MC_CpuPool -----------------------------
(* Three experts of three rows on two threads, called by the engine thread and by the second stage's *)
(* helper: ranges that cross a group's end, groups shared by tokens, a second call with fewer groups; *)
(* one fixed slice per thread, or two claimed ranges.                                                 *)
EXTENDS CpuPool

CONSTANT h1

Task(t, e) == [t |-> t, expert |-> e]

MCTaskLists == {<<Task(0, 1), Task(0, 2), Task(1, 1), Task(1, 3)>>, <<Task(1, 2)>>}
OneHelper  == {h1}
=============================================================================
