----------------------------- MODULE MCQueueStore -----------------------------
(* Values of the constants of QueueStore for TLC: two tasks, alike.        *)
EXTENDS QueueStore, TLC

CONSTANTS t1, t2

MCTask == {t1, t2}
Symmetry == Permutations(MCTask)
===============================================================================
