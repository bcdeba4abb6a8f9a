--------------------------- MODULE MCQtumWatcher ---------------------------
(* Model-checking instance of QtumWatcher: two lock-up transactions.       *)
EXTENDS QtumWatcher, TLC

CONSTANTS t1, t2

MCTx == {t1, t2}

\* The properties do not tell the transactions apart.
MCSymmetry == Permutations(MCTx)
=============================================================================
