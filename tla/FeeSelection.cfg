\* Fee selection of SentContractCallFromAddress over every unspent list of
\* up to three outputs and two gas estimates.
CONSTANTS
    Amounts = {0, 1, 2, 3}
    MaxUtxos = 3
    GasUsed = {0, 2}
    GasMargin = 1
    GasPrice = 2
SPECIFICATION Spec
INVARIANT TypeOK
INVARIANT SelectionIsShortestCover
