SPECIFICATION TxSpec
CONSTANTS
    Senders = {s1, s2}
    TxCpus = {c1, c2}
    NumberOfTxDescriptors = 3
    MaxSends = 5
INVARIANT DescriptorIsDone
CHECK_DEADLOCK FALSE
