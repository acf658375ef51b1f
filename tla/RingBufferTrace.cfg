CONSTANTS
    size_qw = 6
    num_words_to_notify = 4
    Threshold = 3
    Packet = 2
    MaxWords = 12
SPECIFICATION FairSpec
INVARIANTS TypeOK FifoDelivery BufferIntact CreditConservation
PROPERTIES WordsDelivered NoPermanentStall
CHECK_DEADLOCK FALSE
