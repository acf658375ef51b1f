CONSTANTS
    size_qw = 3
    num_words_to_notify = 2
    Threshold = 2
    Packet = 2
    MaxWords = 4
    PayloadRange = 8
    MaxArrivals = 5
    MaxFailures = 1
SPECIFICATION FairSpec
PROPERTIES ImplementsRing EveryWordDelivered StallEnds DestructionEnds
CHECK_DEADLOCK FALSE
