CONSTANTS
    size_qw = 5
    num_words_to_notify = 1
    Threshold = 2
    Packet = 2
    MaxWords = 8
SPECIFICATION EagerSpec
INVARIANT FifoDelivery
CHECK_DEADLOCK FALSE
