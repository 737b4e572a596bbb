\* Request data of up to the largest size that fits the message buffer.
CONSTANTS
    Lens = {4}
    Bytes = {0}
    TopBytes = {0}
    Texts = {0}
    JsonTexts = {1}
    Sizes = {0, 1, 255, 256, 257, 2038, 2039, 2041, 2042}
SPECIFICATION WireSpec
INVARIANTS RequestLengthTold
CHECK_DEADLOCK FALSE
