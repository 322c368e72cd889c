\* A stored conversation still taken for new keeps another one's rows.
SPECIFICATION Spec
CONSTANTS
    Windows = {w1, w2}
    Chats = {c1, c2, c3}
    Texts = {t1, t2}
    None = None
    MaxRequests = 3
    MaxExtra = 3
    MaxTogether = 5
SYMMETRY Symmetry
INVARIANT PageShowsItsChat
CHECK_DEADLOCK FALSE
