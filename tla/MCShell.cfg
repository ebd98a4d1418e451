INIT MCInit
NEXT ShellNext
CONSTANTS
    Messages = {m1, m2, m3}
    Presses = {p1}
    Toggles = {t1, t2}
    None = None
SYMMETRY Alike
INVARIANTS CommandsReachBash RepliesMatch
CHECK_DEADLOCK FALSE
