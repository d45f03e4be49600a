SPECIFICATION SmallSpec
CONSTANTS
    c1 = c1
    c2 = c2
    r1 = r1
    r2 = r2
    Conns = {c1, c2}
    Slots = {s1}
    NoSlot = s0
    GameOf <- OneGame
    Tags = {"a"}
    TagLists <- RepeatedLists
    Passwords = {p1, p2}
    Refreshers = {r1, r2}
    MaxFails = 0
    MaxMessages <- TwoAndOne
    MaxRefreshes = 1
    None = None
INVARIANTS IndexesAgree EndedIsForgotten KickedOnChange
PROPERTY KickedEnds
CHECK_DEADLOCK FALSE
