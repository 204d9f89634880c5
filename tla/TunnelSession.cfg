CONSTANTS
    Conn = {c1, c2}
    Addr = {"a1", "a2"}
    Name = {"web", "ssh", "db"}
    Allow = {"web", "ssh"}
    Fwd = {f1}
    NoConn = NoConn
    AddrReuse = FALSE
SPECIFICATION FairSpec
INVARIANTS ReadyClientIsActive ForwardsAreGranted
PROPERTIES SlotRefinement GoneClientLeavesSlot
CHECK_DEADLOCK FALSE
