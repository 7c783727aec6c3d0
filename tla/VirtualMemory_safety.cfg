SPECIFICATION Spec
CONSTANTS
    Roots = {r1, r2}
    Dirs = {1}
    Slots = {1, 2}
    Frames = {1}
    Mapped = {1}
    Flags = {{}, {"present"}, {"present", "writable", "user"}}
INVARIANTS TlbIsCurrent HitAgreesWithWalk
PROPERTIES FaultLeavesMemory
