CONSTANTS
    GBits = 1
    LBits = 1
    MBits = 1
    LhrBits = 1
    RegBits = 0
    PcBits = 1
SPECIFICATION Spec
INVARIANTS MetaFollowsOutcomes
