SPECIFICATION StartSpec
CONSTANTS
    Tools <- MCTools
    R2RTools = {"r2r_decide", "r2r_other"}
    Configs <- MCConfigs
INVARIANTS
    UngatedIsGovernance
    CatalogIsRouted
CHECK_DEADLOCK FALSE
