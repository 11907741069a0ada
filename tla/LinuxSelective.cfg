SPECIFICATION Spec
CONSTANTS
    Sources = {s1, s2}
    ForeignUrls = {f1, f2}
    Vias = {v1, v2}
    NoSource = NoSource
    NoVia = NoVia
    NoSetting = NoSetting
SYMMETRY Symmetry
INVARIANTS TypeOK RestorePointSafe ExactSettings ServedAsRegistered
PROPERTY NoDriftOverwrite
