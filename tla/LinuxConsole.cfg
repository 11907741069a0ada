SPECIFICATION Spec
CONSTANTS
    Profiles = {p1, p2, p3}
    Devices = {wlan1, wlan2}
    Keys = {k1, k2, k3}
    None = None
    MaxEdits = 2
SYMMETRY Symmetry
INVARIANT HotspotKnown
PROPERTY OthersKept
