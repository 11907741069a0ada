SPECIFICATION Spec
CONSTANTS
    Sources = {s1, s2}
    ForeignUrls = {f1, f2}
    Vias = {v1, v2}
    Tokens = {t1, t2}
    NoSource = NoSource
    NoVia = NoVia
    NoToken = NoToken
    NoSettings = NoSettings
SYMMETRY Symmetry
INVARIANT HealthyMeansServed
