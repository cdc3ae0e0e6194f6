SPECIFICATION Spec
CONSTANTS
    s1 = s1
    s2 = s2
    None = None
    Other = Other
    Sidecars <- MCSidecars
PROPERTIES
    OnlyAbsentRoutesChange
