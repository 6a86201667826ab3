SPECIFICATION Spec
CONSTANTS
    s1 = s1 s2 = s2 s3 = s3
    Sandboxes = {s1, s2, s3}
    Offered <- MCOffered
    Defaults <- MCDefaults
    MaxCount = 2
    None = None
SYMMETRY MCSymmetry
INVARIANTS TypeOK TerminalRestored ExitCodeHonest
PROPERTY OnlyWhatWasShown
