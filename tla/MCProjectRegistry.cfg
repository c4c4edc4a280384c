SPECIFICATION Spec
CONSTANTS
    p1 = p1
    p2 = p2
    Projects <- MCProjects
    Disks <- MCDisks
    Target <- MCTarget
    Services = {web, db}
    v1 = v1
    Versions = {v1, v2}
    Scans = {s1, s2}
    Details = {d1, d2}
    Initial = Initial
    None = None
    MaxEdits = 1
    MaxChanges = 1
INVARIANTS RegistryMatchesDisk RegistryInv
SYMMETRY MCSymmetry
PROPERTY AnswerIsOneSnapshot
