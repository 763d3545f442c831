SPECIFICATION Spec
CONSTANTS
    Capacity = 4
    Keys = {a, b, c, d}
    Values = {u, v}
    Absent = Absent
SYMMETRY MCSymmetry
INVARIANTS TypeOK PathsUnbroken KeysUnique SizeExact
PROPERTY ImplementsMap
