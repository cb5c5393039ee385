\* Lists of up to four elements, two members, two scores and NaN.
CONSTANTS
    Member = {1, 2}
    Score <- WithNaN
    NaN = NaN
    Bad = Bad
    MaxArgs = 2
    MaxLen = 4
    Indexes <- MCIndexes
SPECIFICATION Spec
INVARIANTS TypeOK TreeMatchesDict
PROPERTIES CountsExact RangeReference ErrorsChangeNothing
