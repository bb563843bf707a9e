\* Memory for six: mallocs fail in every place, and places are used again.
CONSTANTS
    Keys = {"k"}
    Types = {"cJSON_Object", "cJSON_Array", "cJSON_Number"}
    NULL = NULL
    Items = {i1, i2, i3, i4, s1, s2, s3, s4, s5, s6, s7, s8, s9}
    Texts = {t1, t2, t3, s1, s2, s3, s4, s5, s6, s7, s8, s9}
    Spare = {s1, s2, s3, s4, s5, s6, s7, s8, s9}
    MaxCells = 6
    MaxRoots = 2
    MaxRefs = 2
    Documents <- SomeDocuments
SYMMETRY PlaceSymmetry
SPECIFICATION Spec
INVARIANTS
    WellFormed
    DuplicateIsIdentical
    PrintParses
PROPERTIES
    ImplementsForest
\* A call that follows a null pointer ends the program.
CHECK_DEADLOCK FALSE
