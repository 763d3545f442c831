SPECIFICATION Spec
CONSTANTS
    Word = 64
    Schemas <- MCSchemas
    Sources <- MCSources
    MaxLength = 51
INVARIANT RejectsInvalidLayouts
