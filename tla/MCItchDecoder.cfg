SPECIFICATION Spec
CONSTANTS
    Word = 64
    Schemas <- MCSchemas
    Sources <- MCSources
    MaxLength = 51
INVARIANTS
    CompilesWhatIsDeclared LayoutSound DecodersAgree RefusesMalformed SampleDecodes
