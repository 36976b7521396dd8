\* Pairs and triples of values, selections of fields, and IDs.
SPECIFICATION Spec
CONSTANTS
    DropFields <- MCDropFields
    ObjectFields <- MCObjectFields
    IntSize = 256
    NumericLimit = 1000
    MinVarchar = 16
    MaxText = 50
    MaxDeclared = 40
    NumberLength <- MCNumberLength
    Garbage <- MCGarbage
    Fields <- MCFields
    NameOf <- MCNameOf
    Inputs <- MCInputs
INVARIANTS
    TypeOK
    StringsFit
    RefusedForCause
    ColumnsShowSource
    NamesDecoded
