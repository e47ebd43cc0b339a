SPECIFICATION Spec
CONSTANTS
    Template <- MCTemplate
    ProcessLine = 1
    EndLine = 4
    Lines <- MCLines
    Libs <- MCLibs
    Schemas <- MCSchemas
    Digits <- MCDigits
    Digit <- MCDigit
    Words <- MCWords
    Rests <- MCRests
    MaxBody = 3
INVARIANTS
    TypeOK
    FormatIsTheTemplates
    DisclosedOnlyAsAllowed
    
PROPERTIES
    RejectedLineIsWrong
