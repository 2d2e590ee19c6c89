SPECIFICATION Spec
CONSTANTS
    Texts <- AllTexts
    MaxDepth = 1
    NoName = NoName
    Once = Once
INVARIANTS TypeOK NearestParent SiblingsApart PlacesRight RefusedForCause
CHECK_DEADLOCK FALSE
