CONSTANTS
    Null = Null
    Names <- MCNames
    NumPages <- MCNumPages
    MaxPage = 2
    MaxRequests = 4

SPECIFICATION Spec

PROPERTY
    FreshSearchStartsAtPageZero
