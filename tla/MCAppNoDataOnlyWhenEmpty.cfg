CONSTANTS
    Null = Null
    Names <- MCNames
    NumPages <- MCNumPages
    HasDnsRecords <- MCHasDnsRecords
    MaxPage = 2
    MaxRequests = 3
    MaxDnsRequests = 2

SPECIFICATION AppSpec

INVARIANT NoDataOnlyWhenEmpty
