SPECIFICATION Spec
CONSTANTS
    PIIType = {"email", "ssn"}
    Zone = {"+00", "+02"}
    Origin <- MCOrigin
    WarmUp = 1
    Test <- MCTest
    Window = 60
    MaxWindow = 300
    MaxDetails = 1
    Histories <- MCHistories
    Requests <- MCRequests
    Now = 140
    Queries = {2, 0, 200}
INVARIANTS
    TypeOK
    WindowsAreExact
    ReplayFindsAll
    DetailsAreTheFirst
    ViewsAgree
    RecentIsPooled
