SPECIFICATION ApprovalSpec
CONSTANTS
    p1 = p1
    p2 = p2
    p3 = p3
    e1 = e1
    e2 = e2
    NoVersion = NoVersion
    Person <- MCPerson
    Author <- MCAuthor
    Editor <- MCEditor
    Required = 2
    MaxVersions = 3
INVARIANTS
    ApprovedWithEnough
    ApprovedIsCurrent
PROPERTIES
    CurrentApprovalStays
