\* Two handlers at a time on one workflow of up to two versions.
CONSTANTS
    f1 = f1
    h1 = h1
    h2 = h2
    Workflows = {f1}
    Handlers = {h1, h2}
    MaxVersions = 2
SPECIFICATION Spec
SYMMETRY HandlerSymmetry
INVARIANTS
    VersionsContiguous
    PublishedWasApproved
    PublishedHasVersion
    ExecutionsWereReviewed
PROPERTY ReviewIsKept
CHECK_DEADLOCK TRUE
