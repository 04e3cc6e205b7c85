\* One execution while two changes are made.
CONSTANTS
    p1 = p1
    p2 = p2
    f1 = f1
    a1 = a1
    m1 = m1
    m2 = m2
    prompt = prompt
    vendor = vendor
    other = other
    badId = badId
    Products = {p1, p2}
    Features = {f1}
    Agents = {a1}
    Models = {m1, m2}
    Codes = {"A", "B"}
    Configurations <- Configs
    BadPrompt = bad
    BadId = badId
    Prompts = {prompt, bad}
    Vendors = {vendor, other}
    Providers = {vendor}
    Editors = {e1, e2}
    Seed <- Registries
    Wired <- WiredBefore
    MaxChanges = 2
    Orgs = {o1}
    Requests = {r1}
    MaxRetries = 1
    MaxFaults = 1
SYMMETRY EditorsAreAlike
SPECIFICATION Spec
INVARIANTS
    CodesNameOneItem
    RecordsTellOutcome
    WorkIsRecorded
    ClosedStaysClosed
PROPERTIES
    EditsKeepOthers
    ImplementsAnswers
\* The instance stops when its changes and requests have been used up.
CHECK_DEADLOCK FALSE
