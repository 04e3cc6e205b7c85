\* One handler at a time: what the operations do on their own.
CONSTANTS
    f1 = f1
    h1 = h1
    Workflows = {f1}
    Handlers = {h1}
    MaxVersions = 2
SPECIFICATION Spec
PROPERTY PublishedIsImmutable
