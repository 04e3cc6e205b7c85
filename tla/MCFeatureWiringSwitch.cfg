\* One handler: a status change on its own.
CONSTANTS
    Wirings = {w1}
    Configs = {c1}
    Handlers = {h1}
    MaxVersion = 2
SPECIFICATION Spec
PROPERTY SwitchingWorks
