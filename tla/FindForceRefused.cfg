CONSTANTS
    Namespace = {n1}
    Queue = {}
    Name = {a}
    None = None
    Tab = {t1, t2}
    MaxVersion = 3
    Wildcards = {}
SPECIFICATION RegistrySpec
PROPERTIES
    ForceOverwriteSucceeds
CHECK_DEADLOCK FALSE
