CONSTANTS
    owner = owner
    admin = admin
    s1 = s1
    s2 = s2
    Tab = {owner, admin}
    Service = {s1, s2}
    Owned <- Owners
    Administers = {admin}
    MaxVersion = 4
SPECIFICATION Spec
INVARIANTS
    TypeOK
PROPERTIES
    ChangesWhatWasRead
    OverwritesOnlyAfterAssociating
CHECK_DEADLOCK FALSE
