SPECIFICATION Spec
CONSTANTS
    host = host
    guest = guest
    other = other
    named = named
    lone = lone
    twin = twin
    t1 = t1
    t2 = t2
    json = json
    i1 = i1
    i2 = i2
    i3 = i3
    i4 = i4
    Modules = {host, guest, other, named, lone, twin}
    Configs = {t1, t2, json}
    Handles = {1, 2, 3, 4}
    Instances = {i1, i2, i3, i4}
    NoInstance = NoInstance
    NoConfig = NoConfig
    Names = {1, 2, 3, 4, 5, 6}
    Name <- MCName
    Host <- MCHost
    Hash <- MCHash
    Api <- MCApi
    Applications <- AllApplications
SYMMETRY Symm
INVARIANTS
    RegistryIsExact
    AnyHostIsAlone
    OwnersCounted
