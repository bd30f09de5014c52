\* As MCMonitor; stops at the first record of another scope.
CONSTANTS
    s1 = s1
    s2 = s2
    name = name
    address = address
    tail = tail
    Labels <- MCLabels
    Etld <- MCEtld
    RuleClients = {}
    Wishes <- MCWishes
    Sockets = {s1, s2}
    OfBrowser = {s1}
    AddressOf <- MCAddressOf
    Addresses <- MCAddresses
    Names <- MCNames
    Hosts = {name}
    MapClients = {m1}
    Cap = 2
    Grace = 1
    NoLabel = NoLabel
    NoRecord = NoRecord
SPECIFICATION MCSpec
INVARIANTS
    GraphRepopulatesCleanly
