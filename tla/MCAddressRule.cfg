\* The rules of MCMonitor; stops when a blocked connection is not blocked.
CONSTANTS
    s1 = s1
    s2 = s2
    name = name
    address = address
    tail = tail
    Labels <- MCLabels
    Etld <- MCEtld
    RuleClients = {r1, r2}
    Wishes <- MCWishes
    Sockets = {s1}
    OfBrowser = {s1}
    AddressOf <- MCAddressOf
    Addresses <- MCAddresses
    Names <- MCNames
    Hosts = {}
    MapClients = {}
    Cap = 1
    Grace = 1
    NoLabel = NoLabel
    NoRecord = NoRecord
SPECIFICATION MCSpec
INVARIANTS
    RulesReachTheirConnections
