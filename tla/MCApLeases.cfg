SPECIFICATION Spec
CONSTANTS
    s1 = s1
    s2 = s2
    s3 = s3
    a1 = a1
    a2 = a2
    a3 = a3
    a4 = a4
    Stations <- MCStations
    Addresses <- MCAddresses
    NoAddress = NoAddress
    NoConfig = NoConfig
    Configs <- MCConfigs
    MaxClients = 3
    MaxBurst = 2
INVARIANTS
    TypeOK
    DistinctAddresses
    LeasesAreRegistered
    BurstsAreFair
PROPERTY
    FloodReachesStations
