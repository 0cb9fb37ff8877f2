SPECIFICATION TimedSpec
CONSTANTS
    d1 = d1
    d2 = d2
    d3 = d3
    MaxTime = 12
    Horizon <- MCHorizon
    Lag <- MCLag
    Channel = {c1}
    MinConnections = 4
    MinPeriods = 3
    MaxIntervalRatio = 2
    RegularityPercent = 75
    MinInterval = 1
    MaxInterval = 2
    Capacity = 5
    BeaconWindow = 4
    BeaconCooldown = 3
    Process = {p1}
    Destination = {d1, d2, d3}
    IpOf <- MCIpOf
    PortOf <- MCPortOf
    MinDistinctIps = 2
    MinDistinctPorts = 2
    ScanWindow = 2
    ScanCooldown = 2
    Root = {r1}
    Command <- MCCommand
    MinDistinct = 2
    DiscoveryWindow = 2
    DiscoveryCooldown = 4
    Client = {ip1, ip2, ip3}
    Token = 2
    Burst = 3
    Rates = {0, 1, 2}
    MaxTrackedClients = 2
    Indicator = {"intranet", "address", "file"}
    TypeOf <- MCTypeOf
    Lookup = {l1, l2}
    Keys = {"AbuseIPDB", "VirusTotal"}
    AbuseScores = {0, 90}
    VendorCounts = {0, 3}
    CacheTtl = 2
SYMMETRY ClientSymmetry
INVARIANT MetronomeIsReported
INVARIANT TimedTypeOK
INVARIANT BucketsBounded
INVARIANT AdmissionBounded
INVARIANT SteadyClientServed
INVARIANT NothingDiluted
PROPERTY BeaconAlertsSpaced
PROPERTY ScanImplementsWatch
PROPERTY DiscoveryImplementsWatch
PROPERTY QuotaSpared
