\* Files of up to four lines of each kind.
CONSTANTS
    Number <- MCNumber
    YamlTruth <- MCYamlTruth
    ParseBool <- MCParseBool
    AccessLine <- MCAccessLine
    ClientLine <- MCClientLine
    ServerLine <- MCServerLine
    PortLists <- MCPortLists
    Prefix <- MCPrefix
    Kinds = {"access", "client", "server"}
    MaxLines = 4
    ClientDefaults <- MCClientDefaults
    ClientCall <- MCClientCall
    ServerCall <- MCServerCall
    ServerDefaults <- MCServerDefaults
    ServerFlagDefaults <- MCServerFlagDefaults
SPECIFICATION Spec
INVARIANTS
    TypeOK
    LastLineWins
    BackendDetected
    ConvertedLoads
    SettingsSurvive
CHECK_DEADLOCK FALSE
