\* Files whose peers and links differ in what a reload takes over, in what it
\* leaves, and in what it refuses; inputs of the codes and of the TOML reader.
SPECIFICATION MCSpec
CONSTANTS
    Trimcpy <- MCTrimcpy
    Upper <- MCUpper
    ValidIps = {"ip1", "ip2"}
    Half = 2048
    MaxOpenbridge = 2
    MaxLinks = 2
    Files <- RunFiles
    Unreadable = Unreadable
    NoConfig = NoConfig
    MaxSteps = 2  Bytes = {0, 1, 8, 30, 31, 128, 255}
    MaxText = 4
    BufSize = 8
    Names = {"link", "openbridge", "other"}
    Tables = {"global"}
    Keys = {"name", "tgid"}
    Values = {"v", "w"}
    MaxEntries = 3
    MaxNames = 2
    MaxLines = 5
    Nothing = Nothing
INVARIANTS KeysStayUnique TogglesFollowFile DisabledPeersDark LinkControlCoded VoiceCoded FileReadBack
PROPERTIES SignalsServed
CHECK_DEADLOCK FALSE
