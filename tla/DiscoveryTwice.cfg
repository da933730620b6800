CONSTANTS
    s1 = s1
    s2 = s2
    s3 = s3
    pinned = pinned
    changed = changed
    NoPin = NoPin
    NoTimeout = NoTimeout
    Names = {"a", "b"}
    Hashes = {pinned, changed}
    Adverts <- MCAdverts
    DescriptionOf <- MCDescriptionOf
    Installations <- MCInstallationsTwice
    CommandLines <- MCCommandLines
    ConfigPaths = {"config.yaml"}
    Dashed = {"-h", "--version", "--discovery-report", "--discvery-report"}
SPECIFICATION Spec
INVARIANT PinsHoldAtTheConnection
CHECK_DEADLOCK FALSE
