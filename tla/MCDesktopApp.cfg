SPECIFICATION DesktopSpec
CONSTANTS
    UserKeys = {"proxy"}
    MaxEdits = 1
    MaxLaunches = 3
    Quirks = {}
    Releases <- MCReleases
    FirstInstalled <- MCFirst
    Platforms = {"darwin", "linux", "windows"}
INVARIANTS LiveProxyBehindSettings 
PROPERTIES   InstalledOnlyRises
CHECK_DEADLOCK FALSE
