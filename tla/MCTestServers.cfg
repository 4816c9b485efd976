SPECIFICATION Spec
CONSTANTS
    Topologies <- MCTopologies
    Platforms = {"c_macos", "c_android", "jak_desktop", "jak_webservice", "swift_ios", "dotnet_macos", "js", "jak_android"}
    Builds = {0, 1, 2}
    Latest = Latest
    None = None
    OldDevices = {"ipad"}
    MaxScripts = 2
INVARIANTS
    ServesWhatWasAsked
    OneBuildPerScript
    MarkedPackageIsWhole
PROPERTIES
    StopStops
CHECK_DEADLOCK FALSE
