SPECIFICATION RetrySpec
CONSTANTS
    host_opkg = host_opkg
    lib = lib
    app = app
    NoPkg = NoPkg
    Pkg <- MCPkg
    Deps <- MCDeps
    Patches <- MCPatches
    HostPkg = {host_opkg}
    Override = {app}
    InStaging = {lib}
    InTarget = {lib, app}
    InImages = {app}
    Enabled = {lib, app}
    Base = {host_opkg}
    HostOpkg = host_opkg
    ByHand = {}
    MaxVersion = 2
    MaxList = 1
    Goals <- MCRetry
    Fallible <- MCFailRetry
    MaxFail = 2
INVARIANTS
    RebuildDelivers
PROPERTIES
    Recovers
