SPECIFICATION Spec
CONSTANTS
    host_opkg = host_opkg
    lib = lib
    app = app
    NoPkg = NoPkg
    Pkg <- MCPkg
    Deps <- MCDeps
    Patches <- MCPatches
    HostPkg = {host_opkg}
    Override = {app}
    InStaging = {lib, app}
    InTarget = {app}
    InImages = {}
    Enabled = {lib, app}
    Base = {host_opkg}
    HostOpkg = host_opkg
    ByHand = {"build"}
    MaxVersion = 2
    MaxList = 1
    Goals <- MCRemove
    Fallible <- MCFailRemove
    MaxFail = 1
INVARIANTS
    WorldInstalled
PROPERTIES
    DeliversInOrder
