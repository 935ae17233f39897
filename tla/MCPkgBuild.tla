----------------------------- MODULE MCPkgBuild -----------------------------
(***************************************************************************)
(* Instances of PkgBuild for TLC: host-opkg in BASE_TARGETS, a library     *)
(* built from a patched archive and installed in staging, and an           *)
(* application under development (OVERRIDE_SRCDIR) that depends on the     *)
(* library and is installed in target.  BuildDevelop and BuildRecover      *)
(* install the application in images too, BuildRemove in staging, and      *)
(* BuildRecover the library in target too.                                 *)
(***************************************************************************)
EXTENDS PkgBuild

CONSTANTS host_opkg, lib, app

MCPkg == {host_opkg, lib, app}
MCDeps == [p \in MCPkg |-> IF p = app THEN {lib} ELSE {}]
MCPatches == [p \in MCPkg |-> IF p = lib THEN 2 ELSE 0]

MCDevelop == {"all", "rebuild", "reconfigure", "dirclean"}
MCRemove == {"all", "uninstall", "clean", "makeclean", "target"}
MCFailRemove == {"target", "uninstall"}
MCRetry == {"all", "dirclean", "clean", "rebuild"}

MCFailDevelop == Step \cup {"make"}
MCFailRetry == {"source", "patch", "target", "clear", "clean"}
=============================================================================
