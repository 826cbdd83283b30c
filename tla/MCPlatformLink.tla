--------------------------- MODULE MCPlatformLink ---------------------------
(* Instances of PlatformLink for TLC.                                      *)
EXTENDS PlatformLinkProps
=============================================================================
