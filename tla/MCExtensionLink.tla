--------------------------- MODULE MCExtensionLink ---------------------------
(* ExtensionLink on small sets of configurations and sockets for TLC.        *)
EXTENDS ExtensionLink
=============================================================================
