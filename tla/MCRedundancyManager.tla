------------------------ MODULE MCRedundancyManager ------------------------
(* RedundancyManager with a list of three servers.                         *)
EXTENDS RedundancyManager

CONSTANTS A, B, C

ThreeServers == <<A, B, C>>
=============================================================================
