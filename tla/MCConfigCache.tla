--------------------------- MODULE MCConfigCache ---------------------------
(* Model-checking instance of ConfigCache.                                 *)
EXTENDS ConfigCache

CONSTANTS id, selector

MCLookups == <<id, selector>>
=============================================================================
