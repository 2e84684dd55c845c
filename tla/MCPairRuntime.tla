--------------------------- MODULE MCPairRuntime ---------------------------
(* PairRuntime for TLC: two keys over one log root (redaction switched) and *)
(* one over another; a configuration with one target and one with two.      *)
EXTENDS PairRuntime, TLC

CONSTANTS r1, r2, plain, redacted, apart

MCRootOf == plain :> "main" @@ redacted :> "main" @@ apart :> "other"
MCOffers == {{plain}, {redacted, apart}}
=============================================================================
