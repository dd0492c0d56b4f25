--------------------------- MODULE MC_RemoteSync ---------------------------
(* Small instances of RemoteSync: two pages of one website, one of whose  *)
(* urls http::Uri rejects, fetched at most twice each.                     *)
EXTENDS RemoteSync, TLC

CONSTANTS u1, u2, h1, k1, k2

MCUrls == {u1, u2}
MCHosts == {h1}
MCHostOf == (u1 :> h1) @@ (u2 :> h1)
MCKeys == {k1, k2}
MCKeyOf == (u1 :> k1) @@ (u2 :> k2)
MCBadUri == {u2}
MCReqHeaderSets == {{}}
MCResHeaderSets == {{}, {"maxage"}}
=============================================================================
