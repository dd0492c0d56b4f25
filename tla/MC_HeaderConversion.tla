------------------------ MODULE MC_HeaderConversion ------------------------
(* Header maps of up to four entries over five names, two of which fold  *)
(* to one header, with the break after index 1 instead of 1000.           *)
EXTENDS HeaderConversion, TLC

MCNames == {"A", "a", "b", "c", "x y"}
MCCanonOf == ("A" :> "a") @@ ("a" :> "a") @@ ("b" :> "b") @@ ("c" :> "c")
             @@ ("x y" :> "x y")
=============================================================================
