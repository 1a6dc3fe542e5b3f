------------------------------- MODULE MCFetch -------------------------------
(* Three sources, one of each kind, two at a time; MinPageForRatio and     *)
(* SkipTolerance are the code's, the ceilings are scaled down.             *)
EXTENDS Fetch, TLC

MCKind == "ion" :> "tribe" @@ "hlug" :> "document" @@ "gdg" :> "bevy"

MCCalendars ==
    "ion" :> {<<1, 2>>, <<1, 2, 3, 4, 5>>, <<1, 2, 3, 4, 5, 10, 11, 12, 13>>,
              <<1, 2, 3, 6, 7, 8, 4, 5>>}
    @@ "hlug" :> {<<7, 8, 1, 2>>}
    @@ "gdg" :> {<<6, 1>>, <<1, 2, 3>>}
=============================================================================
