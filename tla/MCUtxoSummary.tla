--------------------------- MODULE MCUtxoSummary ---------------------------
(* Two refreshes, a page view and an API request. *)
EXTENDS UtxoSummary

CONSTANTS refresh1, refresh2, page, api

MCJobs == {refresh1, refresh2, page, api}
MCKind == [j \in MCJobs |->
            IF j = page THEN "page" ELSE IF j = api THEN "api" ELSE "refresh"]
=============================================================================
