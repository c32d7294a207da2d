------------------------------- MODULE MCFeed -------------------------------
(* Three events, so that two share a millisecond and a page, and a page    *)
(* smaller than the feed.                                                  *)
EXTENDS EventFeed
=============================================================================
