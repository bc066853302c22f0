--------------------------- MODULE MCEventGateway ---------------------------
(* An urgent event about which two agents speak, an event of low priority    *)
(* that supersedes it and about which one agent does, and the decision that  *)
(* waits for both agents.  The first is judged by its asof, the second by    *)
(* the clock.                                                                *)
EXTENDS EventGateway, TLC

CONSTANTS news, risk, final, dart, post, fda

MCRequired   == fda :> {news, risk}
MCRank       == dart :> 1 @@ post :> 2
MCExpiry     == dart :> 2 @@ post :> 2
MCAsOf       == dart :> {1} @@ post :> {}
MCSupersedes == dart :> {} @@ post :> {dart}
MCHandlers   == dart :> {news, risk} @@ post :> {news}
=============================================================================
