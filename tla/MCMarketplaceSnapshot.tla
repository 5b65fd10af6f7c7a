------------------------ MODULE MCMarketplaceSnapshot ------------------------
EXTENDS MarketplaceSnapshot, TLC

CONSTANTS a1, a2, a3

(* One process with tasks a1 and a2 of its event loop and a thread a3.     *)
MCPodOf == [t \in Tasks |-> CHOOSE p \in Pods : TRUE]
=============================================================================
