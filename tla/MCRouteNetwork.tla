--------------------------- MODULE MCRouteNetwork ---------------------------
\* Two destinations and two gateways for TLC.
EXTENDS RouteNetwork

CONSTANTS d1, d2, g1, g2
=============================================================================
