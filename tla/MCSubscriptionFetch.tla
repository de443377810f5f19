--------------------------- MODULE MCSubscriptionFetch ---------------------------
EXTENDS SubscriptionFetch

CONSTANTS u, v, w, f

MCSubs  == {u, v, w, f}
MCFiles == {f}
=============================================================================
