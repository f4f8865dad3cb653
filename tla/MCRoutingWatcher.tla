-------------------------- MODULE MCRoutingWatcher --------------------------
EXTENDS RoutingWatcher, TLC
MCKindsOf == (1 :> {"call"}) @@ (2 :> {"zoom", "media"})
MCOutputApp == [o \in Outputs |-> "web"]
====
