---- MODULE MCPlayerServer ----
EXTENDS PlayerServer
====
