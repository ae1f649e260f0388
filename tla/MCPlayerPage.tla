---- MODULE MCPlayerPage ----
EXTENDS PlayerPage
MCDuration == [s \in Sessions |-> IF s = "s1" THEN 1 ELSE 2]
====
