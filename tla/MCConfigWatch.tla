---- MODULE MCConfigWatch ----
EXTENDS ConfigWatch
====
