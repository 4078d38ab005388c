---- MODULE MCEventFeed ----
EXTENDS EventFeed, TLC
====
