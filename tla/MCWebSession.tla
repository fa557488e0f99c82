---- MODULE MCWebSession ----
EXTENDS WebSession, TLC
====
