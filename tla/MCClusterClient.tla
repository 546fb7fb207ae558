---------------------------- MODULE MCClusterClient ----------------------------
(* Two brokers, one producer and its readers.                                  *)
EXTENDS ClusterClient

MCBrokers == {1, 2}
====================
