---------------------------- MODULE MCConfigStore ----------------------------
(* A small instance of ConfigStore for TLC. *)
EXTENDS ConfigStore

CONSTANTS p1, b2

\* AppConfig::default(): no protocol, no points.
MCDefaultConfig ==
  [protocol |-> "", conn |-> [p \in Protocols |-> "c1"],
   settings |-> "good", points |-> <<>>]

\* The settings called "moved" publish under another prefix.
MCTopicOf == [v \in Settings |-> IF v = "moved" THEN "t2" ELSE "t1"]

\* The environment sets one connection field.
MCEnvConn == [c \in Conns |-> "c2"]

\* One point provisioned by the environment.
MCEnvPoints == {[id |-> p1, body |-> b2]}
=============================================================================
