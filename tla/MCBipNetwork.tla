---------------------------- MODULE MCBipNetwork ----------------------------
(* A small internetwork for BipNetwork: BBMD b1 with a neighbour, b2 and   *)
(* b3 alone on their subnets, and foreign devices on a subnet without a    *)
(* BBMD.                                                                   *)
EXTENDS BipNetwork

MCHome == [n \in Nodes |-> CASE n \in {"b1", "n1"} -> "s1"
                             [] n = "b2" -> "s2"
                             [] n = "b3" -> "s3"
                             [] OTHER -> "s4"]

Entry(b, wide) == [node |-> b, wide |-> wide]

\* b2 reaches the subnet of b1 by directed broadcast; b3 lists b1 and is not
\* listed by it.
MCInitialBdt ==
  [b \in Bbmds |-> CASE b = "b1" -> {Entry("b2", FALSE)}
                     [] b = "b2" -> {Entry("b1", TRUE), Entry("b3", FALSE)}
                     [] OTHER -> {Entry("b1", FALSE), Entry("b2", FALSE)}]

\* A table that cuts a BBMD off, one that all three could share, of which
\* the entry of b3 is missing, and one that is longer than allowed.
MCTables == {{}, {Entry("b1", FALSE), Entry("b2", FALSE)},
             {Entry("b1", FALSE), Entry("b2", FALSE), Entry("b3", FALSE)}}

MCRegistrar == [f \in Foreign |-> "b2"]
=============================================================================
