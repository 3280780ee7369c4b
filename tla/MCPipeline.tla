----------------------------- MODULE MCPipeline -----------------------------
(* Small instance of Pipeline and Sink.                                     *)
EXTENDS Sink

M(rule, value) == [detector |-> "d", rule |-> rule, value |-> value]
Line(container, matches) ==
  [uid |-> "u", container |-> container, matches |-> matches]

\* A line with two secrets, one with the second again and the key of the state
\* file, and one with the first again.
L1 == Line("c1", <<M("r", "x"), M("s", "y")>>)
L2 == Line("c2", <<M("s", "y"), M("r", "old")>>)
L3 == Line("c2", <<M("r", "x")>>)

MCKnown == {<<"u", "d", "r", "old">>}

\* Two streams; the rotation brings a line of the sweep again.
MCInput == <<[s1 |-> <<L1>>, s2 |-> <<L2>>],
             [s1 |-> <<L2>>, s2 |-> <<L3>>]>>

MCSettings == {"console", "json"} \X BOOLEAN
=============================================================================
