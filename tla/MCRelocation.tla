----------------------------- MODULE MCRelocation -----------------------------
EXTENDS Relocation

\* Group size 4: the free run 3..5 spans two groups.  Extent 1 straddles the
\* target; extents 1 and 2 are mapped by tree block 4, which has to move too.
MCExtent ==
    <<[kind |-> "data", home |-> 8, length |-> 2, holder |-> 4, unwritten |-> FALSE],
      [kind |-> "data", home |-> 10, length |-> 1, holder |-> 4, unwritten |-> TRUE],
      [kind |-> "data", home |-> 11, length |-> 1, holder |-> 0, unwritten |-> FALSE],
      [kind |-> "tree", home |-> 12, length |-> 1, holder |-> 0, unwritten |-> FALSE]>>
MCFixed == {0, 2, 6}
MCFailures == {{"error", "kill"}, {"power"}, {"error", "kill", "power"}}
MCNone == {{}}
MCBoth == {{"kill", "power"}}
==============================================================================
