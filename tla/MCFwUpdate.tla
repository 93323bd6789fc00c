----------------------------- MODULE MCFwUpdate -----------------------------
EXTENDS FwUpdate

Main(v, n) == [package |-> "main", version |-> v, size |-> n]
Aux == [package |-> "other", version |-> "2", size |-> 1]

\* The version that runs at first; a new one, at the second place; and a manifest
\* that breaks off in its first component.
Payloads ==
  {[wellFormed |-> TRUE, components |-> <<Main("1", 2)>>],
   [wellFormed |-> TRUE, components |-> <<Aux, Main("2", 3)>>],
   [wellFormed |-> FALSE, components |-> <<Main("", 0)>>]}
=============================================================================
