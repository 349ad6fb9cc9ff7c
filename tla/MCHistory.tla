----------------------------- MODULE MCHistory -----------------------------
(* Instances of History for TLC. *)
EXTENDS History

CONSTANTS a, b

TwoChats == {a, b}
OneChat  == {a}
Conv(c, n) == [chat |-> c, n |-> n]

\* A large conversation with a second chat behind it; a small last part; an
\* empty last part.
MixedParts ==
  { [convs |-> <<Conv(a, 4), Conv(b, 1)>>, full |-> FALSE],
    [convs |-> <<Conv(b, 2)>>, full |-> TRUE],
    [convs |-> <<>>, full |-> TRUE] }
SmallParts ==
  { [convs |-> <<Conv(a, 3)>>, full |-> FALSE],
    [convs |-> <<Conv(a, 1)>>, full |-> TRUE] }
=============================================================================
