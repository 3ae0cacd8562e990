---------------------------- MODULE MCCompanions ----------------------------
EXTENDS Companions

\* No mission, a good one, and one that is too high at its first item.
SomeMissions == {<<>>, <<"low", "low">>, <<"high", "low">>}
=============================================================================
