---------------------------- MODULE MCPrefixCache -----------------------------
(* Instances of PrefixCache for TLC.                                        *)
EXTENDS PrefixCache

\* A text, one that goes on from an answer to it, and two with a media item,
\* whose tokens are 9.
Text(s) == [tokens |-> s, items |-> {}]
SharedPrompts ==
  {Text(<<1, 2>>), Text(<<1, 2, 1, 2>>),
   [tokens |-> <<1, 9, 9>>, items |-> {<<1, 2>>}],
   [tokens |-> <<1, 9, 9, 1>>, items |-> {<<1, 2>>}]}
Answers == {1}

=============================================================================
