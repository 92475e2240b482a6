------------------------------- MODULE MCTurn -------------------------------
(* Two authoring calls and two worker turns with every way their processes *)
(* and their conversations can go.                                         *)
EXTENDS Turn

TheLines == <<"session", "say", "result">>
TheReplies == {<<>>, <<"finish", "edit">>}
=============================================================================
