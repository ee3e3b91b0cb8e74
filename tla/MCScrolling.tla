----------------------------- MODULE MCScrolling -----------------------------
(* The orders of the runs of Scrolling. *)
EXTENDS Scrolling

Key(prop, desc) == [prop |-> prop, desc |-> desc]

Orders ==
    {<<Key("n", FALSE), Key("id", TRUE)>>}

Columns == {Null, 0, 1}
===============================================================================
