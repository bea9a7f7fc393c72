----------------------------- MODULE MCEnetChannel ------------------------------
(* Windows of two commands, six of them, three free: a quarter of a turn of the     *)
(* numbers is sent, across the wrap.  The plans mix whole and split packets, sent    *)
(* reliably or not, use up the unreliable numbers, and leave three split packets      *)
(* incomplete.                                                              *)
EXTENDS EnetChannel

Single == [reliable |-> TRUE, fragments |-> 1]
Split == [reliable |-> TRUE, fragments |-> 2]
Hint == [reliable |-> FALSE, fragments |-> 1]
SplitHint == [reliable |-> FALSE, fragments |-> 2]

MCPlans == {<<Single, Single, Single, Single, Single, Single>>,
            <<Split, SplitHint, Single>>,
            <<Single, Hint, Hint, Hint, Hint>>,
            <<SplitHint, SplitHint, SplitHint>>}
================================================================================
