---------------------------- MODULE MCPageEdits ----------------------------
EXTENDS PageEdits

Blocks(kinds) == [i \in DOMAIN kinds |-> [kind |-> kinds[i], lines |-> 1]]
TwoPages == {Blocks(<<"para", "kept", "item">>), Blocks(<<"media", "item", "head", "item">>)}
=============================================================================
