------------------------------ MODULE MCKeyboard ------------------------------
(* An instance of Keyboard for TLC: one shift key (two share one flag),    *)
(* both control keys, caps lock, a letter and an arrow key.                *)
EXTENDS Keyboard

Key(c, e) == [code |-> c, ext |-> e]
MCKeys == {Key("0x2a", FALSE), Key("0x1d", FALSE), Key("0x1d", TRUE), Key("0x3a", FALSE),
           Key("a", FALSE), Key("up", TRUE)}
=============================================================================
