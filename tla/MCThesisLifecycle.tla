------------------------- MODULE MCThesisLifecycle -------------------------
(* TLC instances of ThesisLifecycle: the constants are model values.         *)
EXTENDS ThesisLifecycle

=============================================================================
