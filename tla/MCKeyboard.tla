----------------------------- MODULE MCKeyboard -----------------------------
(* The keyboard with a ring of three slots and a few of its keys.           *)
EXTENDS Keyboard

=============================================================================
