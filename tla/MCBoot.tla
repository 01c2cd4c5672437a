------------------------------- MODULE MCBoot -------------------------------
(* Boot and interrupts: the keyboard, the timer that no driver listens to, and *)
(* a device of the slave controller; exceptions with and without an error code *)
(* of the CPU.                                                                  *)
EXTENDS Boot

=============================================================================
