----------------------------- MODULE MCSmpBoot -----------------------------
(* The instance of SmpBoot for TLC. *)
EXTENDS SmpBoot

\* A table with good and bad checksum, a default configuration of old and of
\* new processors, a missing one, an unknown one, and an APIC elsewhere.
MCFps ==
  LET F(t, c, ok) == [type |-> t, cth |-> c, lapic_ok |-> ok]
  IN  {F(0, "good", TRUE), F(0, "bad", TRUE), F(2, "none", TRUE),
       F(5, "none", TRUE), F(0, "none", TRUE), F(8, "good", TRUE),
       F(0, "good", FALSE)}

=============================================================================
