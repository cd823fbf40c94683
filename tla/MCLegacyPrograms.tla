--------------------------- MODULE MCLegacyPrograms ---------------------------
(* The instance of LegacyPrograms for TLC. *)
EXTENDS LegacyPrograms, NextColor

\* Connectors with one encoder, which works with some CRTCs.
OneEncoder == {<<works>> : works \in SUBSET Crtc \ {{}}}

\* The colours the programs draw with: next_color() is called with 20, 10 and 5.
ASSUME ColorsChecked ==
  \A up \in BOOLEAN, cur \in Byte, step \in 0 .. 19 : Smooth(up, cur, step)

===============================================================================
