------------------------------ MODULE NextColor ------------------------------
(***************************************************************************)
(* next_color() of the drm-howto programs: a colour goes up or down by a   *)
(* random step and turns round instead of leaving the byte it is kept in.  *)
(* The other modules abstract from colours.                                *)
(***************************************************************************)
EXTENDS Integers

Byte == 0 .. 255

\* The sum is cut to 8 bits, and seen to have wrapped when it went the wrong way.
Next8(up, cur, step) == (IF up THEN cur + step ELSE cur - step) % 256
Turns(up, cur, step) ==
  IF up THEN Next8(up, cur, step) < cur ELSE Next8(up, cur, step) > cur

NextColor(up, cur, step) ==
  IF Turns(up, cur, step) THEN [up |-> ~up, color |-> cur]
                          ELSE [up |-> up, color |-> Next8(up, cur, step)]

\* A colour never jumps: it changes by the step, or if that would leave the
\* byte, stays what it is and turns round.
Smooth(up, cur, step) ==
  LET to == IF up THEN cur + step ELSE cur - step
  IN  NextColor(up, cur, step) =
        IF to \in Byte THEN [up |-> up, color |-> to]
                       ELSE [up |-> ~up, color |-> cur]

==============================================================================
