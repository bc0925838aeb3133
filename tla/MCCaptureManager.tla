-------------------------- MODULE MCCaptureManager ---------------------------
(* Instances of CaptureManager. *)
EXTENDS CaptureManager

CONSTANTS k1, k2, s1, s2, s3, s4, f1, f2, f3, m1

Plain(k, s) == [key |-> k, sig |-> s, pdef |-> NoFile, inline |-> FALSE, named |-> FALSE]
Named(k, s) == [Plain(k, s) EXCEPT !.named = TRUE]
WithPdef(k, s, f) == [Plain(k, s) EXCEPT !.pdef = f]
WithInline(k, s) == [Plain(k, s) EXCEPT !.inline = TRUE]
WithBoth(k, s, f) == [WithPdef(k, s, f) EXCEPT !.inline = TRUE]

\* Two requests with one key and different signatures, two with one signature
\* and different keys.
HttpTargets == {Named(k1, s1), Plain(k1, s2), Plain(k2, s1)}
\* Two captures of a file in automatic mode, one of a file whose author declared
\* big-endian, and one with inline text beside such a file.
PdefTargets ==
  {WithPdef(k1, s1, f1), WithPdef(k2, s2, f1), WithPdef(k1, s3, f2), WithBoth(k1, s4, f3)}
InlineTargets == {WithInline(k1, s1), Plain(k2, s2)}

NoHints == [m \in Modules |-> NoTarget]
PlainHints == [m \in Modules |-> Plain(k2, s2)]

\* f1 is in automatic mode, the authors of the others declared an endianness.
Declared == [f \in PdefFiles |-> IF f = f1 THEN "auto" ELSE "big"]
=============================================================================
