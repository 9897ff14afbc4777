---------------------------- MODULE RepeatedBytes ----------------------------
(***************************************************************************)
(* Repetitions in a packet: a block of bytes that occurs again, later and  *)
(* without overlap.  Both coverage collectors look for them.               *)
(***************************************************************************)
EXTENDS Naturals, Sequences

Block(data, k, width) == SubSeq(data, k, k + width - 1)

\* The block of the given width at position k occurs again further on.
RepeatsAt(data, k, width) ==
    \E j \in (k + width)..(Len(data) - width + 1) : Block(data, j, width) = Block(data, k, width)

Repeats(data, width) == \E k \in DOMAIN data : RepeatsAt(data, k, width)

\* What the loop of has_repeated_bytes comes to: the widths 3 and 4 are only tried
\* when no pair repeats, and underflow data.len() - window_size * 2 on short data.
\* RepeatedBytesScan has the loop itself.
has_repeated_bytes(data) ==
    IF Len(data) < 4 THEN "no"
    ELSE IF Repeats(data, 2) THEN "yes"
    ELSE IF Len(data) < 8 THEN "panic" ELSE "no"
=============================================================================
