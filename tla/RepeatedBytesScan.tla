-------------------------- MODULE RepeatedBytesScan ---------------------------
(***************************************************************************)
(* The loop of has_repeated_bytes (src/src/coverage/feature_coverage.rs:   *)
(* 454-471), one step for each block compared with all the later ones.     *)
(* The upper bound of the middle loop is an unsigned subtraction: a debug  *)
(* build panics on its underflow; a release build goes on with a huge      *)
(* bound, finds the inner range empty each time, and panics on the first   *)
(* slice beyond the end.  CoverageProofs extends this module beside        *)
(* Coverage, whose Init, Next and Spec are others.                         *)
(***************************************************************************)
EXTENDS RepeatedBytes

CONSTANT Data      \* the packets scanned

ASSUME DataAssumption == Data \subseteq Seq(0..255)

VARIABLES
    scanned,       \* the packet, "data" in the code
    window_size,   \* the width of the blocks
    position,      \* where the block is that is compared with the later ones, "i"
    answer         \* what the function returns, "scanning" before it does

scan_vars == <<scanned, window_size, position, answer>>

\* One past the last i of the middle loop, when the subtraction does not underflow.
Positions == Len(scanned) - window_size * 2 + 1

ScanInit == /\ scanned \in Data
            /\ window_size = 2 /\ position = 0
            /\ answer = IF Len(scanned) < 4 THEN "no" ELSE "scanning"

Underflow ==
    /\ answer = "scanning" /\ Len(scanned) < window_size * 2
    /\ answer' = "panic"
    /\ UNCHANGED <<scanned, window_size, position>>

\* Fault: a block may match itself.
CompareOverlapping ==
    /\ answer = "scanning" /\ Len(scanned) >= window_size * 2 /\ position < Positions
    /\ answer' = IF \E j \in (position + 1)..(Len(scanned) - window_size) :
                        Block(scanned, j + 1, window_size)
                          = Block(scanned, position + 1, window_size)
                  THEN "yes" ELSE "scanning"
    /\ position' = position + 1
    /\ UNCHANGED <<scanned, window_size>>

Compare ==
    /\ answer = "scanning" /\ Len(scanned) >= window_size * 2 /\ position < Positions
    /\ answer' = IF \E j \in (position + window_size)..(Len(scanned) - window_size) :
                        Block(scanned, j + 1, window_size)
                          = Block(scanned, position + 1, window_size)
                  THEN "yes" ELSE "scanning"
    /\ position' = position + 1
    /\ UNCHANGED <<scanned, window_size>>

NextWindow ==
    /\ answer = "scanning" /\ Len(scanned) >= window_size * 2 /\ position = Positions
    /\ IF window_size < 4 THEN window_size' = window_size + 1 /\ position' = 0 /\ UNCHANGED answer
       ELSE answer' = "no" /\ UNCHANGED <<window_size, position>>
    /\ UNCHANGED scanned

ScanNext == Underflow \/ Compare \/ NextWindow

ScanSpec == ScanInit /\ [][ScanNext]_scan_vars

-----------------------------------------------------------------------------
\* When the scan answers, the answer is right for blocks of two, three and four
\* bytes; it panics exactly on four to seven bytes without a repeated pair, so that
\* the widths 3 and 4 never decide (feature_coverage.rs:459-470).
ScanAnswers ==
    answer # "scanning" =>
        /\ answer = has_repeated_bytes(scanned)
        /\ answer = "yes" => \E width \in 2..4 : Repeats(scanned, width)
        /\ answer = "no"  => \A width \in 2..4 : ~Repeats(scanned, width)
=============================================================================
