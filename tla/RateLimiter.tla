----------------------------- MODULE RateLimiter ------------------------------
(***************************************************************************)
(* The rate limiter (RateLimiter, src/src/utils/mod.rs:228-265): a bucket  *)
(* of tokens, refilled from the elapsed time whenever somebody asks for    *)
(* some, and never beyond its capacity.                                    *)
(*                                                                         *)
(* Time is measured in the tokens it would refill, elapsed * refill_rate,  *)
(* and everything in the smallest amount that matters: tokens are whole    *)
(* numbers here and floating-point numbers, rounded, in the code.  Nobody  *)
(* asks for a negative amount, which the code would grant and add.         *)
(***************************************************************************)
EXTENDS Integers

CONSTANT capacity

VARIABLES
    tokens,
    last_refill,
    now,
    granted,           \* history: the tokens granted so far
    marked_at,         \* history: an instant of the past,
    marked_granted     \* and what had been granted by then

vars == <<tokens, last_refill, now, granted, marked_at, marked_granted>>

Init == /\ tokens = capacity /\ last_refill = 0 /\ now = 0
        /\ granted = 0 /\ marked_at = 0 /\ marked_granted = 0

refilled ==
    IF tokens + (now - last_refill) <= capacity THEN tokens + (now - last_refill) ELSE capacity

TryAcquire(n) ==
    /\ IF refilled >= n THEN tokens' = refilled - n /\ granted' = granted + n
       ELSE tokens' = refilled /\ UNCHANGED granted
    /\ last_refill' = now
    /\ UNCHANGED <<now, marked_at, marked_granted>>

Elapse(amount) ==
    /\ now' = now + amount
    /\ UNCHANGED <<tokens, last_refill, granted, marked_at, marked_granted>>

\* Any instant may be the one from which somebody looks on.
Mark == /\ marked_at' = now /\ marked_granted' = granted
        /\ UNCHANGED <<tokens, last_refill, now, granted>>

Next == Mark \/ \E n \in Nat : TryAcquire(n) \/ Elapse(n)

Spec == Init /\ [][Next]_vars

-----------------------------------------------------------------------------
\* From any instant on, no more is granted than a full bucket and what the time since
\* then refills, however the requests are spread and whatever was refused: tokens are
\* neither refilled twice for the same time nor saved up beyond the capacity
\* (mod.rs:246-264).
RateBounded == granted - marked_granted <= capacity + (now - marked_at)

TypeOK == /\ tokens \in 0..capacity
          /\ last_refill \in Nat /\ now \in Nat /\ last_refill <= now
          /\ granted \in Nat
          /\ marked_at \in Nat /\ marked_granted \in Nat /\ marked_at <= now

\* RateBounded says nothing of the tokens left, so it does not carry itself over a
\* step.  Until the first request after the marked instant nothing was granted; from
\* then on what was granted and what is left together stay within the bound.
IInv == /\ TypeOK
        /\ \/ last_refill <= marked_at /\ granted = marked_granted
           \/ /\ last_refill >= marked_at
              /\ granted + tokens <= marked_granted + (capacity + (last_refill - marked_at))
=============================================================================
