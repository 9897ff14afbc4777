------------------------------ MODULE CrashLog -------------------------------
(***************************************************************************)
(* What a crash detector promises, without lists, hash sets or counters:   *)
(* a log from the hash of an input to the first report made of that hash.  *)
(* A report, once logged, is neither altered nor replaced.                 *)
(***************************************************************************)

CONSTANTS
    Reports,      \* every report that can be made
    HashOf(_)     \* the hash a report is filed under

VARIABLE log

LogInit == log = [h \in {} |-> {}]

File(r) ==
    /\ HashOf(r) \notin DOMAIN log
    /\ log' = [h \in DOMAIN log \cup {HashOf(r)} |-> IF h = HashOf(r) THEN r ELSE log[h]]

LogNext == \E r \in Reports : File(r)

LogSpec == LogInit /\ [][LogNext]_log
=============================================================================
