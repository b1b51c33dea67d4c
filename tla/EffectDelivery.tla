--------------------------- MODULE EffectDelivery ---------------------------
(***************************************************************************)
(* What the runtime promises the business about side effects               *)
(* (dsl/journal.go, dsl/compensate.go): a command is put on record before  *)
(* it is carried out, it is carried out at most once however often it is   *)
(* delivered, the record says truly what became of it, and a compensation  *)
(* is only ever issued for an effect that did take place.  Processes,      *)
(* crashes and redelivery do not appear here.                              *)
(***************************************************************************)
CONSTANTS
  Command,    \* idempotency keys of commands
  Origin(_)   \* the command a compensation undoes; the command itself otherwise

VARIABLES
  issued,     \* commands on record
  acted,      \* commands the business has carried out
  done,       \* commands recorded as carried out
  dead        \* commands recorded as failed

vars == <<issued, acted, done, dead>>

Init == issued = {} /\ acted = {} /\ done = {} /\ dead = {}

Open(c) == c \in issued /\ c \notin done \cup dead

Issue(c) ==
  /\ c \notin issued
  /\ Origin(c) # c => Origin(c) \in acted
  /\ issued' = issued \cup {c}
  /\ UNCHANGED <<acted, done, dead>>

Act(c) ==
  /\ Open(c) /\ c \notin acted
  /\ acted' = acted \cup {c}
  /\ UNCHANGED <<issued, done, dead>>

Resolve(c) ==
  /\ Open(c)
  /\ IF c \in acted THEN done' = done \cup {c} /\ UNCHANGED dead
                    ELSE dead' = dead \cup {c} /\ UNCHANGED done
  /\ UNCHANGED <<issued, acted>>

Next == \E c \in Command : Issue(c) \/ Act(c) \/ Resolve(c)

Spec == Init /\ [][Next]_vars
=============================================================================
