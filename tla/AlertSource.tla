----------------------------- MODULE AlertSource -----------------------------
(***************************************************************************)
(* What the detector is to the rest of the system: it inserts `alerts' rows*)
(* and afterwards hands each of them, at most once, to its Kafka producer  *)
(* (services/detector/app/db_writer.py).  How it decides to alert is the   *)
(* business of Detector, which implements this specification.              *)
(***************************************************************************)
EXTENDS Naturals, Sequences

CONSTANT Hosts

VARIABLES
    rows,      \* the host of each alerts row, in insertion order
    pending,   \* the row about to be published, 0 if there is none
    produced   \* the rows handed to the producer, oldest first

source_vars == <<rows, pending, produced>>

SourceInit ==
    /\ rows = <<>>
    /\ pending = 0
    /\ produced = <<>>

(* The row is committed; publish_alert follows, unless the INSERT raises.  *)
InsertRow(h) ==
    /\ pending = 0
    /\ rows' = Append(rows, h)
    /\ pending' \in {0, Len(rows) + 1}
    /\ UNCHANGED produced

Publish ==
    /\ pending # 0
    /\ produced' = Append(produced, pending)
    /\ pending' = 0
    /\ UNCHANGED rows

(* produce() raises, or the process dies first: the row stays unpublished. *)
Abandon ==
    /\ pending # 0
    /\ pending' = 0
    /\ UNCHANGED <<rows, produced>>

SourceNext == (\E h \in Hosts : InsertRow(h)) \/ Publish \/ Abandon

SourceSpec == SourceInit /\ [][SourceNext]_source_vars
=============================================================================
