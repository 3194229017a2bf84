------------------------------ MODULE EventLog ------------------------------
(***************************************************************************)
(* What the producers of events and their readers share: the append-only   *)
(* table mirror_events, in rowid order.                                    *)
(***************************************************************************)
EXTENDS Integers, Sequences, FiniteSets

CONSTANTS
  Event,
  None

VARIABLES
  events      \* recorded events, in order

log == <<events>>

Recorded == {events[n] : n \in 1..Len(events)}

LogInit == events = <<>>

(* record_event of an event that is not recorded with another payload: a   *)
(* replay changes nothing.                                                 *)
Record(e) == events' = IF e \in Recorded THEN events ELSE Append(events, e)

LogTypeOK ==
  /\ events \in Seq(Event)
  /\ \A m, n \in 1..Len(events) : events[m] = events[n] => m = n
=============================================================================
