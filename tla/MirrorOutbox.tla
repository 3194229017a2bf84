---------------------------- MODULE MirrorOutbox ----------------------------
(***************************************************************************)
(* What the mirror promises about each captured event, with no workers,    *)
(* leases, clocks or tables: docs/ARCHITECTURE.md, "Idempotência e         *)
(* resultado incerto".  box[e] is                                          *)
(*   phase     what may happen to the event next,                          *)
(*   n         how many times it was dispatched,                           *)
(*   landed    the dispatches that Telegram has applied,                   *)
(*   failed    the dispatches known not to be applied, now or later,       *)
(*   released  the dispatches an operator allowed to be repeated.          *)
(* MirrorWorker implements this specification.                             *)
(***************************************************************************)
EXTENDS Naturals

CONSTANT Event
VARIABLE box

Phase == {"absent", "queued", "sending", "uncertain", "sent", "dead", "parked"}

Empty == [phase |-> "absent", n |-> 0, landed |-> {}, failed |-> {}, released |-> {}]

Init == box = [e \in Event |-> Empty]

Moves(b, c, from, to) == b.phase \in from /\ c = [b EXCEPT !.phase = to]

Queue(b, c) == Moves(b, c, {"absent", "parked"}, "queued")
Park(b, c)  == Moves(b, c, {"queued"}, "parked")

(* A dispatch needs every earlier one to be accounted for.                 *)
Dispatch(b, c) ==
  /\ b.phase = "queued"
  /\ 1..b.n \subseteq b.failed \cup b.released
  /\ c = [b EXCEPT !.phase = "sending", !.n = @ + 1]

Land(b, c) ==
  \E k \in 1..b.n \ b.failed : c = [b EXCEPT !.landed = @ \cup {k}]

Confirm(b, c) == b.n \in b.landed /\ Moves(b, c, {"sending"}, "sent")

Fail(b, c) ==
  /\ b.phase = "sending"
  /\ b.n \notin b.landed
  /\ \E next \in {"queued", "dead"} :
       c = [b EXCEPT !.phase = next, !.failed = @ \cup {b.n}]

Doubt(b, c) == Moves(b, c, {"sending"}, "uncertain")

Release(b, c) ==
  /\ b.phase = "uncertain"
  /\ c = [b EXCEPT !.phase = "queued", !.released = @ \cup {b.n}]

Vouch(b, c) == Moves(b, c, {"uncertain"}, "sent")

Step(b, c) ==
  \/ Queue(b, c) \/ Park(b, c) \/ Dispatch(b, c) \/ Land(b, c) \/ Confirm(b, c)
  \/ Fail(b, c) \/ Doubt(b, c) \/ Release(b, c) \/ Vouch(b, c)

Sending == {e \in Event : box[e].phase = "sending"}

(* One commit may move several events, but at most one event is ever being *)
(* sent.                                                                   *)
Next ==
  /\ box' \in [Event -> {box'[e] : e \in Event}]
  /\ \A e \in Event : box'[e] = box[e] \/ Step(box[e], box'[e])
  /\ \A e, f \in Sending' : e = f

Spec == Init /\ [][Next]_box
=============================================================================
