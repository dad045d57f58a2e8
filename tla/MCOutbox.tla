------------------------------ MODULE MCOutbox ------------------------------
(***************************************************************************)
(* A small instance of Outbox: two rounds over two keys, one of which can be *)
(* enqueued again, with an Envelope of its own, while a round still holds    *)
(* the first.                                                                *)
(***************************************************************************)
EXTENDS Outbox

CONSTANTS a, again, b

MCKeyOf == [o \in {a, again, b} |-> IF o = b THEN "b" ELSE "a"]
=============================================================================
