---------------------------- MODULE MCSubscribers ----------------------------
(***************************************************************************)
(* A small instance of Subscribers: one thread, one object with up to two     *)
(* fields of metadata, three rows and a baseline that two rows may hide.      *)
(***************************************************************************)
EXTENDS Subscribers

MCMetadata == {[title |-> "a"], [title |-> "b", subject |-> "s"]}

MCCallerSnapshots == {None, << >>, [title |-> "a"]}

MCForms ==
  {[enabled_content_types |-> {"Document"}],
   [enabled_content_types |-> {"Document"}, detail_limit |-> 512]}
=============================================================================
