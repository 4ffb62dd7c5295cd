-------------------------- MODULE MCConsumerGroup --------------------------
(***************************************************************************)
(* Two instances and two entries, one per batch.  The first may be refused *)
(* each time, and is then a full batch that the second waits behind.       *)
(***************************************************************************)
EXTENDS ConsumerGroup
=============================================================================
