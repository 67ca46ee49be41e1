------------------------- MODULE MCProducerConsumer -------------------------
(* A small simulation for TLC; see MCProducerConsumer.cfg. *)
EXTENDS ProducerConsumer
=============================================================================
