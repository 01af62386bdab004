----------------------------- MODULE MCStreamer -----------------------------
(* Streamer for TLC; the configurations give the bounds. *)
EXTENDS Streamer
=============================================================================
