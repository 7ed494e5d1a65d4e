---------------------------- MODULE MCByteStream ----------------------------
(* A ring of capacity 3 and chunks of up to 4 bytes: a single write can     *)
(* overfill an empty ring, and every pair of front and rear occurs.         *)
EXTENDS ByteStream
=============================================================================
