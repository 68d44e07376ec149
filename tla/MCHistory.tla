----------------------------- MODULE MCHistory -----------------------------
(* The real constants are 30, 360, 300 and 6 samples.  Here, too, the       *)
(* interval leaves room for a retry before a bucket is lost, an outage need *)
(* not be a whole number of buckets, and it can outlast the buffer.         *)
EXTENDS History, TLC
============================================================================
