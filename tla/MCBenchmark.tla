----------------------------- MODULE MCBenchmark -----------------------------
(* An instance of Benchmark for TLC.                                       *)
EXTENDS Benchmark

MCInterval == [s \in Streams |-> 1]
=============================================================================
