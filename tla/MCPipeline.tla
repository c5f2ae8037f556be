----------------------------- MODULE MCPipeline -----------------------------
(* A small instance of Pipeline for TLC: two tokens, and a transaction that*)
(* both parsers take for the same token, one that they take for different  *)
(* ones, and one that the detector does not take for a pool and on which   *)
(* the ingestion task panics.                                              *)
EXTENDS Pipeline

CONSTANTS m1, m2

MCMints == {m1, m2}
MCTx    == {[base |-> m1, coin |-> m1, indexed |-> TRUE],
            [base |-> m2, coin |-> m1, indexed |-> TRUE],
            [base |-> NoMint, coin |-> NoMint, indexed |-> FALSE]}
=============================================================================
