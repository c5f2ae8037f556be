-------------------------- MODULE TransactionFeed --------------------------
(***************************************************************************)
(* What the bot promises about the transactions it reads off the shreds,   *)
(* whatever queues lie behind it: the detector and the velocity monitor    *)
(* each get them one by one in the order they came, none skipped and none  *)
(* twice.  (That they get all of them is a question of liveness.)          *)
(***************************************************************************)
EXTENDS Sequences, SequencesExt

CONSTANT Tx

VARIABLES fed, scanned, ingested

Init ==
    /\ fed = <<>>
    /\ scanned = <<>>
    /\ ingested = <<>>

(* More transactions arrive; nothing of the past is rewritten.             *)
Arrive ==
    /\ IsStrictPrefix(fed, fed')
    /\ fed' \in Seq(Tx)
    /\ UNCHANGED <<scanned, ingested>>

WithNext(seen) == Append(seen, fed[Len(seen) + 1])

Scan ==
    /\ Len(scanned) < Len(fed)
    /\ scanned' = WithNext(scanned)
    /\ UNCHANGED <<fed, ingested>>

Ingest ==
    /\ Len(ingested) < Len(fed)
    /\ ingested' = WithNext(ingested)
    /\ UNCHANGED <<fed, scanned>>

Next == Arrive \/ Scan \/ Ingest

Spec == Init /\ [][Next]_<<fed, scanned, ingested>>
=============================================================================
