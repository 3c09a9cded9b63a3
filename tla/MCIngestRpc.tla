---------------------------- MODULE MCIngestRpc -----------------------------
(* The instance of IngestRpc that TLC checks: requests that overlap on     *)
(* sequence 1, those of sequence 1 alone also with points nobody knows.    *)
EXTENDS IngestRpc, TLC

MCSequenceIds == {1, 2}
MCBatches == {{1}, {1, 2}}
MCUnresolved == {{1}}

(* All goes well; or, for a batch of both sequences, the window update     *)
(* throws, or something throws after the windows have been updated.        *)
MCAllWell == [applied |-> TRUE, window |-> "Ok", derived |-> "Ok",
              notification |-> "Ok"]
MCThrown(applied) == [applied |-> applied, window |-> "Failed",
                      derived |-> "Failed", notification |-> "Failed"]
MCHotOutcomes(b) ==
  IF b = {1} THEN {MCAllWell} ELSE {MCAllWell, MCThrown(TRUE), MCThrown(FALSE)}

MCSymmetry == Permutations(Tasks) \cup Permutations(HotWorkers)
=============================================================================
