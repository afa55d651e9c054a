---------------------------- MODULE DatasetRuns ----------------------------
(* What is done with the files of the dataset: they are scanned by the EDA    *)
(* (EdaRun), or replayed into the job and read offline (RoundExtract,        *)
(* RepeatRuns).                                                               *)
EXTENDS EdaRun, RepeatRuns

NoRecording == <<>>

NothingReplayed ==
    /\ rec = NoRecording /\ bookmark = Nowhere /\ sent = <<>>
    /\ replayer = [phase |-> "off"]
    /\ m1 = [open |-> <<>>, pending |-> 0, rounds |-> <<>>]

DatasetInit ==
    \/ Init /\ NothingReplayed
    \/ Init /\ disk = (CHOOSE d \in Starts : TRUE) /\ ReplayInit

DatasetNext ==
    \/ rec = NoRecording /\ Next /\ UNCHANGED replayVars
    \/ rec # NoRecording /\ ReplayNext /\ UNCHANGED vars

DatasetSpec == DatasetInit /\ [][DatasetNext]_<<vars, replayVars>>
=============================================================================
