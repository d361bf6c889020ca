--------------------------- MODULE SpeakerScoring ---------------------------
(***************************************************************************)
(* How the benchmark harness scores one recording under one configuration: *)
(* it clusters the stored vectors of the segments that are long enough,    *)
(* gives each short segment the label of the nearest cluster, folds the    *)
(* speakers who speak too little into the others, and compares the labels  *)
(* with the reference by the time they overlap.  Vectors are left out:     *)
(* which labels the clustering finds, and which cluster is nearest, is any *)
(* choice.  Time is a row of slots; a segment covers some of them, and the *)
(* reference gives a slot the speaker who is heard in it, if any.          *)
(***************************************************************************)
EXTENDS Integers, FiniteSets

CONSTANTS Slots,        \* the slots of the recording
          SegmentAt,    \* the transcript segment that covers a slot, 0 for none
          Voices,       \* speakers of the reference
          Silence,
          MaxSpeakers,  \* max_speakers of the configuration
          MinSegment,   \* min_segment_length, in slots
          MinSpeech     \* min_speech_duration, in slots

ASSUME ScoringAssumption ==
    /\ IsFiniteSet(Slots)
    /\ SegmentAt \in [Slots -> Nat]
    /\ {MaxSpeakers, MinSegment, MinSpeech} \subseteq Nat \ {0}
    /\ Silence \notin Voices

VARIABLES
    reference,          \* the speaker heard in each slot
    label,              \* the label of each segment, 0 while it has none
    stage               \* what evaluate_recording does next

scoringVars == <<reference, label, stage>>

Segments == {SegmentAt[t] : t \in Slots} \ {0}
Duration(s) == Cardinality({t \in Slots : SegmentAt[t] = s})

Clusterable ==
    LET long == {s \in Segments : Duration(s) >= MinSegment}
    IN  IF long = {} THEN Segments ELSE long

Labels == {label[s] : s \in Segments} \ {0}
LabelAt(t) == IF SegmentAt[t] = 0 THEN 0 ELSE label[SegmentAt[t]]
SpeechOf(l) == Cardinality({t \in Slots : LabelAt(t) = l})

ScoringInit ==
    /\ reference = [t \in Slots |-> Silence]
    /\ label = [s \in Segments |-> 0]
    /\ stage = "start"

\* The reference segments of the recording; without one of them the harness
\* falls back on the number of speakers.
ReadReference ==
    /\ stage = "start"
    /\ reference' \in [Slots -> Voices \union {Silence}]
    /\ \E t \in Slots : reference'[t] # Silence
    /\ stage' = "cluster"
    /\ UNCHANGED label

\* cluster_vectors: at most max_speakers labels.
ClusterVectors ==
    /\ stage = "cluster"
    /\ \E found \in [Clusterable -> 1..MaxSpeakers] :
            label' = [s \in Segments |-> IF s \in Clusterable THEN found[s] ELSE 0]
    /\ stage' = "assign"
    /\ UNCHANGED reference

AssignNearest ==
    /\ stage = "assign"
    /\ \E nearest \in [Segments \ Clusterable -> Labels] :
            label' = [s \in Segments |-> IF s \in Clusterable THEN label[s] ELSE nearest[s]]
    /\ stage' = "fold"
    /\ UNCHANGED reference

Small == {l \in Labels : SpeechOf(l) < MinSpeech}

\* The labels a small speaker may be folded into.
Survivors == Labels \ Small

MergeSmallSpeakers ==
    /\ stage = "fold"
    /\ IF Labels = Small \/ Small = {}
       THEN UNCHANGED label
       ELSE \E remap \in [Small -> Survivors] :
                label' = [s \in Segments |-> IF label[s] \in Small THEN remap[label[s]] ELSE label[s]]
    /\ stage' = "done"
    /\ UNCHANGED reference

ScoringNext == ReadReference \/ ClusterVectors \/ AssignNearest \/ MergeSmallSpeakers

ScoringSpec == ScoringInit /\ [][ScoringNext]_scoringVars

-----------------------------------------------------------------------------
\* metrics.segment_metrics

Heard == {reference[t] : t \in Slots} \ {Silence}

\* Time a detected label shares with a reference speaker.
Shared(l, v) == Cardinality({t \in Slots : LabelAt(t) = l /\ reference[t] = v})

Matched == {l \in Labels : \E v \in Heard : Shared(l, v) > 0}

\* The speaker a label shares most time with; a tie may go either way.
Dominant == {d \in [Matched -> Heard] : \A l \in Matched, v \in Heard : Shared(l, v) <= Shared(l, d[l])}

Covered(d) == {d[l] : l \in Matched}
OverMerged(d) == Cardinality(Heard \ Covered(d))
\* The labels beyond the first of each speaker.
OverSplit(d) == Cardinality(Matched) - Cardinality(Covered(d))

NotNegative(n) == IF n < 0 THEN 0 ELSE n
CorrectlyClusteredRaw(d) == Cardinality(Covered(d))

CorrectlyClustered(d) == NotNegative(Cardinality(Covered(d)) - OverSplit(d))

CorrectTime(d) == Cardinality({t \in Slots : LabelAt(t) \in Matched /\ reference[t] = d[LabelAt(t)]})
ReferenceTime == Cardinality({t \in Slots : reference[t] # Silence})
MatchedTime == Cardinality({t \in Slots : LabelAt(t) \in Matched /\ reference[t] # Silence})

-----------------------------------------------------------------------------
\* What a perfect diarization is, without reference to the metrics: one label
\* for each speaker, given wherever the speaker is heard.
Perfect == \E name \in [Heard -> Labels] :
    /\ \A v, w \in Heard : name[v] = name[w] => v = w
    /\ \A t \in Slots : reference[t] # Silence => LabelAt(t) = name[reference[t]]

\* The scores give full marks, every speaker correctly clustered and no time
\* lost, exactly to the perfect diarization, whichever way ties go; no speaker
\* is counted both as clustered and as merged away; and after folding every
\* speaker that is left speaks long enough, unless none did.
ScoresMeanWhatTheySay ==
    stage = "done" =>
        /\ \A d \in Dominant :
            /\ Perfect <=> (CorrectlyClustered(d) = Cardinality(Heard) /\ CorrectTime(d) = ReferenceTime)
            /\ CorrectlyClustered(d) + OverMerged(d) <= Cardinality(Heard)
            /\ CorrectTime(d) <= MatchedTime
        /\ Small = {} \/ Small = Labels
=============================================================================
