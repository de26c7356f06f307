----------------------------- MODULE TierVisit ------------------------------
(***************************************************************************)
(* What one visit of a tier may do to the cascade: which model it is given *)
(* to dispatch to, and what aggregation makes of a poor answer.  Cascade   *)
(* chooses within these bounds; Aggregation, which computes the choices    *)
(* from profiles, scores and verdicts, implements them.                    *)
(***************************************************************************)
EXTENDS Naturals, FiniteSets

CONSTANTS
  NoModel,
  MinCandidates,   \* fewer candidates than these are not asked
  MaxParallel      \* more than these are not asked either

VARIABLES
  everyone,        \* the models of the tier
  capable,         \* those that can handle the request
  eligible,        \* the tier may be aggregated
  selected,        \* the model whose answer the cascade has or waits for
  stage

visit == <<everyone, capable, eligible, selected, stage>>

(* A model that is capable, or when none is, any model of the tier. *)
Chosen(fit, all) == IF fit # {} THEN fit ELSE all

(* The models aggregation would ask beside the one whose answer was poor. *)
Candidates == capable \ {selected}

Possible == eligible /\ Cardinality(Candidates) >= MinCandidates

(* It may be skipped: when there are more candidates than are asked, the ranking
   keeps only those with a profile, and these may be too few. *)
Skippable == ~Possible \/ Cardinality(Candidates) > MaxParallel

Init ==
  /\ capable \subseteq everyone
  /\ eligible \in BOOLEAN
  /\ selected = NoModel
  /\ stage = "select"

Choose ==
  /\ stage = "select" /\ stage' = "called"
  /\ selected' \in Chosen(capable, everyone)
  /\ UNCHANGED <<everyone, capable, eligible>>

(* The answer is good, judging it raises, or another one is wanted. *)
Judge ==
  /\ stage = "called" /\ stage' \in {"settled", "poor"}
  /\ UNCHANGED <<everyone, capable, eligible, selected>>

Skip ==
  /\ stage = "poor" /\ Skippable /\ stage' = "escalate"
  /\ UNCHANGED <<everyone, capable, eligible, selected>>

Ask ==
  /\ stage = "poor" /\ Possible /\ stage' = "asking"
  /\ UNCHANGED <<everyone, capable, eligible, selected>>

(* The answer of a candidate replaces the poor one, or none is good. *)
Replace ==
  /\ stage = "asking" /\ stage' = "replaced"
  /\ selected' \in Candidates
  /\ UNCHANGED <<everyone, capable, eligible>>

GiveUp ==
  /\ stage = "asking" /\ stage' = "escalate"
  /\ UNCHANGED <<everyone, capable, eligible, selected>>

Next == Choose \/ Judge \/ Skip \/ Ask \/ Replace \/ GiveUp

Spec == Init /\ [][Next]_visit

=============================================================================
