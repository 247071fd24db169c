---------------------------- MODULE MCRuleEvaluator ----------------------------
(* Constants for the model-checking run of RuleEvaluator: every list of up to  *)
(* three rules, a rule having up to two members.                              *)
EXTENDS RuleEvaluator, SequencesExt

ShortRules ==
    [kind : {"Deny"}, members : [1 .. 1 -> Results]]
        \cup [kind : {"Grant"}, members : UNION {[1 .. n -> Results] : n \in 1 .. 2}]

ShortLists == BoundedSeq(ShortRules, 3)
=============================================================================
