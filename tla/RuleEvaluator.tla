----------------------------- MODULE RuleEvaluator -----------------------------
(***************************************************************************)
(* Jobs/Authorization/JobAuthorizationRuleEvaluator.cs: two passes over the  *)
(* rules of an action, the Deny rules first and then the Grant rules, one     *)
(* awaited rule at a time.  An AnyOfJobAuthorizationRule is itself a loop     *)
(* over its members; any other rule is a rule whose one member is its own     *)
(* result.  What a rule answers is data here: "Allow", "Skip" or "Deny".       *)
(***************************************************************************)
EXTENDS Integers, Sequences

Results == {"Allow", "Skip", "Deny"}
Kinds == {"Deny", "Grant"}

\* The constructor of AnyOf refuses an empty list; its kind is always Grant.
Rules ==
    [kind : {"Deny"}, members : {<<r>> : r \in Results}]
        \cup [kind : {"Grant"}, members : Seq(Results) \ {<<>>}]

CONSTANT RuleLists    \* the lists an action may build

ASSUME RuleListsAssumption == RuleLists \subseteq Seq(Rules)

VARIABLES
    rules,        \* the list that is evaluated
    kind,         \* the kind of the present pass
    index,        \* the rule at hand
    member,       \* and its member at hand
    memberAllows, \* anyAllow of the AnyOf rule
    anyAllow,     \* anyAllow of the pass
    decision      \* the evaluator's answer, "none" before it is given

vars == <<rules, kind, index, member, memberAllows, anyAllow, decision>>

\* Mutation of Init: the Grant rules are asked first.
Init_GrantRulesFirst ==
    /\ rules \in RuleLists
    /\ kind = "Grant"
    /\ index = 1
    /\ member = 1
    /\ memberAllows = FALSE
    /\ anyAllow = FALSE
    /\ decision = "none"

Init ==
    /\ rules \in RuleLists
    /\ kind = "Deny"
    /\ index = 1
    /\ member = 1
    /\ memberAllows = FALSE
    /\ anyAllow = FALSE
    /\ decision = "none"

Evaluating == decision = "none" /\ index <= Len(rules)

NextRule(allows) ==
    /\ index' = index + 1
    /\ member' = 1
    /\ memberAllows' = FALSE
    /\ anyAllow' = (anyAllow \/ allows)

SkipRule ==
    /\ Evaluating
    /\ rules[index].kind # kind
    /\ NextRule(FALSE)
    /\ UNCHANGED <<rules, kind, decision>>

\* The next member of the rule at hand answers; a Deny ends the evaluation.
EvaluateMember ==
    /\ Evaluating
    /\ rules[index].kind = kind
    /\ LET members == rules[index].members
           result == members[member]
           allows == memberAllows \/ result = "Allow"
       IN  \/ /\ result = "Deny"
              /\ decision' = "Deny"
              /\ UNCHANGED <<index, member, memberAllows, anyAllow>>
           \/ /\ result # "Deny" /\ member < Len(members)
              /\ member' = member + 1
              /\ memberAllows' = allows
              /\ UNCHANGED <<index, anyAllow, decision>>
           \/ /\ result # "Deny" /\ member = Len(members)
              /\ NextRule(allows)
              /\ UNCHANGED decision
    /\ UNCHANGED <<rules, kind>>

\* Mutation of EndDenyPass: what a Deny rule allows counts as a grant.
EndDenyPass_AllowKept ==
    /\ decision = "none" /\ kind = "Deny" /\ index > Len(rules)
    /\ kind' = "Grant"
    /\ index' = 1
    /\ UNCHANGED <<rules, member, memberAllows, anyAllow, decision>>

\* The boundary pass denied nothing; what it allowed is not looked at.
EndDenyPass ==
    /\ decision = "none" /\ kind = "Deny" /\ index > Len(rules)
    /\ kind' = "Grant"
    /\ index' = 1
    /\ anyAllow' = FALSE
    /\ UNCHANGED <<rules, member, memberAllows, decision>>

EndGrantPass ==
    /\ decision = "none" /\ kind = "Grant" /\ index > Len(rules)
    /\ decision' = IF anyAllow THEN "Allow" ELSE "Deny"
    /\ UNCHANGED <<rules, kind, index, member, memberAllows, anyAllow>>

Next == SkipRule \/ EvaluateMember \/ EndDenyPass \/ EndGrantPass

Spec == Init /\ [][Next]_vars

-----------------------------------------------------------------------------
TypeOK ==
    /\ rules \in Seq(Rules)
    /\ kind \in Kinds
    /\ index \in 1 .. Len(rules) + 1
    /\ index <= Len(rules) => member \in 1 .. Len(rules[index].members)
    /\ memberAllows \in BOOLEAN /\ anyAllow \in BOOLEAN
    /\ decision \in {"none", "Allow", "Deny"}

Denies(rule) == \E m \in DOMAIN rule.members : rule.members[m] = "Deny"
Allows(rule) == \E m \in DOMAIN rule.members : rule.members[m] = "Allow"

\* What a list of rules means, whatever its order: nobody objects, and some Grant
\* rule allows.  An allowing Deny rule grants nothing, an objecting Grant rule denies.
Authorized(list) ==
    /\ \A i \in DOMAIN list : ~Denies(list[i])
    /\ \E i \in DOMAIN list : list[i].kind = "Grant" /\ Allows(list[i])

\* The two nested, short-circuiting passes decide what the list means.
DecisionIsOfTheList ==
    decision # "none" => decision = (IF Authorized(rules) THEN "Allow" ELSE "Deny")

\* No Grant rule (which may be expensive, or have effects) is asked before every Deny
\* rule of the list has been, wherever it stands in the list.
DenyRulesFirst ==
    kind = "Grant" => \A i \in DOMAIN rules : rules[i].kind = "Deny" => ~Denies(rules[i])
=============================================================================
