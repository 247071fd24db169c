-------------------------- MODULE RuleEvaluatorProofs --------------------------
(***************************************************************************)
(* What the evaluator decides, for any list of rules.                        *)
(***************************************************************************)
EXTENDS RuleEvaluator, TLAPS

\* The rules of the present pass that have been asked.
Asked(i) == i \in DOMAIN rules /\ i < index /\ rules[i].kind = kind

\* What the local variables of the loops stand for: nothing asked so far denied; anyAllow
\* says whether a rule of the pass allowed, memberAllows whether a member of the rule at
\* hand did; and the second pass is reached only without an objection in the first.
LoopsCount ==
    decision = "none" =>
        /\ \A i \in DOMAIN rules : Asked(i) => ~Denies(rules[i])
        /\ anyAllow <=> \E i \in DOMAIN rules : Asked(i) /\ Allows(rules[i])
        /\ index <= Len(rules) =>
             /\ \A m \in 1 .. member - 1 : rules[index].members[m] # "Deny"
             /\ memberAllows <=> \E m \in 1 .. member - 1 : rules[index].members[m] = "Allow"
        /\ index <= Len(rules) /\ rules[index].kind # kind => member = 1
        /\ index > Len(rules) => member = 1 /\ ~memberAllows

IInv == TypeOK /\ DenyRulesFirst /\ LoopsCount /\ DecisionIsOfTheList

-----------------------------------------------------------------------------
LEMMA RuleFacts ==
    ASSUME NEW list \in Seq(Rules), NEW i \in DOMAIN list
    PROVE  /\ list[i].kind \in Kinds
           /\ list[i].members \in Seq(Results)
           /\ Len(list[i].members) \in Nat \ {0}
  <1>1. list[i] \in Rules
    OBVIOUS
  <1>2. CASE list[i] \in [kind : {"Deny"}, members : {<<r>> : r \in Results}]
    <2>1. PICK r \in Results : list[i].members = <<r>>
      BY <1>2
    <2>2. <<r>> \in Seq(Results) /\ Len(<<r>>) = 1
      OBVIOUS
    <2>3. list[i].kind \in Kinds
      BY <1>2 DEF Kinds
    <2> QED  BY <2>1, <2>2, <2>3
  <1>3. CASE list[i] \in [kind : {"Grant"}, members : Seq(Results) \ {<<>>}]
    <2>1. list[i].members \in Seq(Results) /\ list[i].members # <<>>
      BY <1>3
    <2>2. Len(list[i].members) # 0
      BY <2>1
    <2> QED  BY <1>3, <2>1, <2>2 DEF Kinds
  <1> QED  BY <1>1, <1>2, <1>3 DEF Rules

LEMMA InitIInv == Init => IInv
  <1> SUFFICES ASSUME Init PROVE IInv
    OBVIOUS
  <1>1. rules \in Seq(Rules)
    BY RuleListsAssumption DEF Init
  <1>2. index <= Len(rules) => member \in 1 .. Len(rules[index].members)
    BY <1>1, RuleFacts DEF Init
  <1>3. TypeOK
    <2>1. Len(rules) \in Nat
      BY <1>1
    <2>2. index \in 1 .. Len(rules) + 1 /\ kind \in Kinds
      BY <2>1 DEF Init, Kinds
    <2>3. memberAllows \in BOOLEAN /\ anyAllow \in BOOLEAN
      BY DEF Init
    <2> QED  BY <1>1, <1>2, <2>2, <2>3 DEF Init, TypeOK
  <1>4. LoopsCount
    BY <1>1 DEF Init, LoopsCount, Asked
  <1> QED  BY <1>3, <1>4 DEF Init, IInv, DenyRulesFirst, DecisionIsOfTheList

\* Entering a rule: member is 1 and every list of members has a first.
LEMMA NextRuleType ==
    ASSUME TypeOK, Evaluating, NEW allows \in BOOLEAN, NextRule(allows),
           UNCHANGED <<rules, kind, decision>>
    PROVE  TypeOK'
  <1>1. index' = index + 1 /\ index' \in 1 .. Len(rules) + 1
    BY DEF TypeOK, Evaluating, NextRule
  <1>2. index' <= Len(rules) => 1 \in 1 .. Len(rules[index'].members)
    BY <1>1, RuleFacts DEF TypeOK
  <1> QED  BY <1>1, <1>2 DEF TypeOK, NextRule, Evaluating

LEMMA SkipRuleIInv == IInv /\ SkipRule => IInv'
  <1> SUFFICES ASSUME IInv, SkipRule PROVE IInv'
    OBVIOUS
  <1> USE DEF IInv
  <1>1. TypeOK'
    BY NextRuleType DEF SkipRule
  <1>2. \A i \in DOMAIN rules : Asked(i)' <=> Asked(i)
    BY DEF Asked, SkipRule, NextRule, Evaluating, TypeOK
  <1>3. LoopsCount'
    BY <1>2 DEF LoopsCount, SkipRule, NextRule, Evaluating, TypeOK, Denies, Allows
  <1> QED  BY <1>1, <1>3 DEF SkipRule, Evaluating, DenyRulesFirst, DecisionIsOfTheList, Denies

LEMMA EvaluateMemberIInv == IInv /\ EvaluateMember => IInv'
  <1> SUFFICES ASSUME IInv, EvaluateMember PROVE IInv'
    OBVIOUS
  <1> USE DEF IInv
  <1> DEFINE rule == rules[index]
             result == rule.members[member]
             allows == memberAllows \/ result = "Allow"
  <1>1. /\ Evaluating /\ rule.kind = kind /\ index \in DOMAIN rules
        /\ UNCHANGED <<rules, kind>>
        /\ rules \in Seq(Rules) /\ index \in Nat
        /\ member \in 1 .. Len(rule.members)
        /\ rule.members \in Seq(Results)
    <2>1. Evaluating /\ rule.kind = kind /\ UNCHANGED <<rules, kind>>
      BY DEF EvaluateMember
    <2>2. index \in DOMAIN rules /\ rules \in Seq(Rules) /\ index \in Nat
      BY <2>1 DEF TypeOK, Evaluating
    <2>3. member \in 1 .. Len(rule.members)
      BY <2>1 DEF TypeOK, Evaluating
    <2> QED  BY <2>1, <2>2, <2>3, RuleFacts
  <1>2. DenyRulesFirst'
    BY <1>1 DEF DenyRulesFirst, Denies
  <1>3. CASE result = "Deny"
    <2>1. decision' = "Deny" /\ UNCHANGED <<index, member, memberAllows, anyAllow>>
      BY <1>3 DEF EvaluateMember
    <2>2. TypeOK'
      BY <1>1, <2>1 DEF TypeOK
    <2>3. Denies(rule)
      BY <1>1, <1>3 DEF Denies
    <2>4. ~Authorized(rules)
      BY <1>1, <2>3 DEF Authorized
    <2> QED  BY <1>1, <1>2, <2>1, <2>2, <2>4 DEF LoopsCount, DecisionIsOfTheList
  <1>4. CASE result # "Deny" /\ member < Len(rule.members)
    <2>1. /\ member' = member + 1 /\ memberAllows' = allows
          /\ UNCHANGED <<index, anyAllow, decision>>
      BY <1>4 DEF EvaluateMember
    <2>2. TypeOK'
      BY <1>1, <1>4, <2>1 DEF TypeOK
    <2>3. 1 .. member' - 1 = (1 .. member - 1) \cup {member}
      BY <1>1, <2>1
    <2>4. memberAllows' <=> memberAllows \/ result = "Allow"
      BY <2>1
    <2>5. \A m \in 1 .. member' - 1 : rule.members[m] # "Deny"
      BY <1>1, <1>4, <2>3 DEF LoopsCount, Evaluating
    <2>6. memberAllows' <=> \E m \in 1 .. member' - 1 : rule.members[m] = "Allow"
      BY <1>1, <2>3, <2>4 DEF LoopsCount, Evaluating
    <2>7. \A i \in DOMAIN rules : Asked(i)' <=> Asked(i)
      BY <1>1, <2>1 DEF Asked
    <2>8. LoopsCount'
      BY <1>1, <2>1, <2>5, <2>6, <2>7 DEF LoopsCount, Evaluating, Denies, Allows
    <2> QED  BY <1>1, <1>2, <2>1, <2>2, <2>8 DEF DecisionIsOfTheList, Evaluating
  <1>5. CASE result # "Deny" /\ member = Len(rule.members)
    <2>1. NextRule(allows) /\ UNCHANGED decision
      BY <1>5 DEF EvaluateMember
    <2>2. TypeOK'
      BY <1>1, <2>1, NextRuleType DEF TypeOK
    <2>3. DOMAIN rule.members = (1 .. member - 1) \cup {member}
      BY <1>1, <1>5
    <2>4. ~Denies(rule) /\ (allows <=> Allows(rule))
      BY <1>1, <1>5, <2>3 DEF LoopsCount, Denies, Allows, Evaluating
    <2>5. \A i \in DOMAIN rules : Asked(i)' <=> Asked(i) \/ i = index
      BY <1>1, <2>1 DEF Asked, NextRule
    <2>6. anyAllow' <=> anyAllow \/ Allows(rule)
      BY <2>1, <2>4 DEF NextRule
    <2>7. /\ \A i \in DOMAIN rules : Asked(i)' => ~Denies(rules[i])
          /\ anyAllow' <=> \E i \in DOMAIN rules : Asked(i)' /\ Allows(rules[i])
      BY <1>1, <2>4, <2>5, <2>6 DEF LoopsCount, Evaluating
    <2>8. member' = 1 /\ memberAllows' = FALSE
      BY <2>1 DEF NextRule
    <2>9. LoopsCount'
      BY <1>1, <2>1, <2>7, <2>8 DEF LoopsCount, Denies, Allows
    <2> QED  BY <1>1, <1>2, <2>1, <2>2, <2>9 DEF DecisionIsOfTheList, Evaluating
  <1> QED  BY <1>1, <1>3, <1>4, <1>5

LEMMA EndDenyPassIInv == IInv /\ EndDenyPass => IInv'
  <1> SUFFICES ASSUME IInv, EndDenyPass PROVE IInv'
    OBVIOUS
  <1> USE DEF IInv
  <1>1. /\ decision = "none" /\ kind = "Deny" /\ index > Len(rules) /\ rules \in Seq(Rules)
        /\ kind' = "Grant" /\ index' = 1 /\ anyAllow' = FALSE
        /\ UNCHANGED <<rules, member, memberAllows, decision>>
    BY DEF EndDenyPass, TypeOK
  <1>2. member = 1 /\ memberAllows = FALSE
    BY <1>1 DEF LoopsCount, TypeOK
  <1>3. index' <= Len(rules) => member' \in 1 .. Len(rules[index'].members)
    <2> SUFFICES ASSUME 1 <= Len(rules) PROVE 1 \in 1 .. Len(rules[1].members)
      BY <1>1, <1>2
    <2>1. 1 \in DOMAIN rules
      BY <1>1
    <2> QED  BY <1>1, <2>1, RuleFacts
  <1>4. TypeOK'
    <2>1. index' \in 1 .. Len(rules') + 1 /\ kind' \in Kinds
      BY <1>1 DEF Kinds
    <2>2. anyAllow' \in BOOLEAN
      BY <1>1
    <2> QED  BY <1>1, <1>3, <2>1, <2>2 DEF TypeOK
  <1>5. \A i \in DOMAIN rules : rules[i].kind = "Deny" => Asked(i)
    BY <1>1 DEF Asked, TypeOK
  <1>6. DenyRulesFirst'
    BY <1>1, <1>5 DEF DenyRulesFirst, LoopsCount, Denies
  <1>7. \A i \in DOMAIN rules : ~Asked(i)'
    BY <1>1 DEF Asked
  <1>8. LoopsCount'
    BY <1>1, <1>2, <1>7 DEF LoopsCount
  <1> QED  BY <1>1, <1>4, <1>6, <1>8 DEF DecisionIsOfTheList

LEMMA EndGrantPassIInv == IInv /\ EndGrantPass => IInv'
  <1> SUFFICES ASSUME IInv, EndGrantPass PROVE IInv'
    OBVIOUS
  <1> USE DEF IInv
  <1>1. /\ decision = "none" /\ kind = "Grant" /\ index > Len(rules) /\ rules \in Seq(Rules)
        /\ decision' = IF anyAllow THEN "Allow" ELSE "Deny"
        /\ UNCHANGED <<rules, kind, index, member, memberAllows, anyAllow>>
    BY DEF EndGrantPass, TypeOK
  <1>2. \A i \in DOMAIN rules : rules[i].kind = "Grant" => Asked(i)
    BY <1>1 DEF Asked, TypeOK
  <1>3. \A i \in DOMAIN rules : ~Denies(rules[i])
    BY <1>1, <1>2, RuleFacts DEF LoopsCount, DenyRulesFirst, Kinds
  <1>4. anyAllow <=> \E i \in DOMAIN rules : rules[i].kind = "Grant" /\ Allows(rules[i])
    BY <1>1, <1>2 DEF LoopsCount, Asked
  <1>5. DecisionIsOfTheList'
    BY <1>1, <1>3, <1>4 DEF DecisionIsOfTheList, Authorized
  <1>6. TypeOK'
    BY <1>1 DEF TypeOK
  <1>7. decision' # "none"
    BY <1>1
  <1> QED  BY <1>1, <1>5, <1>6, <1>7 DEF LoopsCount, DenyRulesFirst, Denies

LEMMA InductiveStep == IInv /\ [Next]_vars => IInv'
  <1> SUFFICES ASSUME IInv, [Next]_vars PROVE IInv'
    OBVIOUS
  <1>1. CASE SkipRule        BY <1>1, SkipRuleIInv
  <1>2. CASE EvaluateMember  BY <1>2, EvaluateMemberIInv
  <1>3. CASE EndDenyPass     BY <1>3, EndDenyPassIInv
  <1>4. CASE EndGrantPass    BY <1>4, EndGrantPassIInv
  <1>5. CASE UNCHANGED vars
    BY <1>5 DEF vars, IInv, TypeOK, DenyRulesFirst, LoopsCount, DecisionIsOfTheList,
                Asked, Denies, Allows, Authorized
  <1> QED  BY <1>1, <1>2, <1>3, <1>4, <1>5 DEF Next

LEMMA AlwaysIInv == Spec => []IInv
  BY InitIInv, InductiveStep, PTL DEF Spec

\* The evaluator answers what its list means: for lists and AnyOf rules of any length
\* (JobAuthorizationRuleEvaluator.cs).
THEOREM EvaluatorDecides == Spec => [](TypeOK /\ DecisionIsOfTheList)
  <1>1. IInv => TypeOK /\ DecisionIsOfTheList
    BY DEF IInv
  <1> QED  BY <1>1, AlwaysIInv, PTL

\* It asks no Grant rule before all the Deny rules have answered.
THEOREM DenyRulesAreFirst == Spec => []DenyRulesFirst
  <1>1. IInv => DenyRulesFirst
    BY DEF IInv
  <1> QED  BY <1>1, AlwaysIInv, PTL
=============================================================================
