SPECIFICATION Spec
CONSTANT RuleLists <- ShortLists
INVARIANTS
    DecisionIsOfTheList
    DenyRulesFirst
CHECK_DEADLOCK FALSE
