SPECIFICATION FairSpec
CONSTANTS
    Strategies <- MCStrategies
    Templates <- MCTemplates
    Expansion <- MCExpansion
    MaxTried = 8
INVARIANTS
    TypeOK
    OrdersFollowTemplate
PROPERTIES
    TemplateEnds
CHECK_DEADLOCK FALSE
