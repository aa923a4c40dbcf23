CONSTANTS
    r = r
    a = a
    b = b
    ab = ab
    ac = ac
    abc = abc
    o1 = o1
    o2 = o2
    o3 = o3
    o4 = o4
    Objects <- TreeObjects
    Prefixes <- TreePrefixes
    Root = r
    Depth <- TreeDepth
    Ancestors <- TreeAncestors
    Configs <- TreeConfigs
    Faulty = TRUE
SPECIFICATION FairSpec
INVARIANTS
    ListedExactlyOnce
    FailurePropagates
    PermitsConserved
PROPERTIES
    ListingEnds
