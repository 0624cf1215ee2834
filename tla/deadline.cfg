SPECIFICATION FairSpec
CONSTANTS
    Maximum <- MCMaximum
    MaxTime <- MCMaxTime
    MaxId <- MCMaxId
    Generations <- MCGenerations
INVARIANTS
    TypeOK
    HeapBounded
    ActiveInHeap
    SpentOnce
PROPERTIES
    ImplementsDeadlineSet
    EveryDeadlineLeaves
