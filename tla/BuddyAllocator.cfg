SPECIFICATION Spec
CONSTANT MaxOrder = 3
INVARIANTS NoFrameLost FitsMeansGranted TagsTruthful
PROPERTY ImplementsPageAllocator
