CONSTANTS
    Triggers = {t1, t2}
    None = None
    Visit = Visit
    Text = Text
    Filters <- MCFilters
    MinimumIndexedTriggers = 1
    MaxProcessingDepth = 2
    MaxSlots = 3
    MaxNestedSlots = 2
SYMMETRY TriggerSymmetry
VIEW PlacesThatMatter
SPECIFICATION Spec
INVARIANTS SnapshotIsRootList TrustedFiltersAreCurrent
PROPERTIES PinnedIsNeverEdited
