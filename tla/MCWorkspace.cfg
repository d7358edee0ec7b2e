SPECIFICATION Spec
CONSTANTS
    Panes = {p1, p2, p3}
    Keys = {k1, k2, k3}
    Natives = {n1, n2}
    NoNative = NoNative
    Edges <- AboveOnly
    Layouts <- PaneTrees
    LayoutLeaf <- Leaf
    LayoutLeaves <- CollectLeaves
    LayoutRemove <- RemoveLeaf
    LayoutRemoveAll <- RemoveLeaves
    LayoutSplit <- SplitLeaf
    LayoutFits <- WithinLimits
SYMMETRY Symmetry
INVARIANTS
    PanesAreWhole
    OneSessionPerNative
    StoredIsShown
PROPERTIES
    WorkSurvives
