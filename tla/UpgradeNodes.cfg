\* Two nodes; a plan for block 2 or 3, a second one after a skipped first, and
\* caps below and above the new one.
CONSTANTS
    n1 = n1  n2 = n2
    Nodes = {n1, n2}
    PlanHeights = {2, 3}
    Caps = {1, 3}
    NewCap = 2
    MaxHeight = 3
SYMMETRY NodeSymmetry
SPECIFICATION Spec
INVARIANTS
    Inv
PROPERTIES
    LoaderForUpgrade
