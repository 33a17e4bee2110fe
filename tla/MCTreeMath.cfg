CONSTANT MaxLeaves = 11
SPECIFICATION Spec
INVARIANT DescentCoversTree
INVARIANT CopathPartitionsLeaves
INVARIANT CommonAncestorSelectsRecipientCopath
