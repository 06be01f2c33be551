SPECIFICATION Spec
CONSTANT Symbols <- MCSymbols
INVARIANTS CodesInBuffers FrameFilled
PROPERTY LayoutSpec
CHECK_DEADLOCK FALSE
