SPECIFICATION Spec
CONSTANTS
  MaxLayers = 3
  FriAlpha <- MCFriAlpha
  FriCommitment <- MCFriCommitment
  FriDecommitment <- MCFriDecommitment
  Shapes <- MCProgramShapes
  Droppable <- MCDroppable
INVARIANTS
  ProgramBound
