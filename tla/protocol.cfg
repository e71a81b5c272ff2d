SPECIFICATION Spec
CONSTANTS
  MaxLayers = 3
  FriAlpha <- MCFriAlpha
  FriCommitment <- MCFriCommitment
  FriDecommitment <- MCFriDecommitment
  Shapes <- MCShapes
  Droppable <- MCDroppable
INVARIANTS
  HonestProofAccepted
  FaultyProofRefused
  ChallengesBound
