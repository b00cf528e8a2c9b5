CONSTANT Inputs <- MCInputs
SPECIFICATION Spec
INVARIANTS
  RegularCompiles
  MessagesUsable
