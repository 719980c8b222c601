SPECIFICATION Spec
CONSTANTS
  b1 = b1
  b2 = b2
  b3 = b3
  b4 = b4
  k1 = k1
  k2 = k2
  k3 = k3
  k4 = k4
  k5 = k5
  StackSize = 2
  MaxResident = 3
  Blocks <- MCBlocks
  Hypotheses <- MCHypotheses
  Offers <- MCOffers
INVARIANTS
  MutualExclusion
  HeapIsExact
  WithinCapacity
PROPERTIES
  ImplementsBeam
  Terminates
\* The stack is done once it is pruned.
CHECK_DEADLOCK FALSE
