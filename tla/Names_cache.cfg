\* Three names and two dbrefs; two of the names share a slot.
SPECIFICATION Spec
SYMMETRY NameSymmetry
CONSTANTS
  n1 = n1
  n2 = n2
  n3 = n3
  d1 = d1
  d2 = d2
  Name = {n1, n2, n3}
  Dbref = {d1, d2}
  Slot = {0, 1}
  SlotOf <- MCSlotOf
  Empty = Empty
  NoDbref = NoDbref
INVARIANTS
  NamesAgree
  StartFindsNames
PROPERTY
  DumpListsNames
