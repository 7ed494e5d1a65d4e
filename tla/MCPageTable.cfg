SPECIFICATION Spec
CONSTANTS
  Fan = 2
  NrPages = 8
  Requests <- MCRequests
INVARIANT TablesDisjoint
PROPERTY AddressSpaceSpec
