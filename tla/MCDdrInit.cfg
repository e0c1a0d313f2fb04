\* Two channels with any combination of ranks; tables of four entries.
CONSTANTS
  Bits = 2
  num_pagetables = 8
  Programs <- MCPrograms
SPECIFICATION MCSpec
INVARIANTS BarrierSound SpaceSound 
PROPERTIES ImplementsTraining AllEnds
