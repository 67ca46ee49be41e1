\* Two producers of three items, three consumers, a ring of three slots: more threads and items
\* than slots, so that both ends block and the ring wraps.  No symmetry, for Terminates.
CONSTANTS
  Producers = {p1, p2}
  Consumers = {c1, c2, c3}
  Main = main
  BUFFER_SIZE = 3
  ITEMS_TO_PRODUCE = 3
  SOMETHING_WRONG_COUNT = 7
  NULL = NULL
SPECIFICATION Spec
INVARIANTS NoKassertFails UnitsConserved QuietAtShutdown
PROPERTIES ImplementsQueue Terminates
