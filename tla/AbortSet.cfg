\* Four futures under two ids, with either queue, polled in place or spawned.
CONSTANTS
  Ids = {a, b}
  MaxInserts = 4
SPECIFICATION Spec
INVARIANTS HandlesWork LostHandles
PROPERTIES AbortIsFinal OnlyAbortedVanish
