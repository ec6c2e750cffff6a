CONSTANTS
  Attempts = {a1, a2}
SPECIFICATION ModalFairSpec
INVARIANTS NoDeadEnd
PROPERTIES ComesBack
