SPECIFICATION Spec
CONSTANTS
  o1 = o1
  o2 = o2
  d1 = d1
  d2 = d2
  NoThread = NoThread
  Openers <- OneOpener
  Destroyers <- OneDestroyer
INVARIANTS NoFileAfterDestroy
CHECK_DEADLOCK FALSE
