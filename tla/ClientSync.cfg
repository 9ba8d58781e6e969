SPECIFICATION Spec
CONSTANTS
  Remote = {a}
  Local = here
  Nil = Nil
  MaxUpsets = 3
  Cap = 1
INVARIANT StreamIsSelected
PROPERTY NeverBackwards
PROPERTY CatchesUp
