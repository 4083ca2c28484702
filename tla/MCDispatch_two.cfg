SPECIFICATION Spec
CONSTANTS
  Fd = {f1, f2, f3}
  num_threads = 2
  Limit = 2
  Backlog = 1
  NoFd = NoFd
INVARIANTS
  TypeOK
  OneOwner
  LetterForEach
PROPERTIES
  ListensAgain
