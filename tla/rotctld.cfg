\* One client, with and without the walkaround; Terminate may be called.
SPECIFICATION FairSpec
CONSTANTS
  c1 = c1
  Clients <- OneClient
  Texts <- SomeTexts
  MaxCommands = 2
  Descriptors <- ThreeDescriptors
  Listener = Listener
  Camera = Camera
  Nobody = Nobody
  NoDescriptor = NoDescriptor
INVARIANTS
  TypeOK
  RepliesInOrder
  DescriptorsIntact
PROPERTIES
  CommandAnswered
  SessionEnds
\* The system stops when client, threads or process are done.
CHECK_DEADLOCK FALSE
