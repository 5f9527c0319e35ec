SPECIFICATION FairSpec
CONSTANTS
  Actors = {a, b}
  Client = client
  NoActor = noactor
  Nesting = {b}
  Panicky = {b}
  MaxSends = 2
INVARIANTS NoActorForgotten ShutdownJoins AliveIsTrue OnceAndInOrder
PROPERTIES AllActorsEnd
CHECK_DEADLOCK FALSE
