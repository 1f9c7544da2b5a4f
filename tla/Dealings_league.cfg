SPECIFICATION Spec
CONSTANTS
  me = me
  rival = rival
  stranger = stranger
  noone = noone
  a = a
  b = b
  c = c
  Me = me
  Others = {rival}
  Outsider = stranger
  NoOne = noone
  Players = {a, b, c}
  Requests = {r1}
  Offers = {o1}
  FirstOwner <- Owners
  FirstThreads <- Chats
  Cap = 2
  Deadline = 1
  WeeksBack = 1
  MaxSide = 1
  MaxEvents = 2
  LastWeek = 3
INVARIANTS
  RowsAreSleepers
  MessagesStayPrivate
PROPERTIES
  BooksCatchUp
CHECK_DEADLOCK FALSE
