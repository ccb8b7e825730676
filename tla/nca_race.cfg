CONSTANTS
  t1 = t1
  t2 = t2
  program = program
  update = update
  old = old
  text = text
  title = title
  foreign = foreign
  None = None
  Threads = {t1, t2}
  Files = {program}
  MaxSections = 2
  Rights = {title}
  UserKeys = {foreign}
  Image <- MCImage
  CallBound = 1
  SectionBound = 3
SPECIFICATION Spec
INVARIANT Recognised
CHECK_DEADLOCK FALSE
