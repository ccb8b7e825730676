CONSTANTS
  t1 = t1
  t2 = t2
  program = program
  update = update
  old = old
  text = text
  title = title
  foreign = foreign
  None = None
  Threads = {t1, t2}
  Files = {program, update, old, text}
  MaxSections = 2
  Rights = {title}
  UserKeys = {foreign}
  Image <- MCImage
  CallBound = 1
  SectionBound = 3
SPECIFICATION Spec
INVARIANT HeaderRight
INVARIANT OpenRight
INVARIANT SectionsRight
CHECK_DEADLOCK FALSE
