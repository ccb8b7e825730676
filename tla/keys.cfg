CONSTANTS
  k1 = k1
  k2 = k2
  Keys = {k1, k2}
  Zero = Zero
  Noise = Noise
  Text = Text
  Missing = Missing
  Rights = {"game"}
  Digits <- MCDigits
  Generations = 3
  Lines <- MCLines
  TitleLines <- MCTitleLines
  LineBound = 3
SPECIFICATION Spec
INVARIANT TypeOK
INVARIANT KeysFaithful
INVARIANT TitleRight
CHECK_DEADLOCK FALSE
