SPECIFICATION Spec
CONSTANTS
  AntiSanction = {a1, a2}
  Default = {p1}
  Plain = {u1}
  Encrypted = {e1}
  Gemini = {gemini}
  QTypes = {1, 28, 65}
  Ids = {0, 1}
  None = None
INVARIANT FirstAnswerWins
