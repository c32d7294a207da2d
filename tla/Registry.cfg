CONSTANTS
  h1 = h1  h2 = h2  s1 = s1  s2 = s2  t1 = t1  t2 = t2
  b1 = b1  w1 = w1  w2 = w2   None = None
  Host = {h1, h2}
  Site = {s1, s2}
  Token = {t1, t2}
  Conf = {1}
  Name = {1}
  Boot = {b1}
  Job = {w1, w2}
  MaxChanges = 1

SPECIFICATION Spec
SYMMETRY Symmetry
INVARIANTS
  SitesAreApart GrantedOnce
PROPERTIES
  NoResurrection OperatorsFieldsStay
