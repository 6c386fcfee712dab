\* Lines as questions.txt has them.
SPECIFICATION Spec
CONSTANTS
  ayam = ayam
  kucing = kucing
  Kucing = Kucing
  Text <- Texts
  lower <- Lower
  Line <- PlainLines
INVARIANTS
  PaysItsScore
