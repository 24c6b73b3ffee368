SPECIFICATION FairSpec
CONSTANTS
  None = None
  Job = {j1, j2}
  Editor = {e1}
  Translation = {t1}
  MaxResident = 1
INVARIANT ImportIsPrivate
INVARIANT OnlyAPeekOrAFailureUndoesAnImport
PROPERTY ImportsEnd
