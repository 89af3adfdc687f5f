CONSTANTS
  c1 = c1
  c2 = c2
  Cids = {c1, c2}
  None = None
  Names <- MCNames
  Kinds <- MCKinds
  Labels <- MCLabels
  Existing <- MCExisting
  Texts <- MCTexts
  Explored <- MCExplored
  Together <- MCTogether
  MaxWizards = 1
  MaxSchedules = 2
SPECIFICATION WizardSpec
SYMMETRY Symmetry
CHECK_DEADLOCK FALSE
INVARIANTS
  WizardTypeOK
  CreatedRunsAsTold
PROPERTY
  WrittenAsAgreed
VIEW View
