SPECIFICATION Spec
SYMMETRY Symmetry
CONSTANTS
  sketching = sketching
  art = art
  design = design
  drawing = drawing
  Tags = {sketching, art, design, drawing}
  NoTag = NoTag
  Files <- MCFiles
  MaxSteps = 2
  Tabs = {tab1, tab2}
  MaxWanted = 2
  DeclarationMax = 2
  tab1 = tab1
  tab2 = tab2
  hand = hand
  eye = eye
  None = None
  ShelfTags = {art, design}
  ShelfSlugs = {hand, eye}
  ShelfLabels = {"Art", "Design"}
  ShelfFiles <- MCShelfFiles
  Admins = {admin1, admin2}
  admin1 = admin1
  admin2 = admin2
INVARIANTS
  VocabularyTypesOK
  NoCycles
  FilterMatchesLabels
  AgreedIdsStand
  ActiveTagsClustered
PROPERTIES
  SeedSettles
  PickerKeepsWhatItHides
