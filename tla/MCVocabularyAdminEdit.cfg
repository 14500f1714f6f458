SPECIFICATION Spec
CONSTANTS
  sketching = sketching
  art = art
  design = design
  drawing = drawing
  Tags = {sketching, art, design, drawing}
  NoTag = NoTag
  Files <- MCFiles
  MaxSteps = 2
  Tabs = {tab1}
  MaxWanted = 1
  DeclarationMax = 2
  tab1 = tab1
  hand = hand
  eye = eye
  None = None
  ShelfTags = {art, design}
  ShelfSlugs = {hand, eye}
  ShelfLabels = {"Art", "Design"}
  ShelfFiles <- MCShelfFiles
  Admins = {admin1}
  admin1 = admin1
PROPERTY AdminEditsTakeEffect
