SPECIFICATION Spec
CONSTANTS
  Workers = {w1, w2}
  Images = {i1, i2, i3, i4}
  MaxCount = 2
  Labels = {l1, l2, l3}
  Clips = {c1, c2, c3}
  Alts = {t1, t2}
  None = None
  Tabs = {page}
  Tags = {art, pen}
  Pairs = {free, paid}
  Configured = {"deep_dive", "demo_clip", "ranking"}
  MaxChanges = 3
  Listings <- SearchedListings
  Relevance <- SearchedRelevance
  Carries <- SearchedCarries
  Active = {"art", "pen"}
  Resolving <- SearchedTags
  Clusters <- SearchedClusters
  MaxEdits = 1
  PageSize = 2
  PageSizeMax = 3
  Developers = {"eve", "sam"}
  Owner <- OwnerOfApps
  FeedSize = 2
  FeedNotices = 2
  WidgetNotices = 1
  OtherApps = 1
  MaxAge = 1
  PageMoves = 3
  Apps = {"oak", "elm", "yew"}
  Urls <- SentUrls
  Members = {"ann", "bob"}
  TopScore = 2
  Scales = {1, 2}
  DisplayLimit = 2
  MaxMoves = 2
  w1 = w1
  w2 = w2
  i1 = i1
  i2 = i2
  i3 = i3
  i4 = i4
  l1 = l1
  l2 = l2
  l3 = l3
  c1 = c1
  c2 = c2
  c3 = c3
  t1 = t1
  t2 = t2
  page = page
  art = art
  pen = pen
  free = free
  paid = paid
CHECK_DEADLOCK FALSE
INVARIANTS
  TypesOK
  GalleryHolds
  ClipStoredWhenCalm
  ListedAsSeen
  ReadsAccounted
PROPERTIES
  TagsHold
  PageSaveAccounted
