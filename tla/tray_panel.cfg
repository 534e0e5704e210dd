SPECIFICATION FairSpec
CONSTANT MaxUnread = 2
PROPERTIES VisiblePanelAgrees
