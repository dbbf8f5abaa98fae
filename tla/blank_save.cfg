CONSTANTS
  Tabs = {t1}
  Pages = {p1}
  Home = Home
  MaxEdits = 1
  Nobody = Nobody
  Colleague = Colleague
  MaxRevision = 1
SPECIFICATION Spec
PROPERTY SavesAreShown
