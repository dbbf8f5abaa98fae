CONSTANTS
  Tabs = {t1}
  Pages = {p1}
  Home = Home
  MaxEdits = 2
  Nobody = Nobody
  Colleague = Colleague
  MaxRevision = 3
  MaxEvents = 2
SPECIFICATION Spec
CONSTRAINT FewEvents
INVARIANT TypeOK
 
 
PROPERTY LostLockNoticed
