\* Two contents that are accepted and one that is not, one page.
CONSTANTS
  a = a
  b = b
  bad = bad
  page1 = page1
  Nil = Nil
  Content = {a, b, bad}
  Artifact = {a, b}
  ArtifactOf <- MCArtifactOf
  Page = {page1}
  MaxSaves = 3
  MaxFailures = 1
  MaxOpens = 2
  MaxStops = 2
SPECIFICATION PreviewSpec
PROPERTIES
  PublishedIsSound
  PagesFollow
  StopEnds
CHECK_DEADLOCK FALSE
