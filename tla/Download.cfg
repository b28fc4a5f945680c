SPECIFICATION Spec
CONSTANTS
  BodyLen = 4
  ATTEMPTS = 6
  REDIRECTS = 3

  
  
PROPERTIES
  InstallEnds
