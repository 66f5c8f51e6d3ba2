SPECIFICATION Spec
CONSTANTS
  Calls = {c1}
  Folders = {f1, f2}
  VERSIONS = 2
SYMMETRY Symmetry
INVARIANT TypeOK
PROPERTIES NothingLostUnasked NoFolderUnasked NothingOverwritten
