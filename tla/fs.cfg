CONSTANTS
  NI = 5
  NB = 6
  NSEC = 2
  SLOTS = 3
  SECTOR = 2
  NFD = 1
  Names <- MCNames
  DirPaths <- MCDirPaths
  FilePaths <- MCFilePaths
  Users = {0, 1}
  Managed <- MCManaged
  Modes <- MCModes
  MaxCount = 2
  MaxRequests = 7
  NULL = NULL
SPECIFICATION FsSpec
INVARIANTS FsTypeOK PathsLive NoSharedBlock NamesUnique BitmapsSynced CachedInodeFresh
PROPERTIES FilesKept
