CONSTANTS
  datasets = datasets
  smb = smb
  nfs = nfs
  Calls = {datasets, smb, nfs}
  NoCall = NoCall
  KeyOf <- MCKeyOf
  Bounded = {datasets}
  datasetLimit = 1
  MaxRows <- MCMaxRows
  Methods <- MCMethods
  Arguments = {"recursive", "path"}
  denied = {"pool.export"}
  deniedWith <- MCDeniedWith
  withheld = {"core.bulk"}
  safeUnroledReads = {"core.ping"}
  Fields = {"name", "state", "config"}
  Shown = {"name", "state"}
  defaultLimit = 1
  Releases = {"25.10", "26.0"}
  Catalogue <- MCCatalogue
  MaxArgs = 2
  Queries <- MCQueries
  Limits = {0, 2}
  searchLimit = 3
  Lists <- MCLists
  None = None
  fileByteLimit = 2
  UTFMax = 2
  MaxSize = 3
  Environments <- MCEnvironments
SPECIFICATION ServerSpec
INVARIANT NoRouteAround
CHECK_DEADLOCK FALSE
