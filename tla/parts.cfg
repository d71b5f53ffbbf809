SPECIFICATION PartsSpec
CONSTANTS
  Parts <- MCNameParts
  r1 = r1  r2 = r2
  Entries <- MCEntries
  LowerTree <- MCLowerTree
  MaxEntries = 4
  Archives <- MCArchives
  Ciphers = {"AES_256_CTR_HMAC_SHA256", "other"}
  AES256CTR = "AES_256_CTR_HMAC_SHA256"
  ImageDigests <- MCImageDigests
  Policies <- MCPolicies
  SigstoreFiles <- MCSigstoreFiles
  Checks <- MCChecks
  Resources <- MCKeyRings
  Images <- MCReferences
  Configs <- MCConfigs
  AuthFiles <- MCAuthFiles
  Inputs = {"none", "user:pass", "user"}
  ConfigFiles <- MCConfigFiles
  KernelLines <- MCKernelLines
  ResourceUris <- MCResourceUris
  Readers = {r1, r2}
  KbsFeature = TRUE
  MaxVersion = 2
  ImageConfigurations <- MCImageConfigurations
  VerityOptions <- MCVerityOptions
  MountPaths = {"p1", "p2"}
  MaxBlocks = 16
  Environments <- MCEnvironments
  ProviderNames <- MCProviderNames
  WrapFeatures = {"cmd", "grpc", "ttrpc", "native"}
  KeyFiles <- MCKeyFiles
  RecipientLists <- MCRecipientLists
  KeyLists <- MCKeyLists
  ForeignPackets <- MCForeignPackets
  MaxWraps = 3
  WrapRequests <- MCWrapRequests
  KekFiles <- MCKekFiles
  OfflineStores <- MCOfflineStores
  OtherPackets <- MCOtherPackets
  KmsFeatures = {"aliyun"}
  MaxKeys = 2
  SealRequests <- MCSealRequests
  OtherSecrets <- MCOtherSecrets
  GuestFiles <- MCGuestFiles
  VaultWrites <- MCVaultWrites
  KmsKeys <- MCKmsKeys
  Accounts = {"ck1", "ak1", "sts1", "role1"}
  CloudFeatures = {"aliyun", "aws"}
  MaxSealed = 1
  MaxChanges = 2
  q1 = q1  q2 = q2
  Machines <- MCMachines
  Requests = {q1, q2}
  ReportDatas <- MCReportDatas
  Digests <- MCDigests
  Indices = {0, 8, 264}
  InitPcr = 17
  MaxExtends = 2
INVARIANTS LayerIsArchive StoredIsPublished AllowedMeetsPolicy TriedAsConfigured PolicyInUse MountsAreVerified
  RecipientsOpen WrappedIsUnwrapped SealingRoundTrips EvidenceIsSound MeasurementHasExtensions
CHECK_DEADLOCK FALSE
