SPECIFICATION FairFwSpec
CONSTANTS
  Version = {"1", "2"}
  FirstVersion = "1"
  Payload <- Payloads
  BlockSize = 2
  HeaderSize = 1
  VerifySecs = 2
INVARIANTS FwTypeOK BootableAlways NoManifestMissed
PROPERTIES DownloadStable ImplementsSafeUpdate VerifyResolves DownloadEnds
