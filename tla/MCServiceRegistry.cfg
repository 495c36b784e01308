CONSTANTS
  Service = {s1, s2, s3}
  NoService = NoService
  MaxServices = 2
SPECIFICATION RegistrySpec
PROPERTIES CommittedComplete DownTakesTwoCalls StopCompletes
