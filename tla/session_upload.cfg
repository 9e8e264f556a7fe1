SPECIFICATION FairSpec
CONSTANTS
  Modulus = 64
  ISSs = {30}
  ClientISNs = {7}
  MSSs = {2}
  Windows = {1}
  sendLength = 1
  RECEIVE_BUFFER_SIZE = 2
  SEND_MAX_RETRIES = 1
  UpLen = 3
  DownLen = 1
INVARIANTS
  UploadFaithful
  UpStreamCompleteIsTrue
PROPERTIES
  OrderlyCloseKeepsUpload
  DeadClientReleased
  HeldDataIsSent
