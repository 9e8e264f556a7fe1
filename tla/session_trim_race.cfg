SPECIFICATION Spec
CONSTANTS
  Modulus = 64
  ISSs = {30}
  ClientISNs = {7}
  MSSs = {1}
  Windows = {1}
  sendLength = 3
  RECEIVE_BUFFER_SIZE = 1
  SEND_MAX_RETRIES = 1
  UpLen = 0
  DownLen = 3
INVARIANT DownloadFaithfulUnderAcks
