\* The upstream fails in the middle of a response: the gateway's process ends.
SPECIFICATION Spec
CONSTANTS
  Request = {q1}
  Browser = {}
  WithBody = {}
  Page = {}
  Cut = {}
  Chunks = 2
  HtmlBufferCap = 1
  Messages = 2
  Replies = 1
  MaxLinks = 2
  MaxBoots = 1
  Nobody = Nobody
PROPERTY
  FailureEndsOneResponse
CHECK_DEADLOCK FALSE
