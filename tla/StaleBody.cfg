\* A restart of the gateway between a request and its body, and a browser after it.
SPECIFICATION Spec
CONSTANTS
  Request = {q1}
  Browser = {b1}
  WithBody = {q1}
  Page = {}
  Cut = {}
  Chunks = 0
  HtmlBufferCap = 1
  Messages = 1
  Replies = 0
  MaxLinks = 3
  MaxBoots = 1
  Nobody = Nobody
INVARIANT
  BodiesAreOwn
CHECK_DEADLOCK FALSE
