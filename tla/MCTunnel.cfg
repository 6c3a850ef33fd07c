\* A page posted with a body and a browser socket; two links, one restart.
SPECIFICATION Spec
CONSTANTS
  Request = {q1}
  Browser = {b1}
  WithBody = {q1}
  Page = {q1}
  Cut = {}
  Chunks = 2
  HtmlBufferCap = 1
  Messages = 2
  Replies = 1
  MaxLinks = 2
  MaxBoots = 1
  Nobody = Nobody
INVARIANTS
  ResponsesAreOwn
  ConversationsAreOwn
\* Out of requests, links or restarts, the instance may stop.
CHECK_DEADLOCK FALSE
