SPECIFICATION Spec
CONSTANTS
  c1 = c1
  c2 = c2
  c3 = c3
  search = search
  fetch = fetch
  t1 = t1
  t2 = t2
  json_call = json_call
  xml_call = xml_call
  a1 = a1
  a2 = a2
  b1 = b1
  img1 = img1
  img2 = img2
  Ids = {c1, c2, c3}
  Names = {search, fetch}
  Texts = {t1, t2, json_call, xml_call}
  Args = {a1, a2, b1}
  Images = {img1, img2}
  None = None
  Jobs <- MCJobs
  Replies <- MCReplies
  JsonTexts <- MCJsonTexts
  Prose <- MCProse
  MaxConnectRetries = 2
  NameOf <- MCNameOf
  ImageTokens = 3
  KeepHead = 2
  MinShrinkable = 4
CHECK_DEADLOCK FALSE
INVARIANTS
  AnswerIsTheReply
  WithheldMeansNoCall
  ResultsReachModel
