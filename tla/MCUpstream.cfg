SPECIFICATION Spec
CONSTANTS
  Requests = {1, 2}
  Configs <- Blocks
  FailTimeout = 1
  NextUpstream = {"error", "timeout", "invalid_header", "http_5xx", "http_404"}
INVARIANT Balanced
PROPERTIES OneProbe Exhaustive Ends NoStarvation
