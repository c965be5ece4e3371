SPECIFICATION Spec
CONSTANTS
    Scrapers = {s1, s2}
    TTL = 3
    RequestTimeout = 2
    Horizon = 7
    nodeObj <- MCNodeObj
    podObjs <- MCPodObjs
INVARIANTS NoRequestWhileFresh RenderedAsReported
PROPERTIES AnswersAreFresh EveryScrapeIsAnswered
CHECK_DEADLOCK FALSE
