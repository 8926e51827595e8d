\* Two swapchains presented by two threads, two queues, three spans.
SPECIFICATION FairSpec
CONSTANTS
  s1 = s1
  s2 = s2
  q1 = q1
  q2 = q2
  x1 = x1
  x2 = x2
  x3 = x3
  NoSpan = NoSpan
  QueueDepth = 1
  Swapchain <- MCSwapchain
  Queue <- MCQueue
  Span <- MCThreeSpans
  Mode <- MCBothModes
INVARIANTS
  TypeOK
  SpanInOnePlace
PROPERTIES
  WindowContract
  WorkIsKept
  PresentReturns
