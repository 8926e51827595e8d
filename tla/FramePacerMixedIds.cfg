\* An application that labels some of its presents.
SPECIFICATION Spec
CONSTANTS
  t1 = t1
  t2 = t2
  s1 = s1
  s2 = s2
  NoThread = NoThread
  NoPacer = NoPacer
  Thread <- MCOneThread
  Swapchain <- MCOneSwapchain
  Relabels = TRUE
  Labelled <- MCOneOnly
  Unlabelled <- MCOneOnly
  TimingQueueSize = 1
  MaxPollFailures = 2
  MaxId = 3
  MaxRefused = 2
INVARIANT IdsIncrease
