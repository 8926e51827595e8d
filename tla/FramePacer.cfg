\* Two threads, presents of either swapchain and of both; the application may stop labelling those of the first.
SPECIFICATION FairSpec
CONSTANTS
  t1 = t1
  t2 = t2
  s1 = s1
  s2 = s2
  NoThread = NoThread
  NoPacer = NoPacer
  Thread <- MCThread
  Swapchain <- MCSwapchain
  Relabels = FALSE
  Labelled <- MCOneOnly
  Unlabelled <- MCAll
  TimingQueueSize = 1
  MaxPollFailures = 2
  MaxId = 2
  MaxRefused = 2
INVARIANTS
  TypeOK
  PatchIsOwn
  PacersAreOfLiveSwapchains
  IdsIncrease
  FullQueueIsAbsorbed
  FirstSwapchainIsRead
PROPERTY
  CallsReturn
