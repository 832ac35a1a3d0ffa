\* A viewer that watches, types or meets failures, and two after each other.
CONSTANTS
  v1 = v1
  v2 = v2
  Viewer = {v1, v2}
  Backends = {"pipewire", "x11"}
  Codecs = {"libx264", "h264_qsv"}
  RingSize = 2
  QueueSize = 2
  Depth = 1
  Gop = 3
  IdleTicks = 3
  MaxPictures = 4
  MaxInputs = 2
  Scenarios <- AllScenarios
CHECK_DEADLOCK FALSE
SPECIFICATION BoundedSpec
INVARIANTS TypeOK WholeOnly
PROPERTIES CatchesUp InputsArrive LeavingFrees
