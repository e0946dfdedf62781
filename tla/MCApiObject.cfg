CONSTANTS
  Threads = {t1, t2}
  Buffers = {b1, b2}
  Api = Api
  Nobody = Nobody
  MayFail = {"client", "self", "size", "samples", "stream", "task", "command"}
  MayFailToStart = {"api", "wasapi", "started", "stop", "service", "intake", "chamber", "exhaust",
    "client", "pool", "reaper", "fence", "tasks", "tasks_pending", "reaper_thread",
    "audio_thread", "event", "enumerator", "device", "client_interface", "period",
    "initialize", "event_handle", "buffer_size", "render_interface", "preroll", "mixer",
    "report", "boost", "start_device", "tentative_size", "reactivate", "get_buffer",
    "release_buffer"}
SPECIFICATION ApiSpec
CHECK_DEADLOCK FALSE
INVARIANTS
  CountsMatch
  AllOrNothing
  SamplesOutliveStreams
  AudioCleansUp
  ThreadsOutlived
  NothingLeft
PROPERTIES
  CallsReturn
