SPECIFICATION Spec
CONSTANTS
  Threads = {main, server, other}
  Cancellable = {server}
  \* 100 ms is shorter than a pulse, 200 ms is one pulse, 500 ms two
  Durations = {100, 200, 500}
  FIRE_DUTY_TIME = 100
INVARIANTS
  SafeWhenIdle
PROPERTY
  TriggerReleased
