SPECIFICATION RSpec
CONSTANTS
  NumChannels = 2
  MaxCalls = 3
  FramesPerCallback = 1
  Unit = 2
  Fades = {1, 2}
  MaxRoutes = 2
  MaxChanges = 3
INVARIANT OncePerFrame
PROPERTIES  FadesOneWay RegisteredRouteEnds
