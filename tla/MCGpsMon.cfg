SPECIFICATION GpsFairSpec
CONSTANTS
  Readers = {screen, daemon}
  screen = screen
  daemon = daemon
INVARIANT ReadIsConsistent
PROPERTY NobodyStuck
