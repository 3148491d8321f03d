\* Signal 1 blocks and fires no extra alarm (SIGURG, SIGALRM of a session);
\* 2 blocks and does (SIGHUP of the listener reads a file); 3 is SIGCHLD, which
\* only reaps; the i/o handler (bandwidth limit) sleeps.
CONSTANTS
  N = 3
  UseAlarm = {2, 3}
  Blocks = {0, 1, 2}
  IoHandler = TRUE
SPECIFICATION FairSpec
INVARIANT LastWakes
PROPERTY LastHandled
