------------------------------- MODULE MCIdle -------------------------------
EXTENDS Idle

\* The screensaver comes on at the first tick that finds a monitor at rest.
MCSettings == {[ambient |-> 9, saver |-> 1]}
=============================================================================
