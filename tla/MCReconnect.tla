---------------------------- MODULE MCReconnect ------------------------------
\* The constants of Reconnect: the delays of the program, and short ones with
\* the same shape for two agents.
EXTENDS Reconnect

RealDelays  == <<1, 2, 5, 10, 30>>
ShortDelays == <<1, 2>>
=============================================================================
