------------------------------ MODULE MCStream ------------------------------
(* Small instances of Stream for TLC.                                      *)
EXTENDS Stream

CONSTANTS u1, u2

TwoUsers == {u1, u2}

Setup(p, size, flagSet, mayFail, callers, n) ==
    [pipe |-> p, transfers |-> size, flags |-> flagSet, failures |-> mayFail, users |-> callers, starts |-> n]

\* Two writers on one run of the thread, with and without the semaphore; a
\* reader that wants all or nothing; a reader and a restart; a writer with
\* failures of every kind and a restart.
MCSetups ==
    {Setup("OUT", 2, {}, FALSE, {u1, u2}, 1),
     Setup("OUT", 2, {"USE_TIMEOUT"}, FALSE, {u1, u2}, 1),
     Setup("IN", 3, {"USE_TIMEOUT", "NO_PARTIAL_XFERS"}, FALSE, {u1}, 1),
     Setup("IN", 2, {}, FALSE, {u1}, 2),
     Setup("OUT", 2, {"USE_TIMEOUT", "NO_PARTIAL_XFERS"}, TRUE, {u1}, 2)}
=============================================================================
