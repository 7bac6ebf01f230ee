---------------------------- MODULE MCWaitQueues ----------------------------
(***************************************************************************)
(* WaitQueues on small instances.                                          *)
(***************************************************************************)
EXTENDS WaitQueues, TLC

CONSTANTS a, b, c

\* a: waits for completions; b: does so too, and waits for the condition as a signal
\* allows; c: waits exclusively, or with a timeout.
Mixed ==
    (a :> {"completion"}) @@ (b :> {"completion", "wait_event_interruptible"})
        @@ (c :> {"exclusive", "sleep_on_timeout"})
=============================================================================
