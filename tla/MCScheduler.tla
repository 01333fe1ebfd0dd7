---------------------------- MODULE MCScheduler ----------------------------
(* A small instance of Scheduler for TLC. *)
EXTENDS Scheduler, TLC

CONSTANTS
    heartbeat, memory_review, send_message,  \* actions
    beat, hello, note                        \* names of jobs

MCName == {beat, hello, note}
MCAction == {heartbeat, memory_review, send_message}
MCAgentOwn == {heartbeat, send_message}
MCYaml == (beat :> heartbeat) @@ [n \in MCName |-> NoJob]
=============================================================================
