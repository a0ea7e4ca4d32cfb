----------------------------- MODULE RestartNet -----------------------------
(***************************************************************************)
(* RelayNet with servers that die and are started again.  Nothing is kept  *)
(* on disk: a server starts with empty tables beside neighbours that still *)
(* have it subscribed, and what was sent to it meanwhile is lost.  The     *)
(* code has no part in a restart other than main() as it always starts.    *)
(***************************************************************************)
EXTENDS RelayNet

CONSTANT Restartable   \* the servers that are killed and restarted

ASSUME RestartAssumption == Restartable \subseteq Server

\* A server is killed, also in the middle of a sweep.
Halt(s) ==
  /\ s \in Restartable
  /\ status[s] = "up"
  /\ faults + sweeps < MaxFaults
  /\ faults' = faults + 1
  /\ Crash(s)
  /\ sweep' = [sweep EXCEPT ![s] = {}]
  /\ UNCHANGED <<inbox, user_list, channel_list, ID_LIST, ID_LIST_SIZE, sweeps, history, clientVars>>

\* main() up to its loop, after Halt or a crash.
Restart(s) ==
  /\ s \in Restartable
  /\ status[s] = "crashed"
  /\ status' = [status EXCEPT ![s] = "up"]
  /\ user_list' = [user_list EXCEPT ![s] = <<>>]
  /\ channel_list' = [channel_list EXCEPT ![s] = [x \in {} |-> create_channel(0, 0)]]
  /\ ID_LIST' = [ID_LIST EXCEPT ![s] = <<>>]
  /\ ID_LIST_SIZE' = [ID_LIST_SIZE EXCEPT ![s] = IdListSize]
  /\ inbox' = [inbox EXCEPT ![s] = <<>>]
  /\ UNCHANGED <<faults, sweep, sweeps, history, clientVars>>

RestartNext == Next \/ \E s \in Server : Halt(s) \/ Restart(s)

\* Servers and timers go on as in RelayNet; who kills a server, or finds it
\* crashed, starts it again.
RestartSpec ==
  /\ Init /\ [][RestartNext]_vars
  /\ Fairness
  /\ \A s \in Server : /\ SF_vars(StartSweep(s) /\ UNCHANGED <<faults, clientVars>>)
                       /\ WF_vars(Restart(s))
=============================================================================
