------------------------------ MODULE MCCommands ------------------------------
(* The two stores of a workspace and the commands that stand beside publish, *)
(* one of them in each behaviour.                                            *)
EXTENDS StateStore, SnapshotStore, StableReader, ReviewPull, Setup, Auth, Probe

VARIABLE system

commandsVars ==
    <<system, vars, snapVars, readerStateVars, pullVars, setupVars, authVars, probeVars>>

CommandsInit ==
    /\ system \in {"state", "snapshots", "reader", "pull", "setup", "auth", "probe"}
    /\ Init /\ SnapInit /\ ReaderInit /\ PullInit /\ SetupInit /\ AuthInit
    /\ ProbeInit
    /\ system # "state" => first = Absent
    /\ system # "setup" =>
          /\ \A f \in Folders : drive[f].metadata = "none"
          /\ \A key \in DOMAIN configured : configured[key] = NoFolder

CommandsNext ==
    \/ /\ system = "state" /\ Next
       /\ UNCHANGED <<system, snapVars, readerStateVars, pullVars, setupVars, authVars, probeVars>>
    \/ /\ system = "snapshots" /\ SnapNext
       /\ UNCHANGED <<system, vars, readerStateVars, pullVars, setupVars, authVars, probeVars>>
    \/ /\ system = "reader" /\ ReaderNext
       /\ UNCHANGED <<system, vars, snapVars, pullVars, setupVars, authVars, probeVars>>
    \/ /\ system = "pull" /\ PullNext
       /\ UNCHANGED <<system, vars, snapVars, readerStateVars, setupVars, authVars, probeVars>>
    \/ /\ system = "setup" /\ SetupNext
       /\ UNCHANGED <<system, vars, snapVars, readerStateVars, pullVars, authVars, probeVars>>
    \/ /\ system = "auth" /\ AuthNext
       /\ UNCHANGED <<system, vars, snapVars, readerStateVars, pullVars, setupVars, probeVars>>
    \/ /\ system = "probe" /\ ProbeNext
       /\ UNCHANGED <<system, vars, snapVars, readerStateVars, pullVars, setupVars, authVars>>

CommandsSpec == CommandsInit /\ [][CommandsNext]_commandsVars
=============================================================================
