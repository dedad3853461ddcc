------------------------------- MODULE Startup -------------------------------
(***************************************************************************)
(* How a node comes up, before and below its tasks: the closure main()     *)
(* hands to the runtime reads the configuration, opens the interface, runs *)
(* the ifup commands, binds the sockets and queues the hellos, and only    *)
(* then spawns tasks.  Each of these can fail, and fails by a panic.       *)
(***************************************************************************)
EXTENDS NodeTasks

VARIABLES
    stage,     \* what is to be done next; "running", or "failed"
    config     \* which configuration is in use

startVars == <<vars, stage, config>>

StartInit ==
    /\ InitWith(<< >>)
    /\ stage = "config"
    /\ config = "none"

\* Config::from_path.  What does not parse is replaced by the default; a file
\* that cannot be read panics.
ReadConfig ==
    /\ stage = "config"
    /\ \/ stage' = "interface" /\ config' \in {"given", "default"}
       \/ stage' = "failed" /\ UNCHANGED config
    /\ UNCHANGED vars

\* TunTap::new: open and ioctl.
OpenInterface ==
    /\ stage = "interface"
    /\ stage' \in {"ifup", "failed"}
    /\ UNCHANGED <<config, vars>>

\* How the ifup commands may end: those of the default configuration exit 1.
IfupSucceeds == IF config = "default" THEN {FALSE} ELSE BOOLEAN

\* Mutant: the exit code is not looked at.
RunIfupUnchecked ==
    /\ stage = "ifup"
    /\ \E ok \in IfupSucceeds : stage' = "sockets"
    /\ UNCHANGED <<config, vars>>

\* run_command: every line must exit 0.
RunIfup ==
    /\ stage = "ifup"
    /\ \E ok \in IfupSucceeds : stage' = IF ok THEN "sockets" ELSE "failed"
    /\ UNCHANGED <<config, vars>>

\* Socket::new: IPv6, then IPv4.
BindSockets ==
    /\ stage = "sockets"
    /\ stage' \in {"hellos", "failed"}
    /\ UNCHANGED <<config, vars>>

\* Network::new: the own subnet and a hello for each server, unless one of the
\* addresses in the configuration is none.
QueueHellos ==
    /\ stage = "hellos"
    /\ \/ stage' = "running" /\ chan' = [chan EXCEPT !["socketRx"] = Greetings]
       \/ stage' = "failed" /\ UNCHANGED chan
    /\ UNCHANGED <<config, spawned, asked, loop, dead, woken, kept, room, wants, out, inputs, clogs>>

Setup == ReadConfig \/ OpenInterface \/ RunIfup \/ BindSockets \/ QueueHellos

\* Tasks are spawned, and run, when all is set up.
Run(A) == stage = "running" /\ A /\ UNCHANGED <<stage, config>>

StartNext == Setup \/ Run(Next)

StartSpec == StartInit /\ [][StartNext]_startVars

\* The setup goes on, the runtime gets all tasks and polls every woken one, a
\* poll goes on, and the kernel makes room for writes again.
FairStartSpec ==
    /\ StartSpec
    /\ WF_startVars(Setup)
    /\ WF_startVars(Run(\E t \in Task : Spawn(t)))
    /\ WF_startVars(Run(DeviceStep)) /\ WF_startVars(Run(NetworkStep))
    /\ WF_startVars(Run(RouterStep)) /\ WF_startVars(Run(SocketStep))
    /\ \A s \in Kernel : WF_startVars(Run(Unclog(s)))

-----------------------------------------------------------------------------
\* Nothing runs, and nothing is sent, on a configuration nobody wrote: what does
\* not parse becomes the default one, whose ifup command fails, which stops the
\* node before the first task.
OnlyConfiguredRuns ==
    spawned # {} \/ out # {} \/ chan["socketRx"] # << >> => config = "given"
=============================================================================
