---------------------------- MODULE ServerLaunch ----------------------------
(***************************************************************************)
(* How boo finds or starts a server (src/launch.rs, src/cli.rs): every     *)
(* window and every command first probes the control socket and, when      *)
(* nothing usable answers, starts a server: here, or over SSH on another   *)
(* host, whose two sockets are then forwarded.  A server takes its two     *)
(* names from whoever had them; all that launchers know of each other is   *)
(* in those names.                                                         *)
(*                                                                         *)
(* The programs of a launch are steps of a launcher; a script run over SSH *)
(* is several, as other launchers run beside it.  What a script looks for  *)
(* before it starts anything never changes: host says what it finds.       *)
(* SSH is external: a forward either reaches the name on the host or not.  *)
(***************************************************************************)
EXTENDS Naturals, FiniteSets

CONSTANTS
    Launchers,      \* the boo processes
    MaxServers,     \* bound on the servers started, and the ids they get
    MaxLaunches,    \* bound on the commands
    MaxMishaps,     \* bound on crashes, failed starts, lost tunnels and late answers
    Hosts,          \* local, or remote: how its paths are written, what it lacks, its version
    OldServers      \* the server already there: its version, whether this boo reads its answers

ASSUME LaunchAssumption ==
    /\ MaxServers \in Nat /\ MaxLaunches \in Nat /\ MaxMishaps \in Nat
    /\ Hosts \subseteq [remote : BOOLEAN, paths : {"plain", "home"},
                        fault : {"none", "home", "tools"}, version : {"same", "other"}]
    /\ OldServers \subseteq [version : {"same", "other", "old"}, reads : BOOLEAN]

VARIABLES
    host,
    servers,    \* id -> phase, version, reads, its two sockets, whether told to quit
    names,      \* the socket files: the id that bound each, 0 without a file
    tunnel,     \* the SSH master and the two local files of its forwards
    launchers,  \* process -> step, what for, its script on the host, server started, result
    launches, mishaps,
    excuses,    \* history: whether there was a reason to fail, and a surprise among them
    stopped     \* history: the versions of the servers a restart told to quit

vars == <<host, servers, names, tunnel, launchers, launches, mishaps, excuses, stopped>>

Sockets == {"control", "stream"}
Servers == 1..MaxServers
\* A socket of a server: nothing yet, its name cleared, bound, or refused.
Unborn == [phase |-> "unborn", version |-> "same", reads |-> TRUE, quit |-> FALSE,
           control |-> "none", stream |-> "none"]
Gone == [Unborn EXCEPT !.phase = "gone"]
Idle == [at |-> "idle", job |-> "open", script |-> FALSE, retried |-> FALSE,
         own |-> 0, target |-> 0, ok |-> TRUE]
NoTunnel == [master |-> FALSE, control |-> FALSE, stream |-> FALSE]

Alive(s) == s # 0 /\ servers[s].phase \in {"starting", "ready", "barren"}
Listener == IF Alive(names.control) THEN names.control ELSE 0
Forwarded == IF tunnel.master /\ tunnel.control THEN Listener ELSE 0

\* The script of a restart runs boo on the host itself, and to stop a server.
Direct(c) == ~host.remote \/ launchers[c].script
Stops(c) == launchers[c].script \/ launchers[c].job = "quit"
\* With --host the socket of the command line is the local end of the forward.
Reached(c) == IF Direct(c) THEN Listener ELSE Forwarded

Busy(c) == launchers[c].at # "idle"
Overlaps(c) == IF \E d \in Launchers \ {c} : Busy(d) THEN {"overlap"} ELSE {}

Go(c, at) == launchers' = [launchers EXCEPT ![c].at = at]
Return(c, ok) == launchers' = [launchers EXCEPT ![c] = [Idle EXCEPT !.ok = ok]]

\* A failure ends the launch, or the boo a script runs (|| true).
Fail(c) == IF launchers[c].script THEN Go(c, "vanish") ELSE Return(c, FALSE)

\* What a launcher cannot see, and what else can go wrong with a launch.
Surprises == {"slow", "overlap", "mute", "barren", "surprise"}
Excuse(why) ==
    excuses' = IF (excuses \cup why) \cap Surprises # {} THEN {"surprise"}
               ELSE IF excuses \cup why # {} THEN {"known"} ELSE {}
Mishap(why) == mishaps < MaxMishaps /\ mishaps' = mishaps + 1 /\ Excuse({why})
------------------------------------------------------------------------------
\* server_ui_ready: a snapshot this boo can read, with a tab and a pane.
Answers(s) == s # 0 /\ servers[s].phase = "ready" /\ servers[s].reads /\ ~servers[s].quit

\* What the caller does next: a window opens, quit-server sends its request.
Answered(c) == IF Stops(c) THEN Go(c, "quit") ELSE Return(c, TRUE)

Begin(c, job) ==
    /\ launchers[c].at = "idle" /\ launches < MaxLaunches
    /\ launches' = launches + 1
    /\ launchers' = [launchers EXCEPT ![c] =
           [Idle EXCEPT !.at = "probe", !.job = job, !.target = IF job = "quit" THEN Listener ELSE 0]]
    /\ UNCHANGED <<host, servers, names, tunnel, mishaps, excuses, stopped>>

ProbeAnswered(c) ==
    /\ launchers[c].at = "probe"
    /\ Answers(Reached(c))
    /\ Answered(c)
    /\ UNCHANGED <<host, servers, names, tunnel, launches, mishaps, excuses, stopped>>

\* No answer, or none to build on: the launch goes on as if no server were there.
\* One that is leaving keeps the connection until it is gone.
Unanswered(s) ==
    CASE s = 0                           -> {}
      [] servers[s].phase = "starting"   -> {"slow"}
      [] servers[s].phase = "barren"     -> {"barren"}
      [] OTHER                           -> {"mute"}

ProbeFails(c) ==
    LET s == Reached(c)
    IN  /\ launchers[c].at = "probe"
        /\ ~Answers(s) /\ (s # 0 => ~servers[s].quit)
        /\ Go(c, IF Direct(c) THEN "spawn" ELSE "preflight")
        /\ Excuse(Unanswered(s) \cup Overlaps(c))
        /\ UNCHANGED <<host, servers, names, tunnel, launches, mishaps, stopped>>

\* CONTROL_SOCKET_TIMEOUT passes while the server is busy.
ProbeLate(c) ==
    /\ launchers[c].at = "probe"
    /\ Reached(c) # 0
    /\ Go(c, IF Direct(c) THEN "spawn" ELSE "preflight")
    /\ Mishap("slow")
    /\ UNCHANGED <<host, servers, names, tunnel, launches, stopped>>

\* A server process of the installed version; where the launcher waits for it.
Spawn(c, from, to) ==
    /\ launchers[c].at = from
    /\ \E s \in Servers :
        /\ servers[s].phase = "unborn" /\ \A t \in 1..(s - 1) : servers[t].phase # "unborn"
        /\ servers' = [servers EXCEPT ![s].phase = "starting", ![s].version = host.version]
        /\ launchers' = [launchers EXCEPT ![c].at = to, ![c].own = s]
    /\ UNCHANGED <<host, names, tunnel, launches, mishaps, excuses, stopped>>

\* The process does not start.
SpawnFails(c, from) ==
    /\ launchers[c].at = from
    /\ Fail(c)
    /\ Mishap("spawn")
    /\ UNCHANGED <<host, servers, names, tunnel, launches, stopped>>

Late == IF \E s \in Servers : Alive(s) THEN {"slow"} ELSE {}

\* ensure_server_running: the new server has LOCAL_SERVER_READY_DEADLINE to answer.
AwaitAnswered(c) ==
    /\ launchers[c].at = "await"
    /\ Answers(Reached(c))
    /\ Answered(c)
    /\ UNCHANGED <<host, servers, names, tunnel, launches, mishaps, excuses, stopped>>

AwaitDeadline(c) ==
    /\ launchers[c].at = "await"
    /\ Fail(c)
    /\ Excuse(Late)
    /\ UNCHANGED <<host, servers, names, tunnel, launches, mishaps, stopped>>

\* quit-server: whoever has the name by now is told to quit.
Quit(c) ==
    LET s == Reached(c)
        script == launchers[c].script
    IN  /\ launchers[c].at = "quit"
        /\ IF s = 0 THEN UNCHANGED servers ELSE servers' = [servers EXCEPT ![s].quit = TRUE]
        /\ IF script THEN Go(c, "vanish") ELSE Return(c, s # 0)
        /\ stopped' = IF script /\ s \notin {0, launchers[c].own}
                      THEN stopped \cup {servers[s].version} ELSE stopped
        /\ Excuse(Overlaps(c))
        /\ UNCHANGED <<host, names, tunnel, launches, mishaps>>
------------------------------------------------------------------------------
\* RemotePathSpec: a path under ~ or $HOME has parts to fill in.
NeedsHome == host.paths = "home"

\* resolve_remote_paths: only then is the host asked for the home directory.
PathsResolve == NeedsHome => host.fault # "home"

\* ensure_remote_bootstrap_ready: directories, the binary, what has the socket's name.
ToolsPresent == host.fault # "tools"

\* fetch_remote_boo_version: what the boo installed there says.
InstalledVersion == host.version

\* ensure_remote_version_compatible: nothing is started of another version.
InstalledMatches == InstalledVersion = "same"

\* Nothing is started on a host that lacks something.
Preflight(c) ==
    /\ launchers[c].at = "preflight"
    /\ IF PathsResolve /\ ToolsPresent /\ InstalledMatches
       THEN Go(c, "boot") /\ UNCHANGED excuses
       ELSE Return(c, FALSE) /\ Excuse({"host"})
    /\ UNCHANGED <<host, servers, names, tunnel, launches, mishaps, stopped>>

Dying == IF Listener # 0 /\ servers[Listener].quit THEN {"dying"} ELSE {}

\* Mutant: a socket file is a server.
BootTrustsFile(c) ==
    /\ launchers[c].at = "boot"
    /\ Go(c, IF names.control = 0 THEN "bootspawn" ELSE "tunnel")
    /\ Excuse(Dying)
    /\ UNCHANGED <<host, servers, names, tunnel, launches, mishaps, stopped>>

\* Mutant: a socket file is replaced without a ping.
BootReplaces(c) ==
    /\ launchers[c].at = "boot"
    /\ Go(c, IF names.control = 0 THEN "bootspawn" ELSE "bootclear")
    /\ Excuse(Dying)
    /\ UNCHANGED <<host, servers, names, tunnel, launches, mishaps, stopped>>

\* The script of bootstrap_remote_server: a socket file that answers a ping is
\* a server; the socket's own thread answers, whatever the server is doing.
Boot(c) ==
    /\ launchers[c].at = "boot"
    /\ Go(c, CASE names.control = 0 -> "bootspawn"
               [] Listener # 0      -> "tunnel"
               [] OTHER             -> "bootclear")
    /\ Excuse(Dying)
    /\ UNCHANGED <<host, servers, names, tunnel, launches, mishaps, stopped>>

BootClear(c) ==
    /\ launchers[c].at = "bootclear"
    /\ names' = [names EXCEPT !.control = 0]
    /\ Go(c, "bootspawn")
    /\ UNCHANGED <<host, servers, tunnel, launches, mishaps, excuses, stopped>>

BootFound(c) ==
    /\ launchers[c].at = "bootspawn" /\ names.control # 0
    /\ Go(c, "tunnel")
    /\ UNCHANGED <<host, servers, names, tunnel, launches, mishaps, excuses, stopped>>

\* Four seconds for the file to appear, or until the process is gone.
SocketAppears(c, from, to) ==
    /\ launchers[c].at = from /\ names.control # 0
    /\ Go(c, to)
    /\ UNCHANGED <<host, servers, names, tunnel, launches, mishaps, excuses, stopped>>

SocketDeadline(c, from) ==
    /\ launchers[c].at = from /\ names.control = 0
    /\ Return(c, FALSE)
    /\ Excuse(Late)
    /\ UNCHANGED <<host, servers, names, tunnel, launches, mishaps, stopped>>

\* remote_tunnel_healthy: the master answers, a ping gets through, and something
\* takes a connection on the stream.
TunnelHealthy == Forwarded # 0 /\ tunnel.stream

\* ensure_remote_tunnel: a tunnel that is not healthy is replaced, files and all.
Tunnel(c) ==
    /\ launchers[c].at = "tunnel"
    /\ Go(c, IF TunnelHealthy THEN "version" ELSE "tunneldown")
    /\ Excuse(Dying)
    /\ UNCHANGED <<host, servers, names, tunnel, launches, mishaps, stopped>>

TunnelDown(c) ==
    /\ launchers[c].at = "tunneldown"
    /\ tunnel' = NoTunnel
    /\ Go(c, "tunnelup")
    /\ UNCHANGED <<host, servers, names, launches, mishaps, excuses, stopped>>

TunnelUp(c) ==
    /\ launchers[c].at = "tunnelup"
    /\ tunnel' = [master |-> TRUE, control |-> TRUE, stream |-> TRUE]
    /\ Go(c, "version")
    /\ UNCHANGED <<host, servers, names, launches, mishaps, excuses, stopped>>

TunnelRefused(c) ==
    /\ launchers[c].at = "tunnelup"
    /\ Mishap("network")
    /\ Return(c, FALSE)
    /\ UNCHANGED <<host, servers, names, tunnel, launches, stopped>>

\* Mutant: a server of another version is restarted as well.
NegotiationFailsWithOther(s) == servers[s].version # "same"

\* remote_control_version_negotiation_unsupported.
NegotiationFails(s) == servers[s].version = "old"

\* ensure_remote_control_version_compatible: a server that does not know the
\* request is restarted, once.
Version(c) ==
    LET s == Forwarded
    IN  /\ launchers[c].at = "version"
        /\ CASE s # 0 /\ NegotiationFails(s) /\ ~launchers[c].retried -> Go(c, "restart")
             [] s # 0 /\ servers[s].version = "same" -> Answered(c)
             [] OTHER -> Return(c, FALSE)
        /\ Excuse(Overlaps(c) \cup Dying
                  \cup IF s # 0 /\ servers[s].version = "other" THEN {"host"} ELSE {})
        /\ UNCHANGED <<host, servers, names, tunnel, launches, mishaps, stopped>>

\* The script of restart_remote_server: quit-server, with all that comes
\* before it, two seconds for the file to go, and a server in its place.
Restart(c) ==
    /\ launchers[c].at = "restart"
    /\ launchers' = [launchers EXCEPT
           ![c].at = IF names.control = 0 THEN "clear" ELSE "probe",
           ![c].script = TRUE, ![c].retried = TRUE]
    /\ UNCHANGED <<host, servers, names, tunnel, launches, mishaps, excuses, stopped>>

Vanish(c) ==
    /\ launchers[c].at = "vanish"
    /\ Excuse(IF Listener = 0 THEN {} ELSE {"slow"})
    /\ Go(c, "clear")
    /\ UNCHANGED <<host, servers, names, tunnel, launches, mishaps, stopped>>

Clear(c) ==
    /\ launchers[c].at = "clear"
    /\ names' = [control |-> 0, stream |-> 0]
    /\ launchers' = [launchers EXCEPT ![c].at = "respawn", ![c].script = FALSE]
    /\ UNCHANGED <<host, servers, tunnel, launches, mishaps, excuses, stopped>>
------------------------------------------------------------------------------
\* Mutant: a stream socket's file of an earlier server is left.
UnlinkKeepsStream(s, socket) ==
    /\ Alive(s) /\ servers[s][socket] = "none"
    /\ names' = IF socket = "stream" THEN names ELSE [names EXCEPT ![socket] = 0]
    /\ servers' = [servers EXCEPT ![s][socket] = "cleared"]
    /\ UNCHANGED <<host, tunnel, launchers, launches, mishaps, excuses, stopped>>

\* run_socket, a thread, and start_local, the main thread: a name is cleared,
\* whoever has it, and then taken.
Unlink(s, socket) ==
    /\ Alive(s) /\ servers[s][socket] = "none"
    /\ names' = [names EXCEPT ![socket] = 0]
    /\ servers' = [servers EXCEPT ![s][socket] = "cleared"]
    /\ UNCHANGED <<host, tunnel, launchers, launches, mishaps, excuses, stopped>>

\* A bind finds that another server has taken the name: this one goes on without.
Bind(s, socket) ==
    /\ Alive(s) /\ servers[s][socket] = "cleared"
    /\ IF names[socket] = 0
       THEN names' = [names EXCEPT ![socket] = s] /\ servers' = [servers EXCEPT ![s][socket] = "bound"]
       ELSE UNCHANGED names /\ servers' = [servers EXCEPT ![s][socket] = "refused"]
    /\ UNCHANGED <<host, tunnel, launchers, launches, mishaps, excuses, stopped>>

\* The first tab opens, or its pane does not start and the server stays without.
Initialise(s, phase) ==
    /\ servers[s].phase = "starting" /\ servers[s].stream \in {"bound", "refused"}
    /\ servers' = [servers EXCEPT ![s].phase = phase]
    /\ UNCHANGED <<host, names, tunnel, launchers, launches, stopped>>

Opens(s) == Initialise(s, "ready") /\ UNCHANGED <<mishaps, excuses>>
StaysBarren(s) == Initialise(s, "barren") /\ Mishap("pane")

\* cleanup: the control socket's file is removed, whoever has it; the stream's stays.
Cleanup == names' = [names EXCEPT !.control = 0]

\* terminate: the server removes the file, and exits.
Terminate(s) ==
    /\ servers[s].phase \in {"ready", "barren"} /\ servers[s].quit
    /\ servers' = [servers EXCEPT ![s] = [Gone EXCEPT !.quit = TRUE]]
    /\ Cleanup
    /\ UNCHANGED <<host, tunnel, launchers, launches, mishaps, excuses, stopped>>

\* Killed, or failed to start: the files stay.
Crash(s) ==
    /\ Alive(s)
    /\ servers' = [servers EXCEPT ![s] = Gone]
    /\ Mishap("crash")
    /\ UNCHANGED <<host, names, tunnel, launchers, launches, stopped>>

\* The connection to the host goes; the local files stay.
TunnelLost ==
    /\ tunnel.master
    /\ tunnel' = [tunnel EXCEPT !.master = FALSE]
    /\ Mishap("network")
    /\ UNCHANGED <<host, servers, names, launchers, launches, stopped>>

Init ==
    /\ host \in Hosts
    /\ \/ /\ servers = [s \in Servers |-> Unborn]
          /\ names = [socket \in Sockets |-> 0]
       \/ \E old \in OldServers, phase \in {"ready", "gone"} :
              /\ servers = [s \in Servers |->
                     IF s > 1 THEN Unborn
                     ELSE IF phase = "gone" THEN Gone
                     ELSE [phase |-> phase, version |-> old.version, reads |-> old.reads,
                           quit |-> FALSE, control |-> "bound", stream |-> "bound"]]
              /\ names = [socket \in Sockets |-> 1]
    /\ tunnel = NoTunnel
    /\ launchers = [c \in Launchers |-> Idle]
    /\ launches = 0 /\ mishaps = 0 /\ excuses = {} /\ stopped = {}

Steps(c) ==
    \/ ProbeAnswered(c) \/ ProbeFails(c)
    \/ Spawn(c, "spawn", "await") \/ AwaitAnswered(c) \/ AwaitDeadline(c) \/ Quit(c)
    \/ Preflight(c) \/ Boot(c) \/ BootClear(c) \/ BootFound(c)
    \/ names.control = 0 /\ Spawn(c, "bootspawn", "bootwait")
    \/ SocketAppears(c, "bootwait", "tunnel") \/ SocketDeadline(c, "bootwait")
    \/ Tunnel(c) \/ TunnelDown(c) \/ TunnelUp(c) \/ Version(c)
    \/ \E from \in {"spawn", "bootspawn", "respawn"} : SpawnFails(c, from)
    \/ Restart(c) \/ Vanish(c) \/ Clear(c) \/ Spawn(c, "respawn", "sockwait")
    \/ SocketAppears(c, "sockwait", "version") \/ SocketDeadline(c, "sockwait")

ServerSteps(s) == (\E socket \in Sockets : Unlink(s, socket) \/ Bind(s, socket)) \/ Opens(s) \/ Terminate(s)

Next ==
    \/ \E c \in Launchers :
        \/ \E job \in {"open", "quit"} : Begin(c, job)
        \/ Steps(c) \/ ProbeLate(c) \/ TunnelRefused(c)
    \/ \E s \in Servers : ServerSteps(s) \/ StaysBarren(s) \/ Crash(s)
    \/ TunnelLost

Spec == Init /\ [][Next]_vars
------------------------------------------------------------------------------
\* The state is of its types; who has a name listens on its socket.
TypeOK ==
    /\ \A s \in Servers :
        /\ servers[s].phase \in {"unborn", "starting", "ready", "barren", "gone"}
        /\ \A socket \in Sockets :
               servers[s][socket] \in {"none", "cleared", "bound", "refused"}
    /\ \A socket \in Sockets :
           Alive(names[socket]) => servers[names[socket]][socket] = "bound"
    /\ \A c \in Launchers : launchers[c].own \in 0..MaxServers

Foreseen == excuses \cap Surprises = {}

\* bootstrap_remote_server, ensure_server_running: unless a launch was taken by
\* surprise, no server goes on running without a name to reach it by.
ServersReachable ==
    Foreseen =>
        \A s \in Servers :
            Alive(s) /\ servers[s].control \in {"bound", "refused"} /\ ~servers[s].quit
                => names.control = s

\* A window finds the server it talks to behind both of its sockets
\* (launch.rs, start_local), whoever had their names before.
SocketsAgree ==
    Foreseen =>
        (Alive(names.control) /\ servers[names.control].phase = "ready"
            => names.stream = names.control)

\* A launch whose scripts all run their course gives up for a reason: nothing a
\* server or a launch before it left behind is one.
FailureHasCause == \A c \in Launchers : ~launchers[c].ok => excuses # {}

\* restart_remote_server: a restart stops a server that cannot name its version,
\* and no other that the user has running.
RestartStopsOnlyOld ==
    Foreseen => stopped \subseteq {"old"}

\* bootstrap_remote_server, run_socket: however launches overlap, if none of them
\* stops a server and nothing breaks, a server has the name in the end.
Unbroken == mishaps = 0 /\ \A s \in Servers : ~servers[s].quit

SomeoneListens ==
    Unbroken /\ (\A c \in Launchers : ~Busy(c))
        => \/ \E s \in Servers : Alive(s) /\ servers[s].control \in {"none", "cleared"}
           \/ Listener # 0
           \/ \A s \in Servers : ~Alive(s)

\* The launches agree on the servers: those that run can be reached, by the right
\* sockets, and none is stopped, and no launch given up, without a reason.
LaunchesAgree ==
    /\ TypeOK /\ ServersReachable /\ SocketsAgree /\ FailureHasCause /\ RestartStopsOnlyOld
    /\ SomeoneListens

\* What the help says of kill-server and quit-server ("Stop the Boo server").
\* Does not hold: a server they cannot use is left running without a name.
QuitStopsServer ==
    [][\A c \in Launchers :
           LET old == launchers[c].target
           IN  Busy(c) /\ launchers[c].job = "quit" /\ ~Busy(c)' /\ launchers'[c].ok /\ old # 0
               => servers'[old].phase = "gone" \/ servers'[old].quit]_vars
=============================================================================
