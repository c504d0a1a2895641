---------------------------- MODULE DesktopShell ----------------------------
(***************************************************************************)
(* The desktop application (apps/desktop): a window that runs the host     *)
(* service as a child process, reads the status file the host's tray       *)
(* writes, and keeps one connection to another host.                       *)
(*                                                                         *)
(* A host process is a number, handed out in the order of their starts,    *)
(* and 0 is none; the status file and the status shown are the number of   *)
(* the process whose they are.  A text the user enters is a sequence of    *)
(* words.                                                                  *)
(***************************************************************************)
EXTENDS Naturals, Sequences, FiniteSets, SequencesExt

CONSTANTS
    Pasted,            \* texts entered as the remote id
    Secrets,           \* texts entered as code or password, by length class
    RecentCap,         \* 12 in the code
    MaxHosts,          \* bound: host processes started
    MaxWorkers,        \* bound: connections started
    MaxStarts          \* bound: both together

ASSUME ShellAssumption == RecentCap \in Nat

VARIABLES
    up,                \* the application runs
    shell,             \* RemoteLinkApp
    running,           \* host processes that run
    started,           \* host processes started
    orphans,           \* host processes whose application crashed
    status_file,       \* author of the status file, 0 when there is none
    workers,           \* ViewerWorkers, [target, state, error, stop]
    config,            \* AppConfig of the running application
    disk,              \* config.json: <<AppConfig>>, or <<>> when it cannot be read
    dialled,           \* targets of connections that ended well (history)
    off                \* access was turned off, the status file removed with it,
                       \* and not turned on again (history)

dvars == <<up, shell, running, started, orphans, status_file, workers, config, disk, dialled, off>>

NoText == <<>>
MayStart == started + Len(workers) < MaxStarts
DefaultConfig == [auto_start_host |-> TRUE, recent_hosts |-> <<>>]
DefaultShell == [allow_access |-> FALSE, host |-> 0, host_error |-> FALSE, host_status |-> 0,
                 viewer |-> 0, remote_id |-> NoText]

DesktopInit ==
    /\ up = FALSE /\ shell = DefaultShell
    /\ running = {} /\ started = 0 /\ orphans = {} /\ status_file = 0
    /\ workers = <<>> /\ config = DefaultConfig /\ disk = <<>>
    /\ dialled = {} /\ off = FALSE
-----------------------------------------------------------------------------
(* HostWorker *)

\* Mutant: dropping the handle leaves the child alone.
StoppedNot(p) == running

\* stop, also by dropping the handle: killed and reaped.
Stopped(p) == running \ {p}

\* start: a child under a number of its own, next to what is left running.
Spawn(left) ==
    /\ started < MaxHosts /\ MayStart
    /\ started' = started + 1
    /\ running' = left \cup {started + 1}

\* ... or no program is found, or it cannot be started.
SpawnFails(left) == running' = left /\ UNCHANGED started

\* Whether the file can be removed is not looked at.
RemoveStatus == status_file' \in {0, status_file}

\* start_host, entered with the shell as sh: a live child is kept; else the
\* old handle is dropped, the status file removed, and a child spawned, unless
\* a directory cannot be made.
StartHost(sh) ==
    LET left == Stopped(sh.host)
        cleared == [sh EXCEPT !.host = 0, !.host_error = TRUE]
    IN
    \/ /\ sh.host \in running
       /\ shell' = sh
       /\ UNCHANGED <<running, started, status_file, off>>
    \/ /\ sh.host \notin running
       /\ shell' = cleared /\ running' = left
       /\ UNCHANGED <<started, status_file, off>>
    \/ /\ sh.host \notin running /\ SpawnFails(left)
       /\ shell' = [cleared EXCEPT !.allow_access = FALSE]
       /\ RemoveStatus
       /\ UNCHANGED off
    \/ /\ sh.host \notin running /\ Spawn(left)
       /\ shell' = [sh EXCEPT !.host = started', !.host_error = FALSE, !.allow_access = TRUE]
       /\ RemoveStatus /\ off' = FALSE

\* stop_host_ui: the child is gone before its file is removed.
StopHostUi ==
    /\ running' = Stopped(shell.host)
    /\ shell' = [shell EXCEPT !.host = 0, !.allow_access = FALSE, !.host_status = 0]
    /\ RemoveStatus /\ off' = (status_file' = 0)
    /\ UNCHANGED started
-----------------------------------------------------------------------------
(* The application comes and goes *)

\* save works or leaves the file as it was.
Save(c) == disk' \in {<<c>>, disk}

LoadConfig == IF disk = <<>> THEN DefaultConfig ELSE disk[1]

\* new: a start at login counts as asked for.
Launch(login) ==
    LET loaded == [LoadConfig EXCEPT !.auto_start_host = @ \/ login]
        fresh == [DefaultShell EXCEPT !.allow_access = loaded.auto_start_host]
    IN
    /\ ~up /\ up' = TRUE
    /\ config' = loaded
    /\ IF fresh.allow_access THEN StartHost(fresh)
       ELSE shell' = fresh /\ UNCHANGED <<running, started, status_file, off>>
    /\ UNCHANGED <<orphans, workers, disk, dialled>>

AllStopped == [w \in DOMAIN workers |-> [workers[w] EXCEPT !.state = "finished"]]

\* on_exit saves, and what the application owns is dropped with it.
Exit ==
    /\ up /\ up' = FALSE
    /\ Save(config)
    /\ running' = Stopped(shell.host)
    /\ shell' = DefaultShell /\ workers' = AllStopped /\ off' = FALSE
    /\ UNCHANGED <<started, orphans, status_file, config, dialled>>

\* A crash leaves the child running, and a file being written torn.
Crash ==
    /\ up /\ up' = FALSE
    /\ disk' \in {disk, <<>>}
    /\ orphans' = orphans \cup running
    /\ shell' = DefaultShell /\ workers' = AllStopped /\ off' = FALSE
    /\ UNCHANGED <<running, started, status_file, config, dialled>>
-----------------------------------------------------------------------------
(* Frames: update polls the host, then the viewer *)

\* poll of HostWorker: an exit, or an error of the poll, is told once.
HostAlive(poll_fails) == shell.host \in running /\ ~poll_fails

\* read_status: no file, no news.
ReadStatus == IF status_file # 0 THEN status_file ELSE shell.host_status

PollHostStatus(poll_fails) ==
    LET lost == shell.host # 0 /\ ~HostAlive(poll_fails)
    IN
    /\ up
    /\ shell' = [shell EXCEPT !.host_status = ReadStatus,
                     !.host_error = @ \/ lost,
                     !.allow_access = @ /\ ~lost,
                     !.host = IF lost /\ shell.allow_access THEN 0 ELSE @]
    /\ running' = IF lost /\ shell.allow_access THEN Stopped(shell.host) ELSE running
    /\ UNCHANGED <<up, started, orphans, status_file, workers, config, disk, dialled, off>>

\* The list without id.
Others(list, id) ==
    LET upTo[i \in 0..Len(list)] ==
            IF i = 0 THEN <<>>
            ELSE IF list[i] # id THEN Append(upTo[i - 1], list[i]) ELSE upTo[i - 1]
    IN  upTo[Len(list)]

\* push_recent: the newest first, once, and no more than the cap.
PushRecent(list, id) ==
    LET all == <<id>> \o Others(list, id)
    IN SubSeq(all, 1, IF Len(all) < RecentCap THEN Len(all) ELSE RecentCap)

\* poll_viewer, once the connection is over: the id in the form is remembered.
PollViewer ==
    /\ up /\ shell.viewer # 0
    /\ LET w == workers[shell.viewer]
           ok == ~w.error /\ shell.remote_id # NoText
           remembered == [config EXCEPT !.recent_hosts = PushRecent(@, shell.remote_id)]
       IN
        /\ w.state = "finished"
        /\ config' = IF ok THEN remembered ELSE config
        /\ IF ok THEN Save(remembered) ELSE UNCHANGED disk
        /\ dialled' = IF w.error THEN dialled ELSE dialled \cup {w.target}
    /\ shell' = [shell EXCEPT !.viewer = 0]
    /\ UNCHANGED <<up, running, started, orphans, status_file, workers, off>>
-----------------------------------------------------------------------------
(* The user.  While a connection is open its picture takes the place of    *)
(* the two forms.                                                          *)

Form == up /\ shell.viewer = 0

ToggleAccess(on) ==
    /\ Form /\ on # shell.allow_access
    /\ IF on THEN StartHost([shell EXCEPT !.allow_access = TRUE]) ELSE StopHostUi
    /\ UNCHANGED <<up, orphans, workers, config, disk, dialled>>

EnterRemoteId(text) ==
    /\ Form /\ shell' = [shell EXCEPT !.remote_id = text]
    /\ UNCHANGED <<up, running, started, orphans, status_file, workers, config, disk, dialled, off>>

\* split_pasted_connect: the id of a text of id and code.
SplitPasted(text) == IF Len(text) = 2 THEN <<text[1]>> ELSE text

\* apply_pasted_connect: id and code in one, if no code is there yet.
EditRemoteId(text, secret) ==
    EnterRemoteId(IF secret = NoText THEN SplitPasted(text) ELSE text)

\* ViewerWorker::start: a live session in the background.
NewWorker(target) == [target |-> target, state |-> "running", error |-> FALSE, stop |-> FALSE]

\* start_connect with the code or password in the form.
StartConnect(secret, unattended) ==
    /\ Form /\ Len(workers) < MaxWorkers /\ MayStart
    /\ shell.remote_id # NoText /\ secret # NoText
    /\ unattended => secret[1] = "long"
    /\ workers' = Append(workers, NewWorker(shell.remote_id))
    /\ shell' = [shell EXCEPT !.viewer = Len(workers) + 1]
    /\ UNCHANGED <<up, running, started, orphans, status_file, config, disk, dialled, off>>

\* disconnect_viewer: the worker is told and let go.
DisconnectViewer ==
    /\ up /\ shell.viewer # 0
    /\ workers' = [workers EXCEPT ![shell.viewer].stop = TRUE]
    /\ shell' = [shell EXCEPT !.viewer = 0]
    /\ UNCHANGED <<up, running, started, orphans, status_file, config, disk, dialled, off>>

\* Settings are saved on "Save settings" and on exit.
SetAutoStart(b) ==
    /\ Form
    /\ config' = [config EXCEPT !.auto_start_host = b]
    /\ UNCHANGED <<up, shell, running, started, orphans, status_file, workers, disk, dialled, off>>

SaveSettings ==
    /\ Form
    /\ Save(config)
    /\ UNCHANGED <<up, shell, running, started, orphans, status_file, workers, config, dialled, off>>
-----------------------------------------------------------------------------
(* The host process and the connection's thread *)

\* publish of HostTray: the file is written aside and renamed.
HostPublishes(p) ==
    /\ p \in running
    /\ status_file' = p
    /\ UNCHANGED <<up, shell, running, started, orphans, workers, config, disk, dialled, off>>

HostExits(p) ==
    /\ p \in running
    /\ running' = running \ {p}
    /\ UNCHANGED <<up, shell, started, orphans, status_file, workers, config, disk, dialled, off>>

WorkerFinishes(w, error) ==
    /\ workers[w].state = "running"
    /\ workers' = [workers EXCEPT ![w].state = "finished", ![w].error = error]
    /\ UNCHANGED <<up, shell, running, started, orphans, status_file, config, disk, dialled, off>>

DesktopNext ==
    \/ \E b \in BOOLEAN : Launch(b) \/ ToggleAccess(b) \/ SetAutoStart(b) \/ PollHostStatus(b)
    \/ Exit \/ Crash \/ PollViewer \/ DisconnectViewer \/ SaveSettings
    \/ \E text \in Pasted, secret \in Secrets : EditRemoteId(text, secret)
    \/ \E id \in ToSet(config.recent_hosts) : EnterRemoteId(id)
    \/ \E secret \in Secrets, unattended \in BOOLEAN : StartConnect(secret, unattended)
    \/ \E p \in running : HostPublishes(p) \/ HostExits(p)
    \/ \E w \in DOMAIN workers, e \in BOOLEAN : WorkerFinishes(w, e)

DesktopSpec == DesktopInit /\ [][DesktopNext]_dvars
-----------------------------------------------------------------------------
\* A host process never gets out of the application's hands: the one it holds
\* is the only one it has running, and only while it says that access is
\* allowed, whatever was refused, polled in vain or restarted (a crash of the
\* application excepted, which leaves its host behind).
HostInReach ==
    \A p \in running \ orphans : up /\ p = shell.host /\ shell.allow_access

\* Once access is turned off and the status file removed, nothing of the host
\* is shown: it cannot write its status again.  (A file that cannot be removed
\* goes on being read, and shows the stopped host.)
OffShowsNothing == off /\ orphans = {} => shell.host_status = 0 /\ status_file = 0

\* A connection the window no longer shows was told to stop.
WindowsOwnSessions ==
    \A w \in DOMAIN workers :
        workers[w].state = "running" => w = shell.viewer \/ workers[w].stop

\* What is remembered as recent was connected to: the form cannot change while
\* its connection is open.  It is listed once, and no more than the cap.
RecentsDialled ==
    /\ ToSet(config.recent_hosts) \subseteq dialled
    /\ IsInjective(config.recent_hosts)
    /\ Len(config.recent_hosts) <= RecentCap

\* The application keeps hold of what it started and shows what is so (app.rs,
\* host_worker.rs, viewer_worker.rs): its host process, its connections and
\* the hosts it remembers.
ShellSound == HostInReach /\ OffShowsNothing /\ WindowsOwnSessions /\ RecentsDialled
=============================================================================
