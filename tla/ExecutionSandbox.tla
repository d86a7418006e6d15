--------------------------- MODULE ExecutionSandbox ---------------------------
(***************************************************************************)
(* The Execution Sandbox: DockerExecutor (docker_executor.py) with its     *)
(* session rows and containers, the command and file checks (security.py), *)
(* and the life of a microVM in FirecrackerExecutor.                       *)
(*                                                                         *)
(* Every await is a step boundary: the event loop runs other requests      *)
(* between the start of a Docker call and the statement after it.          *)
(*                                                                         *)
(*   create    none -> starting -> started -> persisting -> none           *)
(*   command   idle -> running -> measuring -> idle                        *)
(*   destroy   idle -> removing -> persisting -> writing -> idle           *)
(*   process   serving -> restoring -> reconciling -> serving              *)
(*                                                                         *)
(* load_active_sessions_from_db and _reconcile_orphans are written to be   *)
(* called at startup, the first before the second since it tells the       *)
(* second what is known.  No code of the service calls them: the module    *)
(* describes a host that does.                                             *)
(***************************************************************************)
EXTENDS Integers, Sequences, FiniteSets

CONSTANTS
    Boxes,            \* sessions, each with the one container it starts
    Commands,         \* concurrent exec requests
    Destroyers,       \* concurrent delete requests
    MaxAudit,         \* bound: commands per session
    MaxSandboxCrashes \* bound: crashes of the process

VARIABLES
    box,       \* session -> container: none, up, stopped, removed
    known,     \* _sessions: the sessions that can be found by id
    mem,       \* session -> status of its object, which outlives its place in known
    audit,     \* session -> sequence numbers of its audit log
    finished,  \* history: session -> commands that answered or timed out
    row,       \* session -> status in sandbox_sessions, or none
    creating,  \* session -> where its create call is
    cmd,       \* exec request -> [at, session, sequence]
    kill,      \* delete request -> [at, session, status it is writing]
    host,      \* serving, restoring or reconciling
    crashes_,  \* crashes so far
    refused,   \* history: sessions a Docker call has failed for
    fc         \* session -> its microVM

dockerVars == <<box, known, mem, audit, finished, row, creating, cmd, kill, host, crashes_, refused>>
sandboxVars == <<box, known, mem, audit, finished, row, creating, cmd, kill, host, crashes_, refused, fc>>

IdleCommand == [at |-> "idle", session |-> "none", sequence |-> 0]
IdleDestroy == [at |-> "idle", session |-> "none", status |-> "none"]
NoVM == [at |-> "none", process |-> FALSE, rootfs |-> FALSE, handle |-> FALSE, ssh |-> FALSE]

SandboxInit ==
    /\ box = [s \in Boxes |-> "none"] /\ known = {} /\ mem = [s \in Boxes |-> "absent"]
    /\ audit = [s \in Boxes |-> <<>>] /\ finished = [s \in Boxes |-> 0]
    /\ row = [s \in Boxes |-> "none"] /\ creating = [s \in Boxes |-> "none"]
    /\ cmd = [c \in Commands |-> IdleCommand] /\ kill = [d \in Destroyers |-> IdleDestroy]
    /\ host = "serving" /\ crashes_ = 0 /\ refused = {}
    /\ fc = [s \in Boxes |-> NoVM]

Exists(s) == box[s] \in {"up", "stopped"}

-----------------------------------------------------------------------------
(* create *)

\* create_container_config refuses a blocked or malformed environment variable
\* before anything is started.
CreateSandbox(s, env) ==
    /\ host = "serving" /\ box[s] = "none" /\ creating[s] = "none" /\ mem[s] = "absent"
    /\ env = "clean"
    /\ creating' = [creating EXCEPT ![s] = "starting"]
    /\ UNCHANGED <<box, known, mem, audit, finished, row, cmd, kill, host, crashes_, refused, fc>>

\* Docker runs the container, or answers ImageNotFound or another error.
ContainersRun(s) ==
    /\ creating[s] = "starting"
    /\ \/ box' = [box EXCEPT ![s] = "up"] /\ creating' = [creating EXCEPT ![s] = "started"]
       \/ creating' = [creating EXCEPT ![s] = "none"] /\ UNCHANGED box
    /\ UNCHANGED <<known, mem, audit, finished, row, cmd, kill, host, crashes_, refused, fc>>

\* The session is remembered before it is written.
RememberSession(s) ==
    /\ creating[s] = "started"
    /\ known' = known \cup {s} /\ mem' = [mem EXCEPT ![s] = "ready"]
    /\ creating' = [creating EXCEPT ![s] = "persisting"]
    /\ UNCHANGED <<box, audit, finished, row, cmd, kill, host, crashes_, refused, fc>>

\* _persist_session.  When it fails the caller gets an error and never learns
\* the id of the session, which stays.
PersistCreated(s) ==
    /\ creating[s] = "persisting"
    /\ \/ row' = [row EXCEPT ![s] = "ready"] /\ creating' = [creating EXCEPT ![s] = "none"]
       \/ creating' = [creating EXCEPT ![s] = "lost"] /\ UNCHANGED row
    /\ UNCHANGED <<box, known, mem, audit, finished, cmd, kill, host, crashes_, refused, fc>>

-----------------------------------------------------------------------------
(* Commands and files. *)

\* _get_session finds it, and there is a caller who has its id.
Known(s) == s \in known /\ creating[s] = "none" /\ host = "serving"

\* What the checks tell apart: does it parse, is the first word on the allow
\* list, does it match one of the blocked patterns?
CommandTexts == [parses : BOOLEAN, allowed : BOOLEAN, blocked : BOOLEAN]
ValidateCommand(t) == t.parses /\ t.allowed /\ ~ t.blocked

\* run_command up to its first await: the container is looked up, the next
\* index of the audit log is taken.
RunCommand(c, s, t) ==
    /\ cmd[c].at = "idle" /\ Known(s) /\ ValidateCommand(t)
    /\ Len(audit[s]) < MaxAudit
    /\ \/ /\ ~ Exists(s)
          /\ mem' = [mem EXCEPT ![s] = "error"]
          /\ UNCHANGED cmd
       \/ /\ Exists(s)
          /\ mem' = [mem EXCEPT ![s] = "running"]
          /\ cmd' = [cmd EXCEPT ![c] = [at |-> "running", session |-> s, sequence |-> Len(audit[s])]]
    /\ UNCHANGED <<box, known, audit, finished, row, creating, kill, host, crashes_, refused, fc>>

\* A command holds the session's object: it sets the status of a session that is
\* being deleted, or has been, like that of any other.
SetStatus(s, status) == [mem EXCEPT ![s] = status]

\* Fault: the log is put back as it was when the command started.
AppendedToOld(c) ==
    [audit EXCEPT ![cmd[c].session] = Append(SubSeq(@, 1, cmd[c].sequence), cmd[c].sequence)]

Appended(c) == [audit EXCEPT ![cmd[c].session] = Append(@, cmd[c].sequence)]

\* The command answers: its entry is appended, then the usage is measured.
CommandReturns(c) ==
    /\ cmd[c].at = "running" /\ box[cmd[c].session] = "up"
    /\ audit' = Appended(c)
    /\ finished' = [finished EXCEPT ![cmd[c].session] = @ + 1]
    /\ cmd' = [cmd EXCEPT ![c].at = "measuring"]
    /\ UNCHANGED <<box, known, mem, row, creating, kill, host, crashes_, refused, fc>>

CheckResourceUsage(c) ==
    /\ cmd[c].at = "measuring"
    /\ mem' = SetStatus(cmd[c].session, "ready")
    /\ cmd' = [cmd EXCEPT ![c] = IdleCommand]
    /\ UNCHANGED <<box, known, audit, finished, row, creating, kill, host, crashes_, refused, fc>>

CommandTimesOut(c) ==
    /\ cmd[c].at = "running"
    /\ audit' = Appended(c)
    /\ finished' = [finished EXCEPT ![cmd[c].session] = @ + 1]
    /\ mem' = SetStatus(cmd[c].session, "timed_out")
    /\ cmd' = [cmd EXCEPT ![c] = IdleCommand]
    /\ UNCHANGED <<box, known, row, creating, kill, host, crashes_, refused, fc>>

\* Docker fails the call (the container is gone or stopped): not a timeout, so
\* nothing is recorded and the status stays.
CommandFails(c) ==
    /\ cmd[c].at = "running"
    /\ cmd' = [cmd EXCEPT ![c] = IdleCommand]
    /\ UNCHANGED <<box, known, mem, audit, finished, row, creating, kill, host, crashes_, refused, fc>>

\* write_files and read_files change the session only by finding its container
\* gone; paths and contents are checked first.
FileTexts == [inside : BOOLEAN, link : BOOLEAN, secret : BOOLEAN]
ValidateFile(f) == f.inside /\ ~ f.link /\ ~ f.secret

TransferFiles(s, f) ==
    /\ Known(s) /\ ValidateFile(f) /\ ~ Exists(s)
    /\ mem' = [mem EXCEPT ![s] = "error"]
    /\ UNCHANGED <<box, known, audit, finished, row, creating, cmd, kill, host, crashes_, refused, fc>>

-----------------------------------------------------------------------------
(* destroy *)

\* Fault: the row is written before the container is removed.
DestroySandboxRowFirst(d, s) ==
    /\ kill[d].at = "idle" /\ Known(s)
    /\ kill' = [kill EXCEPT ![d] = [at |-> "removing", session |-> s, status |-> "none"]]
    /\ row' = [row EXCEPT ![s] = "destroyed"]
    /\ UNCHANGED <<box, known, mem, audit, finished, creating, cmd, host, crashes_, refused, fc>>

DestroySandbox(d, s) ==
    /\ kill[d].at = "idle" /\ Known(s)
    /\ kill' = [kill EXCEPT ![d] = [at |-> "removing", session |-> s, status |-> "none"]]
    /\ UNCHANGED <<box, known, mem, audit, finished, row, creating, cmd, host, crashes_, refused, fc>>

\* Docker removes the container or has none; an error is only logged.  The
\* session is then marked.
RemoveContainer(d) ==
    LET s == kill[d].session IN
    /\ kill[d].at = "removing"
    /\ \/ box' = [box EXCEPT ![s] = "removed"] /\ UNCHANGED refused
       \/ Exists(s) /\ refused' = refused \cup {s} /\ UNCHANGED box
    /\ mem' = SetStatus(s, "destroyed")
    /\ kill' = [kill EXCEPT ![d].at = "persisting"]
    /\ UNCHANGED <<known, audit, finished, row, creating, cmd, host, crashes_, fc>>

\* _persist_session takes the status once it has the row: a command that ended
\* while the row was awaited has set ready, timed_out or error over destroyed,
\* another one that has begun running.
PersistDestroyed(d) ==
    /\ kill[d].at = "persisting"
    /\ kill' = [kill EXCEPT ![d] = [@ EXCEPT !.at = "writing", !.status = mem[kill[d].session]]]
    /\ UNCHANGED <<box, known, mem, audit, finished, row, creating, cmd, host, crashes_, refused, fc>>

\* The row is written and the session dropped (a second delete finds it
\* dropped: KeyError), or the database fails and the session stays.
DropSession(d) ==
    LET s == kill[d].session IN
    /\ kill[d].at = "writing"
    /\ \/ row' = [row EXCEPT ![s] = kill[d].status] /\ known' = known \ {s}
       \/ UNCHANGED <<row, known>>
    /\ kill' = [kill EXCEPT ![d] = IdleDestroy]
    /\ UNCHANGED <<box, mem, audit, finished, creating, cmd, host, crashes_, refused, fc>>

\* The container's own command is a sleep of timeout_seconds.
ContainerExpires(s) ==
    /\ box[s] = "up"
    /\ box' = [box EXCEPT ![s] = "stopped"]
    /\ UNCHANGED <<known, mem, audit, finished, row, creating, cmd, kill, host, crashes_, refused, fc>>

-----------------------------------------------------------------------------
(* Crash and recovery. *)

\* What a crash leaves of a microVM: nothing in FirecrackerExecutor looks for the
\* process and the files of an earlier one.
Abandoned(vm) ==
    IF vm.at \in {"none", "failed", "gone"} THEN [vm EXCEPT !.ssh = FALSE]
    ELSE [vm EXCEPT !.at = "orphaned", !.handle = FALSE, !.ssh = FALSE]

\* Sessions, logs and the handles of microVMs are memory of the process; the
\* containers, the rows, the microVMs and their files are not.
SandboxCrashes ==
    /\ crashes_ < MaxSandboxCrashes
    /\ crashes_' = crashes_ + 1
    /\ known' = {} /\ mem' = [s \in Boxes |-> "absent"]
    /\ audit' = [s \in Boxes |-> <<>>] /\ finished' = [s \in Boxes |-> 0]
    /\ creating' = [s \in Boxes |-> "none"]
    /\ cmd' = [c \in Commands |-> IdleCommand] /\ kill' = [d \in Destroyers |-> IdleDestroy]
    /\ host' = "restoring"
    /\ fc' = [s \in Boxes |-> Abandoned(fc[s])]
    /\ UNCHANGED <<box, row, refused>>

\* Fault: the containers are swept before the sessions are loaded.
LoadNothing ==
    /\ host = "restoring"
    /\ host' = "reconciling"
    /\ UNCHANGED <<box, known, mem, audit, finished, row, creating, cmd, kill, crashes_, refused, fc>>

\* get_active also returns creating, which no row ever says.
ActiveStatuses == {"ready", "running"}
Active(s) == row[s] \in ActiveStatuses /\ Exists(s)

\* load_active_sessions_from_db: rows get_active returns whose container exists,
\* except those Docker could not be asked about.
LoadActiveSessionsFromDb ==
    LET active == {s \in Boxes : Active(s)} IN
    /\ host = "restoring"
    /\ \E unasked \in SUBSET active :
          /\ known' = active \ unasked
          /\ mem' = [s \in Boxes |-> IF s \in known' THEN row[s] ELSE mem[s]]
          /\ refused' = refused \cup unasked
    /\ host' = "reconciling"
    /\ UNCHANGED <<box, audit, finished, row, creating, cmd, kill, crashes_, fc>>

\* Fault: the sweep is skipped.
ReconcileNothing ==
    /\ host = "reconciling"
    /\ host' = "serving"
    /\ UNCHANGED <<box, known, mem, audit, finished, row, creating, cmd, kill, crashes_, refused, fc>>

\* _reconcile_orphans: containers without a session go, those Docker refuses
\* to remove stay.
ReconcileOrphans ==
    LET orphans == {s \in Boxes : Exists(s) /\ s \notin known} IN
    /\ host = "reconciling"
    /\ \E kept \in SUBSET orphans :
          /\ box' = [s \in Boxes |-> IF s \in orphans \ kept THEN "removed" ELSE box[s]]
          /\ refused' = refused \cup kept
    /\ host' = "serving"
    /\ UNCHANGED <<known, mem, audit, finished, row, creating, cmd, kill, crashes_, fc>>

-----------------------------------------------------------------------------
(* FirecrackerExecutor: one microVM per session, a process and a copy of the *)
(* root file system each.                                                    *)

\* The copy of the base image, then the process.
FcSpawn(s) ==
    /\ fc[s].at \in {"none", "copied"}
    /\ fc' = [fc EXCEPT ![s] = IF @.at = "none" THEN [@ EXCEPT !.at = "copied", !.rootfs = TRUE]
                                                ELSE [@ EXCEPT !.at = "waiting", !.process = TRUE]]
    /\ UNCHANGED dockerVars

\* The API socket appears within five seconds, or the process is killed.
FcWaitForSocket(s) ==
    /\ fc[s].at = "waiting"
    /\ fc' \in {[fc EXCEPT ![s].at = "configuring"],
                [fc EXCEPT ![s] = [@ EXCEPT !.at = "failed", !.process = FALSE]]}
    /\ UNCHANGED dockerVars

\* _configure_vm and _start_vm: any failing call kills the process and deletes
\* the files.
FcConfigure(s) ==
    /\ fc[s].at = "configuring"
    /\ fc' \in {[fc EXCEPT ![s] = [@ EXCEPT !.at = "ready", !.handle = TRUE]],
                [fc EXCEPT ![s] = [NoVM EXCEPT !.at = "failed"]]}
    /\ UNCHANGED dockerVars

\* execute_command over ssh, for as long as the handle is there; the command may
\* outlive it.  A timeout and an answer end it alike.
FcExecute(s, t) ==
    /\ fc[s].handle /\ ~ fc[s].ssh /\ ValidateCommand(t)
    /\ fc' = [fc EXCEPT ![s].ssh = TRUE]
    /\ UNCHANGED dockerVars

FcExecuteEnds(s) ==
    /\ fc[s].ssh
    /\ fc' = [fc EXCEPT ![s].ssh = FALSE]
    /\ UNCHANGED dockerVars

FcDestroy(s) ==
    /\ fc[s].at = "ready"
    /\ fc' = [fc EXCEPT ![s].at = "stopping"]
    /\ UNCHANGED dockerVars

\* Fault: a microVM whose API does not answer is left alone.
FcShutdownPolite(s) ==
    /\ fc[s].at = "stopping"
    /\ \E answers \in BOOLEAN : fc' = [fc EXCEPT ![s] = [NoVM EXCEPT !.at = "gone", !.process = ~ answers, !.ssh = fc[s].ssh]]
    /\ UNCHANGED dockerVars

\* Asked to shut down, waited for, killed when it does not or the API fails; its
\* files are deleted and its handle and session dropped.
FcShutdown(s) ==
    /\ fc[s].at = "stopping"
    /\ fc' = [fc EXCEPT ![s] = [NoVM EXCEPT !.at = "gone", !.ssh = fc[s].ssh]]
    /\ UNCHANGED dockerVars

-----------------------------------------------------------------------------
DockerNext ==
    \/ \E s \in Boxes :
          \/ \E env \in {"clean", "blocked"} : CreateSandbox(s, env)
          \/ ContainersRun(s) \/ RememberSession(s) \/ PersistCreated(s) \/ ContainerExpires(s)
          \/ \E c \in Commands, t \in CommandTexts : RunCommand(c, s, t)
          \/ \E f \in FileTexts : TransferFiles(s, f)
          \/ \E d \in Destroyers : DestroySandbox(d, s)
    \/ \E c \in Commands :
          CommandReturns(c) \/ CheckResourceUsage(c) \/ CommandTimesOut(c) \/ CommandFails(c)
    \/ \E d \in Destroyers : RemoveContainer(d) \/ PersistDestroyed(d) \/ DropSession(d)
    \/ LoadActiveSessionsFromDb \/ ReconcileOrphans

FirecrackerNext ==
    \E s \in Boxes :
        \/ FcSpawn(s) \/ FcWaitForSocket(s) \/ FcConfigure(s) \/ FcDestroy(s) \/ FcShutdown(s)
        \/ FcExecuteEnds(s) \/ \E t \in CommandTexts : FcExecute(s, t)

\* Either executor may be the one of the process that crashes.
SandboxNext == DockerNext \/ FirecrackerNext \/ SandboxCrashes
SandboxSpec == SandboxInit /\ [][SandboxNext]_sandboxVars

-----------------------------------------------------------------------------
(* Properties. *)

\* Two commands on one session, one of them slow, and a timeout: no audit entry
\* is lost or overwritten, although each took its index before the others were
\* appended (run_command appends to the log it finds after its await).
EveryCommandIsAudited ==
    \A s \in Boxes :
        /\ Len(audit[s]) = finished[s]
        /\ \A i \in 1 .. Len(audit[s]) : audit[s][i] < i

\* A row that says destroyed has no container any more, although another request
\* or a restart came in between, unless Docker refused the removal (destroy).  Not
\* the converse: the row of a session that was deleted may say anything else.
DestroyedRowsAreGone ==
    \A s \in Boxes : row[s] = "destroyed" /\ s \notin refused => ~ Exists(s)

\* Once the restarted process serves requests, a container nobody knows is one
\* that is being created or that a Docker call failed for (_reconcile_orphans).
NoOrphansOnceServing ==
    \A s \in Boxes :
        host = "serving" /\ Exists(s) /\ s \notin known => creating[s] = "started" \/ s \in refused

\* The sweep never takes the container of a session that its row calls active: such
\* a container is removed for a delete request only, also after a crash in the
\* middle of one, unless Docker could not be asked about it.
SweepStep ==
    \A s \in Boxes :
      Active(s) /\ box'[s] = "removed" =>
         s \in refused \/ \E d \in Destroyers : kill[d].at = "removing" /\ kill[d].session = s
ActiveContainersAreSpared == [][SweepStep]_sandboxVars

\* A microVM whose start failed or that was destroyed has no process, and one that was
\* destroyed has left no root file system; one that runs without a handle is still being
\* started or was left behind by a crash (FirecrackerExecutor).
NoStrayMicroVM ==
    \A s \in Boxes :
        /\ fc[s].process => fc[s].at \in {"waiting", "configuring", "ready", "stopping", "orphaned"}
        /\ fc[s].at = "gone" => ~ fc[s].rootfs
        /\ fc[s].at \in {"ready", "stopping"} => fc[s].handle
        /\ fc[s].at = "orphaned" => crashes_ > 0

\* Two requests on one session, Docker or the database failing between the steps of one, and a
\* crash: each command that answered or timed out is in the log of the process that ran it, a
\* row that says destroyed is of a removed container, what nobody knows after a restart is
\* swept, unless Docker refused; and no microVM is left behind but by a crash, after which
\* nothing looks for them.
ContainersAreAccountedFor ==
    /\ EveryCommandIsAudited
    /\ DestroyedRowsAreGone
    /\ NoOrphansOnceServing
    /\ NoStrayMicroVM
=============================================================================
