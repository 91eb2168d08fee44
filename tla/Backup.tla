------------------------------- MODULE Backup -------------------------------
(***************************************************************************)
(* The primary and the backup slurmctld: run_backup() and its RPCs in      *)
(* backup.c, the loop of main(), _slurmctld_background() and               *)
(* _shutdown_backup_controller() in controller.c, the shutdown RPC in      *)
(* proc_req.c, and the test for two daemons in control in                  *)
(* dump_all_job_state().  The backup pings the primary and takes control   *)
(* when it has been silent for too long, or when told to; the primary      *)
(* takes control when it starts and asserts it from time to time.  Both    *)
(* keep the jobs in the same file, which StateFiles has in detail; here a  *)
(* dump checks and packs in one step and replaces the file in another.     *)
(* Either daemon may end at any time, and the network may be cut between   *)
(* them.                                                                   *)
(***************************************************************************)
EXTENDS Naturals

CONSTANTS
    Jobs,
    SlurmctldTimeout,   \* failed pings the backup puts up with
    MaxTime,            \* bound on the clock that stamps the dumps
    MaxCut              \* bound on the times the network is cut

ASSUME BackupAssumption == SlurmctldTimeout \in Nat /\ MaxTime \in Nat /\ MaxCut \in Nat

P == "primary"
B == "backup"
Ctld == {P, B}

VARIABLES
    mode,           \* what each daemon does, see Mode
    job_list,       \* the jobs in its memory
    save_jobs,      \* a save is scheduled
    dump,           \* the jobs and the time of the dump being written, if any
    last_file_write_time,
    resume_backup,  \* REQUEST_CONTROL was received: the backup goes on as backup
    silent,         \* pings the primary did not answer, in a row
    takeover,       \* REQUEST_TAKEOVER was received
    job_state,      \* the state file: jobs and time stamp
    clock,
    net,            \* the daemons can reach each other
    cuts,
    acked,          \* ghost: jobs whose submission was confirmed
    hasty           \* ghost: a daemon ended before a save that was due, or read the
                    \* state while the other could still write it

backup_vars == <<mode, job_list, save_jobs, dump, last_file_write_time, resume_backup, silent,
          takeover, job_state, clock, net, cuts, acked, hasty>>

\* "ask": the primary has asked the backup for control or is about to; "read": it goes
\* on to read the state; "take": the backup has left its loop to do so; "stopping": the
\* RPCs come to an end; "saving": the saving thread finishes.
Mode == {"off", "ask", "standby", "take", "read", "control", "stopping", "saving"}

InControl(c) == mode[c] \in {"control", "stopping", "saving"}

NoDump == [jobs |-> {}, time |-> 0]
Set(f, c, v) == [f EXCEPT ![c] = v]

BackupInit ==
    /\ mode = [c \in Ctld |-> "off"]
    /\ job_list = [c \in Ctld |-> {}]
    /\ save_jobs = [c \in Ctld |-> FALSE]
    /\ dump = [c \in Ctld |-> NoDump]
    /\ last_file_write_time = [c \in Ctld |-> 0]
    /\ resume_backup = [c \in Ctld |-> FALSE]
    /\ silent = 0
    /\ takeover = FALSE
    /\ job_state = NoDump
    /\ clock = 0
    /\ net = TRUE
    /\ cuts = 0
    /\ acked = {}
    /\ hasty = FALSE
-----------------------------------------------------------------------------
(* REQUEST_CONTROL                                                           *)

\* Mutant of Asked: a daemon in control does not give way.
AskedInVain(c) ==
    /\ silent' = IF net /\ mode[c] = "standby" THEN 0 ELSE silent
    /\ UNCHANGED <<mode, resume_backup>>

\* The daemon that receives it: in control it stops (_slurm_rpc_shutdown_controller),
\* in standby it notes that the other one lives (_background_process_msg).
Asked(c) ==
    IF net /\ InControl(c)
    THEN /\ mode' = [mode EXCEPT ![c] = IF @ = "control" THEN "stopping" ELSE @]
         /\ resume_backup' = Set(resume_backup, c, TRUE)
         /\ UNCHANGED silent
    ELSE /\ silent' = IF net /\ mode[c] = "standby" THEN 0 ELSE silent
         /\ UNCHANGED <<mode, resume_backup>>

\* _shutdown_backup_controller of a primary in control, every SlurmctldTimeout
assert_primary ==
    /\ mode[P] = "control"
    /\ Asked(B)
    /\ UNCHANGED <<job_list, save_jobs, dump, last_file_write_time, takeover, job_state,
                   clock, net, cuts, acked, hasty>>
-----------------------------------------------------------------------------
(* The primary                                                               *)

primary_start ==
    /\ mode[P] = "off"
    /\ mode' = Set(mode, P, "ask")
    /\ UNCHANGED <<job_list, save_jobs, dump, last_file_write_time, resume_backup, silent,
                   takeover, job_state, clock, net, cuts, acked, hasty>>

\* _shutdown_backup_controller; whatever becomes of it the primary goes on, after a
\* time (SHUTDOWN_WAIT) that may or may not be enough for the backup.
ask_backup ==
    /\ mode[P] = "ask"
    /\ IF net /\ InControl(B)
       THEN /\ mode' = [mode EXCEPT ![P] = "read",
                                    ![B] = IF @ = "control" THEN "stopping" ELSE @]
            /\ resume_backup' = Set(resume_backup, B, TRUE)
            /\ UNCHANGED silent
       ELSE /\ mode' = Set(mode, P, "read")
            /\ silent' = IF net /\ mode[B] = "standby" THEN 0 ELSE silent
            /\ UNCHANGED resume_backup
    /\ UNCHANGED <<job_list, save_jobs, dump, last_file_write_time, takeover, job_state,
                   clock, net, cuts, acked, hasty>>
-----------------------------------------------------------------------------
(* The backup (run_backup)                                                   *)

\* It starts, or resumes, in standby.
Standby ==
    /\ silent' = 0
    /\ takeover' = FALSE
    /\ resume_backup' = Set(resume_backup, B, FALSE)

backup_start ==
    /\ mode[B] = "off"
    /\ mode' = Set(mode, B, "standby")
    /\ Standby
    /\ UNCHANGED <<job_list, save_jobs, dump, last_file_write_time, job_state, clock, net,
                   cuts, acked, hasty>>

\* _ping_controller; a primary that is stopping may still answer.
ping_answered ==
    /\ mode[B] = "standby" /\ net /\ InControl(P)
    /\ silent' = 0
    /\ UNCHANGED <<mode, job_list, save_jobs, dump, last_file_write_time, resume_backup,
                   takeover, job_state, clock, net, cuts, acked, hasty>>

\* Mutant of ping_failed: the pings that failed are not counted.
PingUncounted ==
    /\ mode[B] = "standby" /\ ~(net /\ mode[P] = "control")
    /\ IF takeover \/ silent >= SlurmctldTimeout
       THEN mode' = Set(mode, B, "take") /\ UNCHANGED silent
       ELSE UNCHANGED <<mode, silent>>
    /\ UNCHANGED <<job_list, save_jobs, dump, last_file_write_time, resume_backup,
                   takeover, job_state, clock, net, cuts, acked, hasty>>

ping_failed ==
    /\ mode[B] = "standby" /\ ~(net /\ mode[P] = "control")
    /\ IF takeover \/ silent >= SlurmctldTimeout
       THEN mode' = Set(mode, B, "take") /\ UNCHANGED silent
       ELSE silent' = silent + 1 /\ UNCHANGED mode
    /\ UNCHANGED <<job_list, save_jobs, dump, last_file_write_time, resume_backup,
                   takeover, job_state, clock, net, cuts, acked, hasty>>

\* REQUEST_TAKEOVER: the primary is asked for control (_shutdown_primary_controller).
request_takeover ==
    /\ mode[B] = "standby"
    /\ Asked(P)
    /\ takeover' = TRUE
    /\ UNCHANGED <<job_list, save_jobs, dump, last_file_write_time, job_state, clock, net,
                   cuts, acked, hasty>>
-----------------------------------------------------------------------------
(* A daemon in control                                                       *)

\* read_slurm_conf recovers the jobs; backup_slurmctld_restart, or the new process, has
\* set last_file_write_time to 0.
take_control(c) ==
    /\ mode[c] \in {"read", "take"}
    /\ mode' = Set(mode, c, "control")
    /\ job_list' = Set(job_list, c, job_state.jobs)
    /\ last_file_write_time' = Set(last_file_write_time, c, 0)
    /\ hasty' = (hasty \/ \E d \in Ctld \ {c} : InControl(d))
    /\ UNCHANGED <<save_jobs, dump, resume_backup, silent, takeover, job_state, clock, net,
                   cuts, acked>>

\* A job is submitted and a save scheduled (StateFiles has the time in between); RPCs
\* under way are still served when the daemon stops.
submit(c, j) ==
    /\ mode[c] \in {"control", "stopping"} /\ j \notin acked
    /\ job_list' = [job_list EXCEPT ![c] = @ \cup {j}]
    /\ save_jobs' = Set(save_jobs, c, TRUE)
    /\ acked' = acked \cup {j}
    /\ UNCHANGED <<mode, dump, last_file_write_time, resume_backup, silent, takeover,
                   job_state, clock, net, cuts, hasty>>

\* A signal or REQUEST_SHUTDOWN ends the daemon.
shutdown(c) ==
    /\ mode[c] = "control"
    /\ mode' = Set(mode, c, "stopping")
    /\ UNCHANGED <<job_list, save_jobs, dump, last_file_write_time, resume_backup, silent,
                   takeover, job_state, clock, net, cuts, acked, hasty>>

\* _slurmctld_background leaves its loop: save_all_state, unless a lock is still set.
background_ends(c) ==
    /\ mode[c] = "stopping"
    /\ mode' = Set(mode, c, "saving")
    /\ \E all \in BOOLEAN : save_jobs' = [save_jobs EXCEPT ![c] = @ \/ all]
    /\ UNCHANGED <<job_list, dump, last_file_write_time, resume_backup, silent, takeover,
                   job_state, clock, net, cuts, acked, hasty>>

\* Mutant of main_ends: the saving thread is not waited for.
EndsUnsaved(c) ==
    /\ mode[c] = "saving"
    /\ mode' = Set(mode, c, "off")
    /\ job_list' = Set(job_list, c, {})
    /\ save_jobs' = Set(save_jobs, c, FALSE)
    /\ dump' = Set(dump, c, NoDump)
    /\ last_file_write_time' = Set(last_file_write_time, c, 0)
    /\ resume_backup' = Set(resume_backup, c, FALSE)
    /\ UNCHANGED <<silent, takeover, job_state, clock, net, cuts, acked, hasty>>

\* The end of the loop in main: only the backup, asked for control, goes on.
main_ends(c) ==
    /\ mode[c] = "saving" /\ ~save_jobs[c] /\ dump[c] = NoDump
    /\ job_list' = Set(job_list, c, {})
    /\ last_file_write_time' = Set(last_file_write_time, c, 0)
    /\ IF c = B /\ resume_backup[c]
       THEN mode' = Set(mode, c, "standby") /\ Standby
       ELSE /\ mode' = Set(mode, c, "off")
            /\ resume_backup' = Set(resume_backup, c, FALSE)
            /\ UNCHANGED <<silent, takeover>>
    /\ UNCHANGED <<save_jobs, dump, job_state, clock, net, cuts, acked, hasty>>

Gone(c) ==
    /\ mode' = Set(mode, c, "off")
    /\ job_list' = Set(job_list, c, {})
    /\ save_jobs' = Set(save_jobs, c, FALSE)
    /\ dump' = Set(dump, c, NoDump)
    /\ last_file_write_time' = Set(last_file_write_time, c, 0)
    /\ resume_backup' = Set(resume_backup, c, FALSE)
    /\ hasty' = (hasty \/ save_jobs[c] \/ dump[c] # NoDump)

\* The start of dump_all_job_state.  The file has the stamp of another dump than this
\* daemon's last: the backup ends, the primary goes on.
dump_check(c) ==
    /\ InControl(c) /\ save_jobs[c] /\ dump[c] = NoDump
    /\ \E t \in {clock, clock + 1} \cap (1..MaxTime) :
         /\ clock' = t
         /\ IF /\ c = B /\ last_file_write_time[c] # 0 /\ job_state.time # 0
               /\ job_state.time # last_file_write_time[c]
            THEN Gone(c)
            ELSE /\ save_jobs' = Set(save_jobs, c, FALSE)
                 /\ dump' = Set(dump, c, [jobs |-> job_list[c], time |-> t])
                 /\ UNCHANGED <<mode, job_list, last_file_write_time, resume_backup, hasty>>
    /\ UNCHANGED <<silent, takeover, job_state, net, cuts, acked>>

dump_write(c) ==
    /\ dump[c] # NoDump
    /\ job_state' = dump[c]
    /\ last_file_write_time' = Set(last_file_write_time, c, dump[c].time)
    /\ dump' = Set(dump, c, NoDump)
    /\ UNCHANGED <<mode, job_list, save_jobs, resume_backup, silent, takeover, clock, net,
                   cuts, acked, hasty>>
-----------------------------------------------------------------------------
(* Faults                                                                    *)

crash(c) ==
    /\ mode[c] # "off"
    /\ Gone(c)
    /\ UNCHANGED <<silent, takeover, job_state, clock, net, cuts, acked>>

cut ==
    /\ net /\ cuts < MaxCut
    /\ net' = FALSE
    /\ cuts' = cuts + 1
    /\ UNCHANGED <<mode, job_list, save_jobs, dump, last_file_write_time, resume_backup,
                   silent, takeover, job_state, clock, acked, hasty>>

heal ==
    /\ ~net
    /\ net' = TRUE
    /\ UNCHANGED <<mode, job_list, save_jobs, dump, last_file_write_time, resume_backup,
                   silent, takeover, job_state, clock, cuts, acked, hasty>>
-----------------------------------------------------------------------------
Stops(c) == background_ends(c) \/ dump_check(c) \/ dump_write(c) \/ main_ends(c)

BackupNext ==
    \/ primary_start \/ ask_backup \/ assert_primary
    \/ backup_start \/ ping_answered \/ ping_failed \/ request_takeover
    \/ cut \/ heal
    \/ \E c \in Ctld :
          \/ take_control(c) \/ shutdown(c) \/ Stops(c) \/ crash(c)
          \/ \E j \in Jobs : submit(c, j)

BackupSpec == BackupInit /\ [][BackupNext]_backup_vars

\* The threads of a daemon that lives go on, and the network comes back.
BackupLiveSpec ==
    /\ BackupSpec
    /\ WF_backup_vars(ask_backup) /\ WF_backup_vars(assert_primary) /\ WF_backup_vars(heal)
    /\ WF_backup_vars(ping_answered \/ ping_failed)
    /\ \A c \in Ctld : WF_backup_vars(take_control(c)) /\ WF_backup_vars(Stops(c))
-----------------------------------------------------------------------------
\* Every variable stays in its type.
BackupTypeOK ==
    /\ mode \in [Ctld -> Mode]
    /\ job_list \in [Ctld -> SUBSET Jobs]
    /\ save_jobs \in [Ctld -> BOOLEAN]
    /\ dump \in [Ctld -> [jobs : SUBSET Jobs, time : 0..MaxTime]]
    /\ last_file_write_time \in [Ctld -> 0..MaxTime]
    /\ resume_backup \in [Ctld -> BOOLEAN]
    /\ silent \in 0..SlurmctldTimeout
    /\ takeover \in BOOLEAN
    /\ job_state \in [jobs : SUBSET Jobs, time : 0..MaxTime]
    /\ clock \in 0..MaxTime
    /\ net \in BOOLEAN
    /\ cuts \in 0..MaxCut
    /\ acked \in SUBSET Jobs
    /\ hasty \in BOOLEAN

\* Control changes hands without the loss of a job: as long as no daemon ends before a
\* save that is due or reads the state while the other may still write it, each job that
\* was confirmed is in the state file or on its way there.
JobsKept ==
    ~hasty => \A j \in acked :
        \/ j \in job_state.jobs
        \/ \E c \in Ctld : j \in job_list[c] /\ (save_jobs[c] \/ j \in dump[c].jobs)

\* Two daemons in control: the backup gives way, or one of them ends.
SplitEnds == (mode[P] = "control" /\ mode[B] = "control") ~>
             ~(mode[P] = "control" /\ mode[B] = "control")

\* While there is a backup some daemon comes to be in control, unless the primary
\* starts again and again (each start keeps the backup waiting).
TakesOver ==
    mode[B] = "standby" ~>
        (mode[B] = "off" \/ mode[P] = "ask" \/ \E c \in Ctld : InControl(c))
=============================================================================
