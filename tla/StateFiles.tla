----------------------------- MODULE StateFiles -----------------------------
(***************************************************************************)
(* The job state that slurmctld keeps on disk: schedule_job_save() and the *)
(* saving thread slurmctld_state_save() of state_save.c, the dump with its *)
(* shuffle of job_state.new, job_state and job_state.old, and the recovery *)
(* from them (dump_all_job_state(), _open_job_state_file() and             *)
(* load_all_job_state() of job_mgr.c).  The daemon may end at any point of *)
(* a dump, and a write may fail.  A name is a link to a file, and two      *)
(* names may be one file.                                                  *)
(***************************************************************************)

CONSTANTS
    Jobs,           \* the changes to save: submitted jobs
    Inode,          \* the files there can be at a time
    NoFile          \* not an inode

ASSUME FileAssumption == NoFile \notin Inode

VARIABLES
    mode,           \* "down", "control" or "stopping"
    job_list,       \* jobs in memory
    owed,           \* an RPC has changed job_list and not yet scheduled a save
    save_jobs,      \* save_jobs is not zero
    run_save_thread,
    saver,          \* slurmctld_state_save and, within, dump_all_job_state
    buffer,         \* the jobs packed for the dump
    log_fd,         \* the file that the dump writes
    name,           \* the directory: the file each name links to
    disk,           \* the files: size is "empty" (below 10 bytes), "part" or "whole"
    saved,          \* ghost: jobs of the last dump that was completed
    torn,           \* ghost: a dump was cut off while exposed, and none completed since
    failed          \* ghost: a dump of this daemon failed and none was completed since

files_vars == <<mode, job_list, owed, save_jobs, run_save_thread, saver, buffer,
                log_fd, name, disk, saved, torn, failed>>

Name == {"new", "reg", "old"}   \* job_state.new, job_state, job_state.old

Writing == {"write", "fsync"}
Shuffle == {"unlink_old", "link_old", "unlink_reg", "link_reg", "unlink_new"}
Saver == {"none", "wait", "pack", "creat"} \cup Writing \cup Shuffle

Content == [size : {"empty", "part", "whole"}, jobs : SUBSET Jobs]
Empty == [size |-> "empty", jobs |-> {}]

FilesInit ==
    /\ mode = "down"
    /\ job_list = {}
    /\ owed = FALSE
    /\ save_jobs = FALSE
    /\ run_save_thread = TRUE
    /\ saver = "none"
    /\ buffer = {}
    /\ log_fd = NoFile
    /\ name = [x \in Name |-> NoFile]
    /\ disk = [i \in Inode |-> Empty]
    /\ saved = {}
    /\ torn = FALSE
    /\ failed = FALSE
-----------------------------------------------------------------------------
(* The file system (external)                                                *)

\* The files left when dir is the directory and fd the descriptor that is open:
\* one with neither is freed.
KeptFiles(dir, fd) ==
    [i \in Inode |-> IF i = fd \/ \E x \in Name : dir[x] = i THEN disk[i] ELSE Empty]

\* The directory after unlink(x), and after link(x, y), which fails if x is missing
\* or y is there.
unlink(x) == [name EXCEPT ![x] = NoFile]

link(x, y) ==
    IF name[x] # NoFile /\ name[y] = NoFile THEN [name EXCEPT ![y] = name[x]] ELSE name

\* The file that creat(x) opens: the one that is there, or one that is free.
Created(x) ==
    IF name[x] # NoFile THEN {name[x]} ELSE {i \in Inode : \A y \in Name : name[y] # i}
-----------------------------------------------------------------------------
(* Recovery                                                                  *)

\* _open_job_state_file: job_state, or job_state.old if it is missing or too small
Opened ==
    IF name["reg"] # NoFile /\ disk[name["reg"]].size # "empty"
    THEN name["reg"] ELSE name["old"]

\* load_all_job_state: of a file that ends early, the records before its end
Loaded ==
    IF Opened = NoFile THEN {{}}
    ELSE IF disk[Opened].size = "whole" THEN {disk[Opened].jobs}
    ELSE SUBSET disk[Opened].jobs

\* The daemon takes control and reads the state.
load_all_job_state ==
    /\ mode = "down"
    /\ mode' = "control"
    /\ job_list' \in Loaded
    /\ saver' = "wait"
    /\ failed' = FALSE
    /\ UNCHANGED <<owed, save_jobs, run_save_thread, buffer, log_fd, name, disk, saved,
                   torn>>
-----------------------------------------------------------------------------
(* The RPCs that change the state, and the shutdown                          *)

\* A job is submitted: the reply goes out with the locks released ...
Submit(j) ==
    /\ mode = "control" /\ ~owed /\ j \notin job_list
    /\ job_list' = job_list \cup {j}
    /\ owed' = TRUE
    /\ UNCHANGED <<mode, save_jobs, run_save_thread, saver, buffer, log_fd, name, disk,
                   saved, torn, failed>>

\* ... before schedule_job_save.
schedule_job_save ==
    /\ owed
    /\ owed' = FALSE
    /\ save_jobs' = TRUE
    /\ UNCHANGED <<mode, job_list, run_save_thread, saver, buffer, log_fd, name, disk,
                   saved, torn, failed>>

\* _slurmctld_background on shutdown: once the RPCs are done save_all_state, unless
\* a lock is still set; main then calls shutdown_state_save.
shutdown_state_save ==
    /\ mode = "control" /\ ~owed
    /\ mode' = "stopping"
    /\ save_jobs' \in {save_jobs, TRUE}
    /\ run_save_thread' = FALSE
    /\ UNCHANGED <<job_list, owed, saver, buffer, log_fd, name, disk, saved, torn, failed>>

\* The dump has opened job_state.new.
Dumping == saver \in Writing \cup Shuffle

\* job_state is missing, or it is one file with the job_state.new that the next dump
\* truncates.
Exposed == saver \in {"link_reg", "unlink_new"}

\* The process is gone, and with it all but the files.
Crash ==
    /\ mode # "down"
    /\ mode' = "down"
    /\ job_list' = {}
    /\ owed' = FALSE
    /\ save_jobs' = FALSE
    /\ run_save_thread' = TRUE
    /\ saver' = "none"
    /\ buffer' = {}
    /\ log_fd' = NoFile
    /\ disk' = KeptFiles(name, NoFile)
    /\ torn' = (torn \/ Exposed)
    /\ UNCHANGED <<name, saved, failed>>
-----------------------------------------------------------------------------
(* slurmctld_state_save                                                      *)

\* A save is due (SAVE_MAX_WAIT has passed, or the daemon stops); it is marked done
\* before the jobs are looked at.
saver_due ==
    /\ saver = "wait" /\ save_jobs
    /\ save_jobs' = FALSE
    /\ saver' = "pack"
    /\ UNCHANGED <<mode, job_list, owed, run_save_thread, buffer, log_fd, name, disk,
                   saved, torn, failed>>

\* The thread has nothing left to do and returns; main joins it and ends.
saver_return ==
    /\ saver = "wait" /\ ~save_jobs /\ ~run_save_thread
    /\ run_save_thread' = TRUE
    /\ saver' = "none"
    /\ mode' = "down"
    /\ job_list' = {}
    /\ UNCHANGED <<owed, save_jobs, buffer, log_fd, name, disk, saved, torn, failed>>
-----------------------------------------------------------------------------
(* dump_all_job_state                                                        *)

\* The jobs are packed under the job read lock.
dump_pack ==
    /\ saver = "pack"
    /\ buffer' = job_list
    /\ saver' = "creat"
    /\ UNCHANGED <<mode, job_list, owed, save_jobs, run_save_thread, log_fd, name, disk,
                   saved, torn, failed>>

\* A file job_state.new that is there is truncated, whatever else links to it.
dump_creat ==
    /\ saver = "creat"
    /\ \E i \in Created("new") :
         /\ name' = [name EXCEPT !["new"] = i]
         /\ disk' = [disk EXCEPT ![i] = Empty]
         /\ log_fd' = i
    /\ saver' = "write"
    /\ UNCHANGED <<mode, job_list, owed, save_jobs, run_save_thread, buffer, saved, torn,
                   failed>>

\* Some of the buffer is written ...
dump_write ==
    /\ saver = "write"
    /\ disk' = [disk EXCEPT ![log_fd] = [size |-> "part", jobs |-> buffer]]
    /\ saver' = "fsync"
    /\ UNCHANGED <<mode, job_list, owed, save_jobs, run_save_thread, buffer, log_fd, name,
                   saved, torn, failed>>

\* ... then the rest; the file is synced and closed.
dump_fsync ==
    /\ saver = "fsync"
    /\ disk' = [disk EXCEPT ![log_fd] = [size |-> "whole", jobs |-> buffer]]
    /\ log_fd' = NoFile
    /\ saver' = "unlink_old"
    /\ UNCHANGED <<mode, job_list, owed, save_jobs, run_save_thread, buffer, name, saved,
                   torn, failed>>

\* creat, write, fsync or close fails: job_state.new is removed.  The save is marked
\* done, so the dump is not repeated before another is scheduled.
dump_error ==
    /\ saver \in {"creat"} \cup Writing
    /\ name' = unlink("new")
    /\ disk' = KeptFiles(unlink("new"), NoFile)
    /\ log_fd' = NoFile
    /\ saver' = "wait"
    /\ buffer' = {}
    /\ failed' = TRUE
    /\ UNCHANGED <<mode, job_list, owed, save_jobs, run_save_thread, saved, torn>>

\* file shuffle
shuffle(from, to, dir) ==
    /\ saver = from
    /\ name' = dir
    /\ disk' = KeptFiles(dir, log_fd)
    /\ saver' = to
    /\ UNCHANGED <<mode, job_list, owed, save_jobs, run_save_thread, buffer, log_fd,
                   saved, torn, failed>>

\* Mutant of link_old: job_state is removed before it is linked to job_state.old.
UnlinkRegFirst == shuffle("link_old", "unlink_reg", unlink("reg"))

unlink_old == shuffle("unlink_old", "link_old", unlink("old"))
link_old == shuffle("link_old", "unlink_reg", link("reg", "old"))
unlink_reg == shuffle("unlink_reg", "link_reg", unlink("reg"))
link_reg == shuffle("link_reg", "unlink_new", link("new", "reg"))

\* Mutant of unlink_new: the save is marked done when the dump is.
UnlinkNewAndClear ==
    /\ saver = "unlink_new"
    /\ name' = unlink("new")
    /\ disk' = KeptFiles(unlink("new"), log_fd)
    /\ saver' = "wait"
    /\ buffer' = {}
    /\ saved' = buffer
    /\ torn' = FALSE
    /\ failed' = FALSE
    /\ save_jobs' = FALSE
    /\ UNCHANGED <<mode, job_list, owed, run_save_thread, log_fd>>

unlink_new ==
    /\ saver = "unlink_new"
    /\ name' = unlink("new")
    /\ disk' = KeptFiles(unlink("new"), log_fd)
    /\ saver' = "wait"
    /\ buffer' = {}
    /\ saved' = buffer
    /\ torn' = FALSE
    /\ failed' = FALSE
    /\ UNCHANGED <<mode, job_list, owed, save_jobs, run_save_thread, log_fd>>

Dump ==
    \/ dump_pack \/ dump_creat \/ dump_write \/ dump_fsync
    \/ unlink_old \/ link_old \/ unlink_reg \/ link_reg \/ unlink_new

SaverStep == saver_due \/ saver_return \/ Dump

FilesNext ==
    \/ load_all_job_state \/ \E j \in Jobs : Submit(j)
    \/ schedule_job_save \/ shutdown_state_save \/ Crash
    \/ SaverStep \/ dump_error

FilesSpec == FilesInit /\ [][FilesNext]_files_vars
-----------------------------------------------------------------------------
\* Every variable stays in its type.
FilesTypeOK ==
    /\ mode \in {"down", "control", "stopping"}
    /\ job_list \in SUBSET Jobs
    /\ owed \in BOOLEAN /\ save_jobs \in BOOLEAN /\ run_save_thread \in BOOLEAN
    /\ saver \in Saver
    /\ buffer \in SUBSET Jobs
    /\ log_fd \in Inode \cup {NoFile}
    /\ name \in [Name -> Inode \cup {NoFile}]
    /\ disk \in [Inode -> Content]
    /\ saved \in SUBSET Jobs
    /\ torn \in BOOLEAN /\ failed \in BOOLEAN

\* The state file that a restart would read is whole, and has the jobs of the last
\* dump that was completed or of the one that is being completed.
Recoverable ==
    saved # {} =>
      /\ Opened # NoFile /\ disk[Opened].size = "whole"
      /\ \/ disk[Opened].jobs = saved
         \/ Dumping /\ disk[Opened].jobs = buffer

\* Wherever dumps are cut off, by the end of the daemon or by an error, the saved state
\* can be recovered; only a cut while job_state is exposed leaves it to the mercy of the
\* next dump, until that is completed.
SurvivesCrash == ~torn => Recoverable

\* Every change is where a restart would read it, or its save is still to be
\* scheduled, to be started, or under way with the change in it, unless a dump failed:
\* in particular a daemon that has stopped has saved its jobs.
NothingUnsaved ==
    mode # "down" /\ ~torn /\ ~failed =>
      \/ owed \/ save_jobs \/ saver = "pack"
      \/ (saver = "creat" \/ Dumping) /\ buffer = job_list
      \/ Loaded = {job_list}
=============================================================================
